--------------------------- MODULE MeteringProofs ---------------------------
(***************************************************************************)
(* What a turn of the assistant costs, and what stands between an account  *)
(* and the provider.                                                       *)
(***************************************************************************)
EXTENDS ChargeArithmetic, ChatAdmission, FiniteSetTheorems, WellFoundedInduction,
        TLAPS

(***************************************************************************)
(* The charge arithmetic for integers of every width, every unit of        *)
(* pricing and every usage and price table: no intermediate result wraps,  *)
(* and an accepted charge is the exact price rounded up.                   *)
(***************************************************************************)
LEMMA Division ==
  ASSUME NEW a \in Nat, NEW b \in Nat \ {0}
  PROVE  /\ a \div b \in Nat
         /\ (a \div b) * b <= a
         /\ a < (a \div b) * b + b
  BY SMT

LEMMA SmallModulus ==
  ASSUME NEW a \in Nat, NEW b \in Nat, a < b
  PROVE  a % b = a
  BY SMT

(* A result in range is what the machine computes. *)
LEMMA NoWrap ==
  ASSUME NEW x \in 0 .. MaxInt
  PROVE  Wrap(x) = x
  <1>1. (x + MaxInt + 1) % (2 * (MaxInt + 1)) = x + MaxInt + 1
    BY ArithmeticAssumption, SmallModulus
  <1> QED
    BY <1>1, ArithmeticAssumption DEF Wrap

(* What a factor below a quotient keeps below the dividend. *)
LEMMA QuotientGuard ==
  ASSUME NEW n \in Nat, NEW rate \in Nat \ {0}, NEW limit \in Nat
  PROVE  n <= limit \div rate <=> n * rate <= limit
  <1> DEFINE q == limit \div rate
  <1>1. q \in Nat /\ q * rate <= limit /\ limit < q * rate + rate
    BY Division
  <1> HIDE DEF q
  <1>2. ASSUME n <= q
        PROVE  n * rate <= limit
    <2>1. n * rate <= q * rate
      BY <1>1, <1>2
    <2> QED
      BY <1>1, <2>1
  <1>3. ASSUME n > q
        PROVE  n * rate > limit
    <2>1. n * rate >= (q + 1) * rate
      BY <1>1, <1>3
    <2> QED
      BY <1>1, <2>1
  <1> QED
    BY <1>1, <1>2, <1>3 DEF q

(* mulDivUp never wraps: it is the exact quotient rounded up, or an error, *)
(* and an error only for a negative argument or a product out of range.    *)
THEOREM MulDivUpExact ==
  ASSUME NEW tokens \in Int, NEW rate \in Int
  PROVE  LET n == MulDivUp(tokens, rate)
         IN  \/ /\ n = Overflow
                /\ tokens < 0 \/ rate < 0 \/ tokens * rate > MaxInt - (Per - 1)
             \/ /\ n \in 0 .. MaxInt /\ tokens >= 0 /\ rate >= 0
                /\ n * Per >= tokens * rate
                /\ n * Per <= tokens * rate + (Per - 1)
  <1> DEFINE n == MulDivUp(tokens, rate)
             limit == MaxInt - (Per - 1)
  <1> USE ArithmeticAssumption
  <1>1. CASE tokens < 0 \/ rate < 0
    BY <1>1 DEF MulDivUp
  <1>2. CASE tokens >= 0 /\ rate >= 0 /\ (tokens = 0 \/ rate = 0)
    <2>1. n = 0 /\ tokens * rate = 0
      BY <1>2 DEF MulDivUp
    <2> QED
      BY <1>2, <2>1
  <1>3. CASE tokens > 0 /\ rate > 0
    <2>0. limit \in Nat /\ tokens \in Nat /\ rate \in Nat \ {0}
      BY <1>3
    <2>1. CASE tokens > limit \div rate
      <3>1. n = Overflow
        BY <1>3, <2>1 DEF MulDivUp
      <3>2. tokens * rate > limit
        BY <2>0, <2>1, QuotientGuard, Division
      <3> QED
        BY <3>1, <3>2
    <2>2. CASE ~(tokens > limit \div rate)
      <3>0. limit \div rate \in Nat
        BY <2>0, Division
      <3>1. tokens * rate <= limit
        BY <2>0, <2>2, <3>0, QuotientGuard
      <3> DEFINE product == tokens * rate
      <3>2. product \in 0 .. MaxInt /\ product + Per - 1 \in 0 .. MaxInt
        BY <2>0, <3>1
      <3>3. n = Wrap(Wrap(product) + Per - 1) \div Per
        BY <1>3, <2>2 DEF MulDivUp
      <3>4. n = (product + Per - 1) \div Per
        BY <3>2, <3>3, NoWrap
      <3> HIDE DEF product, n
      <3>5. n \in Nat /\ n * Per <= product + Per - 1
                      /\ product + Per - 1 < n * Per + Per
        BY <3>2, <3>4, Division
      <3>6. n <= n * Per
        BY <3>5
      <3> QED
        BY <1>3, <3>2, <3>5, <3>6 DEF product, n
    <2> QED
      BY <2>1, <2>2
  <1> QED
    BY <1>1, <1>2, <1>3

(* mulChecked likewise: the exact product, or an error. *)
LEMMA MulCheckedExact ==
  ASSUME NEW count \in Int, NEW rate \in Int
  PROVE  LET n == MulChecked(count, rate)
         IN  \/ /\ n = Overflow
                /\ count < 0 \/ rate < 0 \/ count * rate > MaxInt
             \/ /\ n \in 0 .. MaxInt /\ count >= 0 /\ rate >= 0
                /\ n = count * rate
  <1> USE ArithmeticAssumption
  <1>1. CASE count < 0 \/ rate < 0
    BY <1>1 DEF MulChecked
  <1>2. CASE count >= 0 /\ rate >= 0 /\ (count = 0 \/ rate = 0)
    BY <1>2 DEF MulChecked
  <1>3. CASE count > 0 /\ rate > 0
    <2>0. count \in Nat /\ rate \in Nat \ {0} /\ MaxInt \div rate \in Nat
      BY <1>3, Division
    <2>1. CASE count > MaxInt \div rate
      <3>1. count * rate > MaxInt
        BY <2>0, <2>1, QuotientGuard
      <3> QED
        BY <1>3, <2>1, <3>1 DEF MulChecked
    <2>2. CASE ~(count > MaxInt \div rate)
      <3>1. count * rate \in 0 .. MaxInt
        BY <2>0, <2>2, QuotientGuard
      <3>2. MulChecked(count, rate) = Wrap(count * rate)
        BY <1>3, <2>2 DEF MulChecked
      <3> QED
        BY <1>3, <3>1, <3>2, NoWrap
    <2> QED
      BY <2>1, <2>2
  <1> QED
    BY <1>1, <1>2, <1>3

(* sumChecked adds what fits and refuses what does not. *)
LEMMA AddCheckedExact ==
  ASSUME NEW total \in 0 .. MaxInt, NEW term \in 0 .. MaxInt
  PROVE  \/ AddChecked(total, term) = Overflow /\ total + term > MaxInt
         \/ /\ AddChecked(total, term) = total + term
            /\ total + term \in 0 .. MaxInt
  <1> USE ArithmeticAssumption
  <1>1. CASE term > MaxInt - total
    BY <1>1 DEF AddChecked, Overflow
  <1>2. CASE ~(term > MaxInt - total)
    <2>1. total + term \in 0 .. MaxInt
      BY <1>2
    <2> QED
      BY <1>2, <2>1, NoWrap DEF AddChecked, Overflow
  <1> QED
    BY <1>1, <1>2

LEMMA Monotone ==
  ASSUME NEW a \in Nat, NEW b \in Nat, NEW c \in Nat, a <= b
  PROVE  a * c <= b * c
  BY SMT

(* A sum out of range had an exact price out of range. *)
LEMMA SumTooLarge ==
  ASSUME NEW sum \in Nat, NEW exact \in Nat, sum > MaxInt,
         sum * Per <= exact + 3 * (Per - 1)
  PROVE  exact > (MaxInt - 2) * Per
  <1> USE ArithmeticAssumption
  <1>1. (MaxInt + 1) * Per <= sum * Per
    BY Monotone
  <1>2. (MaxInt + 1) * Per = MaxInt * Per + Per
    OBVIOUS
  <1>3. (MaxInt - 2) * Per = MaxInt * Per - 2 * Per
    OBVIOUS
  <1>4. MaxInt * Per \in Nat /\ sum * Per \in Nat
    OBVIOUS
  <1> HIDE ArithmeticAssumption
  <1>5. Per \in Nat \ {0}
    BY ArithmeticAssumption
  <1> QED
    BY <1>1, <1>2, <1>3, <1>4, <1>5

(* One half of Charge is exact, or refused for a reason. *)
LEMMA TotalExact ==
  ASSUME NEW u \in Usage, NEW p \in Pricing
  PROVE  \/ Total(u, p) = Overflow /\ (~Sane(u, p) \/ TooLarge(u, p))
         \/ Total(u, p) \in 0 .. MaxInt /\ Covers(Total(u, p), u, p)
  <1> DEFINE h == MulDivUp(u.hit, p.hit)
             m == MulDivUp(u.miss, p.miss)
             o == MulDivUp(u.out, p.out)
             s == MulChecked(u.searches, p.search)
             eh == u.hit * p.hit
             em == u.miss * p.miss
             eo == u.out * p.out
             es == u.searches * p.search
             hm == AddChecked(AddChecked(0, h), m)
             hmo == AddChecked(hm, o)
  <1>u. /\ u.hit \in Int /\ u.miss \in Int /\ u.out \in Int
        /\ u.searches \in Int /\ p.hit \in Int /\ p.miss \in Int
        /\ p.out \in Int /\ p.search \in Int
    BY DEF Usage, Pricing
  <1>c. MaxInt \in Nat /\ Per \in Nat \ {0}
    BY ArithmeticAssumption
  <1>n. Overflow = -1
    BY DEF Overflow
  <1>t. Total(u, p) = AddChecked(hmo, s)
    BY DEF Total
  <1>e. Exact(u, p) = eh + em + eo + es * Per
    BY DEF Exact
  <1>1. CASE h = Overflow \/ m = Overflow \/ o = Overflow \/ s = Overflow
    <2>1. Total(u, p) = Overflow
      BY <1>t, <1>1 DEF AddChecked
    <2>2. CASE h = Overflow
      BY <1>u, <2>1, <2>2, <1>n, MulDivUpExact DEF Sane, TooLarge
    <2>3. CASE m = Overflow
      BY <1>u, <2>1, <2>3, <1>n, MulDivUpExact DEF Sane, TooLarge
    <2>4. CASE o = Overflow
      BY <1>u, <2>1, <2>4, <1>n, MulDivUpExact DEF Sane, TooLarge
    <2>5. CASE s = Overflow
      <3>1. u.searches < 0 \/ p.search < 0 \/ es > MaxInt
        BY <1>u, <2>5, <1>n, MulCheckedExact
      <3>2. CASE es > MaxInt /\ Sane(u, p)
        <4>1. eh \in Nat /\ em \in Nat /\ eo \in Nat /\ es \in Nat
          BY <1>u, <3>2 DEF Sane
        <4> HIDE DEF eh, em, eo, es
        <4>2. (MaxInt + 1) * Per <= es * Per
          BY <1>c, <3>2, <4>1, Monotone
        <4>3. (MaxInt + 1) * Per > (MaxInt - 2) * Per
          BY <1>c
        <4>4. es * Per \in Nat
          BY <1>c, <4>1
        <4>5. Exact(u, p) > (MaxInt - 2) * Per
          BY <1>c, <1>e, <4>1, <4>2, <4>3, <4>4
        <4> QED
          BY <2>1, <4>5 DEF TooLarge
      <3> QED
        BY <1>u, <2>1, <3>1, <3>2 DEF Sane
    <2> QED
      BY <1>1, <2>2, <2>3, <2>4, <2>5
  <1>2. CASE h # Overflow /\ m # Overflow /\ o # Overflow /\ s # Overflow
    <2>h. h \in 0 .. MaxInt /\ eh \in Nat /\ h * Per >= eh
                            /\ h * Per <= eh + (Per - 1)
      BY <1>u, <1>2, MulDivUpExact
    <2>m. m \in 0 .. MaxInt /\ em \in Nat /\ m * Per >= em
                            /\ m * Per <= em + (Per - 1)
      BY <1>u, <1>2, MulDivUpExact
    <2>o. o \in 0 .. MaxInt /\ eo \in Nat /\ o * Per >= eo
                            /\ o * Per <= eo + (Per - 1)
      BY <1>u, <1>2, MulDivUpExact
    <2>s. s \in 0 .. MaxInt /\ es \in Nat /\ s = es
      BY <1>u, <1>2, MulCheckedExact
    <2> HIDE DEF h, m, o, s, eh, em, eo, es
    <2> DEFINE sum == h + m + o + s
    <2>1. sum \in Nat /\ Exact(u, p) \in Nat
      BY <1>c, <1>e, <2>h, <2>m, <2>o, <2>s
    <2>2. sum * Per = h * Per + m * Per + o * Per + s * Per
      BY <1>c, <2>h, <2>m, <2>o, <2>s
    <2>3. /\ sum * Per >= Exact(u, p)
          /\ sum * Per <= Exact(u, p) + 3 * (Per - 1)
      BY <1>c, <1>e, <2>h, <2>m, <2>o, <2>s, <2>2
    <2>4. AddChecked(0, h) = h
      BY <1>c, <2>h, AddCheckedExact
    <2>5. \/ Total(u, p) = Overflow /\ sum > MaxInt
          \/ Total(u, p) = sum /\ sum \in 0 .. MaxInt
      <3>1. \/ hm = Overflow /\ h + m > MaxInt
            \/ hm = h + m /\ h + m \in 0 .. MaxInt
        BY <2>h, <2>m, <2>4, AddCheckedExact
      <3> HIDE DEF hm
      <3>2. \/ hmo = Overflow /\ h + m + o > MaxInt
            \/ hmo = h + m + o /\ h + m + o \in 0 .. MaxInt
        <4>1. CASE hm = Overflow /\ h + m > MaxInt
          BY <1>c, <2>h, <2>m, <2>o, <4>1 DEF AddChecked
        <4>2. CASE hm = h + m /\ h + m \in 0 .. MaxInt
          BY <2>o, <4>2, AddCheckedExact
        <4> QED
          BY <3>1, <4>1, <4>2
      <3> HIDE DEF hmo
      <3>3. CASE hmo = Overflow /\ h + m + o > MaxInt
        BY <1>c, <1>t, <2>h, <2>m, <2>o, <2>s, <3>3 DEF AddChecked
      <3>4. CASE hmo = h + m + o /\ h + m + o \in 0 .. MaxInt
        BY <1>t, <2>s, <3>4, AddCheckedExact
      <3> QED
        BY <3>2, <3>3, <3>4
    <2> HIDE DEF sum
    <2>6. CASE Total(u, p) = Overflow /\ sum > MaxInt
      <3>1. Exact(u, p) > (MaxInt - 2) * Per
        BY <2>1, <2>3, <2>6, SumTooLarge
      <3> QED
        BY <2>6, <3>1 DEF TooLarge
    <2>7. CASE Total(u, p) = sum /\ sum \in 0 .. MaxInt
      BY <2>3, <2>7 DEF Covers
    <2> QED
      BY <2>5, <2>6, <2>7
  <1> QED
    BY <1>1, <1>2

-----------------------------------------------------------------------------
LEMMA ChargeExact ==
  ASSUME NEW u \in Usage, NEW c \in Pricing, NEW p \in Pricing
  PROVE  \/ /\ Charge(u, c, p) = Refused
            /\ \/ ~Sane(u, c) \/ ~Sane(u, p)
               \/ TooLarge(u, c) \/ TooLarge(u, p)
         \/ /\ Charge(u, c, p) \in [cost : 0 .. MaxInt, credits : 0 .. MaxInt]
            /\ Covers(Charge(u, c, p).cost, u, c)
            /\ Covers(Charge(u, c, p).credits, u, p)
  <1>1. CASE Total(u, c) = Overflow \/ Total(u, p) = Overflow
    <2>1. Overflow \notin 0 .. MaxInt
      BY ArithmeticAssumption DEF Overflow
    <2> QED
      BY <1>1, <2>1, TotalExact DEF Charge
  <1>2. CASE Total(u, c) # Overflow /\ Total(u, p) # Overflow
    <2>1. Charge(u, c, p) = [cost |-> Total(u, c), credits |-> Total(u, p)]
      BY <1>2 DEF Charge
    <2> QED
      BY <1>2, <2>1, TotalExact
  <1> QED
    BY <1>1, <1>2

Answered ==
    /\ usage \in Usages /\ costs \in Prices /\ prices \in Prices
    /\ done \in BOOLEAN
    /\ done => outcome = Charge(usage, costs, prices)
    /\ ~done => outcome = Refused

LEMMA AlwaysAnswered == ChargeSpec => []Answered
  <1>1. InitCharge => Answered
    BY DEF InitCharge, Answered
  <1>2. ASSUME Answered, [Evaluate]_chargeVars
        PROVE  Answered'
    <2>1. CASE Evaluate
      BY <1>2, <2>1, Zenon DEF Answered, Evaluate
    <2>2. CASE UNCHANGED chargeVars
      BY <1>2, <2>2 DEF Answered, chargeVars
    <2> QED
      BY <1>2, <2>1, <2>2
  <1> QED
    BY <1>1, <1>2, PTL DEF ChargeSpec

LEMMA AnsweredExactly ==
  Answered => ChargeTypeOK /\ NeverUndercharged /\ RefusedOnlyWhenTooLarge
  <1> SUFFICES ASSUME Answered
               PROVE  ChargeTypeOK /\ NeverUndercharged /\ RefusedOnlyWhenTooLarge
    OBVIOUS
  <1>1. usage \in Usage /\ costs \in Pricing /\ prices \in Pricing
    BY ArithmeticAssumption DEF Answered
  <1>2. Refused \notin [cost : 0 .. MaxInt, credits : 0 .. MaxInt]
    BY ArithmeticAssumption DEF Refused, Overflow
  <1>3. CASE ~done
    BY <1>3 DEF Answered, ChargeTypeOK, NeverUndercharged, RefusedOnlyWhenTooLarge
  <1>4. CASE done
    <2>1. outcome = Charge(usage, costs, prices)
      BY <1>4 DEF Answered
    <2> QED
      BY <1>1, <1>2, <1>4, <2>1, ChargeExact
         DEF Answered, ChargeTypeOK, NeverUndercharged, RefusedOnlyWhenTooLarge
  <1> QED
    BY <1>3, <1>4 DEF Answered

(* Whatever the provider reports and the tables hold, a charge that is     *)
(* accepted covers the exact price of every band and of the searches.      *)
THEOREM ChargeNeverUndercharges == ChargeSpec => []NeverUndercharged
  BY AlwaysAnswered, AnsweredExactly, PTL

(* ErrChargeOverflow is never returned for a turn that could be billed.    *)
THEOREM ChargeRefusedOnlyWhenTooLarge == ChargeSpec => []RefusedOnlyWhenTooLarge
  BY AlwaysAnswered, AnsweredExactly, PTL

(* Charge returns numbers in range, or the error. *)
THEOREM ChargeTypeCorrect == ChargeSpec => []ChargeTypeOK
  BY AlwaysAnswered, AnsweredExactly, PTL

-----------------------------------------------------------------------------
(***************************************************************************)
(* Proofs about what stands between an account and the provider, for every *)
(* budget, window, length of a turn, price and balance, and for calls and  *)
(* turns that take as long as they like.                                   *)
(*                                                                         *)
(* The slice of the limiter is a filter of itself, and says nothing of the *)
(* calls it has dropped. What makes the window hold is that the times are  *)
(* in order, so that the filter keeps an end of them (KeptIsAnEnd), and    *)
(* that what it dropped is too old to matter (Remembers). That bounds the  *)
(* turns that keep their deadlines only through stretches of several       *)
(* windows (Stretches), which one call extends by one window. They and the *)
(* turns that are overdue are all that is left to charge once the credit   *)
(* is used up, and so bound the debt (Payable).                            *)
(***************************************************************************)
Windows == (TurnLife + Window - 1) \div Window

(* The times of the calls let through are in order, none in the future. *)
InOrder ==
    /\ allowed \in Seq(0 .. MaxTime)
    /\ \A i \in DOMAIN allowed : allowed[i] <= now
    /\ \A i, j \in DOMAIN allowed : i <= j => allowed[i] <= allowed[j]

(* The limiter remembers the last of them, and forgot only old ones. *)
Remembers ==
    /\ hits \in Seq(0 .. MaxTime) /\ Len(hits) <= Max
    /\ Len(hits) <= Len(allowed)
    /\ \A i \in DOMAIN hits : hits[i] = allowed[Len(allowed) - Len(hits) + i]
    /\ \A i \in 1 .. (Len(allowed) - Len(hits)) : allowed[i] <= now - Window

(* A budget spent n times over spans n windows. *)
Stretches ==
    \A i \in DOMAIN allowed, n \in Nat :
        i + n * Max \in DOMAIN allowed =>
            allowed[i + n * Max] - allowed[i] >= n * Window

(* Only calls that were let through are read for or run. *)
LetThrough == checking \subseteq DOMAIN allowed /\ running \subseteq DOMAIN allowed

(* What the turns that run may still cost fits the debt that is allowed.   *)
Spare == MaxInTime + overstayed - Cardinality(running)
Payable == balance <= 0 => balance + Spare * MaxCost > 0

Types == now \in 0 .. MaxTime /\ balance \in Int /\ overstayed \in Nat

AdmissionInv ==
    /\ Types /\ InOrder /\ Remembers /\ Stretches /\ LetThrough /\ Payable

-----------------------------------------------------------------------------
(* A window's length times the windows a turn may span holds the turn.     *)
LEMMA WindowsHoldATurn ==
    /\ Windows \in Nat \ {0} /\ Windows * Window >= TurnLife
    /\ MaxInTime = Max * Windows /\ MaxInTime \in Nat \ {0}
<1> DEFINE a == TurnLife + Window - 1
           q == a \div Window
<1> USE AdmissionAssumption
<1>1. \A x \in Nat, b \in Nat \ {0} :
          x \div b \in Nat /\ x < (x \div b) * b + b
  BY Z3
<1>2. a \in Nat /\ Window \in Nat \ {0} OBVIOUS
<1>3. q \in Nat /\ a < q * Window + Window BY <1>1, <1>2
<1> HIDE DEF q
<1>4. q * Window \in Int BY <1>3
<1>5. q * Window >= TurnLife BY <1>3, <1>4
<1>6. q # 0
  <2> SUFFICES ASSUME q = 0 PROVE FALSE OBVIOUS
  <2>1. q * Window = 0 BY <1>2
  <2> QED BY <1>5, <2>1
<1>7. Max * q \in Nat \ {0}
  <2>1. \A x, y \in Nat \ {0} : x * y \in Nat \ {0} BY Z3
  <2> QED BY <1>3, <1>6, <2>1
<1> QED BY <1>3, <1>5, <1>6, <1>7 DEF Windows, MaxInTime, q

-----------------------------------------------------------------------------
(* A set of numbers that has its greater neighbours, up to n, and is not   *)
(* empty, is an interval.                                                  *)
LEMMA UpwardIsInterval ==
    ASSUME NEW n \in Nat, NEW S \in SUBSET (1 .. n), S # {},
           \A i \in S, j \in 1 .. n : i <= j => j \in S
    PROVE  \E m \in 1 .. n : S = m .. n
<1>1. S \subseteq Nat OBVIOUS
<1>2. PICK m \in S : \A i \in S : ~ (<<i, m>> \in OpToRel(<, Nat))
  BY <1>1, NatLessThanWellFounded, WFMin
<1>3. \A i \in S : ~(i < m) BY <1>1, <1>2 DEF OpToRel
<1>4. m \in 1 .. n /\ \A i \in S : i \in 1 .. n /\ m <= i
  <2>1. \A i \in S : i \in Nat /\ i \in 1 .. n OBVIOUS
  <2> QED BY <1>3, <2>1
<1>5. \A j \in m .. n : j \in S
  <2>1. \A j \in m .. n : j \in 1 .. n /\ m <= j BY <1>4
  <2> QED BY <2>1
<1>6. \A i \in S : i \in m .. n BY <1>4
<1>7. S \subseteq m .. n /\ m .. n \subseteq S BY ONLY <1>5, <1>6, Zenon
<1>8. S = m .. n BY ONLY <1>7, Zenon
<1> QED BY <1>4, <1>8

(* Of times in order the filter keeps an end.                              *)
LEMMA KeptIsAnEnd ==
    ASSUME AdmissionInv
    PROVE  \E n \in 0 .. Len(hits) :
              /\ Len(Kept) = n /\ Kept \in Seq(0 .. MaxTime)
              /\ \A k \in 1 .. n :
                     /\ Kept[k] = hits[Len(hits) - n + k]
                     /\ Kept[k] > now - Window
              /\ \A i \in 1 .. (Len(hits) - n) : hits[i] <= now - Window
<1> DEFINE len == Len(hits)
<1> USE AdmissionAssumption DEF AdmissionInv, Types
<1>1. len \in Nat /\ DOMAIN hits = 1 .. len /\ \A i \in 1 .. len : hits[i] \in 0 .. MaxTime
  BY DEF Remembers
<1>2. \A i, j \in 1 .. len : i <= j => hits[i] <= hits[j]
  <2> SUFFICES ASSUME NEW i \in 1 .. len, NEW j \in 1 .. len, i <= j
               PROVE  hits[i] <= hits[j]
    OBVIOUS
  <2> DEFINE off == Len(allowed) - len
  <2>1. off \in Nat /\ Len(allowed) \in Nat /\ DOMAIN allowed = 1 .. Len(allowed)
    BY <1>1 DEF Remembers, InOrder
  <2>2. off + i \in DOMAIN allowed /\ off + j \in DOMAIN allowed BY <1>1, <2>1
  <2>3. hits[i] = allowed[off + i] /\ hits[j] = allowed[off + j]
    BY <1>1 DEF Remembers
  <2>4. off + i <= off + j BY <1>1, <2>1
  <2> HIDE DEF off
  <2>5. allowed[off + i] <= allowed[off + j] BY <2>2, <2>4 DEF InOrder
  <2> QED BY <2>3, <2>5
<1>3. Inside \subseteq 1 .. len BY <1>1 DEF Inside
<1> HIDE DEF len
<1>4. CASE Inside = {}
  <2>1. Cardinality(Inside) = 0 BY <1>4, FS_EmptySet
  <2>2. Kept = [k \in 1 .. 0 |->
            hits[CHOOSE i \in Inside : Cardinality({j \in Inside : j <= i}) = k]]
    BY <2>1 DEF Kept
  <2>3. Len(Kept) = 0 /\ Kept \in Seq(0 .. MaxTime)
    <3>1. Kept = << >> BY <2>2
    <3> QED BY <3>1
  <2>4. \A i \in 1 .. len : hits[i] <= now - Window
    BY <1>1, <1>4 DEF Inside
  <2> QED BY <1>1, <2>3, <2>4 DEF len
<1>5. CASE Inside # {}
  <2>1. PICK m \in 1 .. len : Inside = m .. len
    <3>1. \A i \in Inside, j \in 1 .. len : i <= j => j \in Inside
      BY <1>1, <1>2 DEF Inside
    <3> QED BY <1>1, <1>3, <1>5, <3>1, UpwardIsInterval
  <2> DEFINE n == len - m + 1
  <2>2. m \in Nat /\ m <= len /\ n \in 1 .. len BY <1>1, <2>1
  <2>3. Cardinality(Inside) = n BY <1>1, <2>1, <2>2, FS_Interval
  <2>4. \A k \in 1 .. n :
            (CHOOSE i \in Inside : Cardinality({j \in Inside : j <= i}) = k)
                = len - n + k
    <3> SUFFICES ASSUME NEW k \in 1 .. n
                 PROVE  (CHOOSE i \in Inside :
                            Cardinality({j \in Inside : j <= i}) = k) = len - n + k
      OBVIOUS
    <3>1. \A i \in Inside : Cardinality({j \in Inside : j <= i}) = i - m + 1
      <4> SUFFICES ASSUME NEW i \in Inside
                   PROVE  Cardinality({j \in Inside : j <= i}) = i - m + 1
        OBVIOUS
      <4>1. i \in Nat /\ m <= i /\ i <= len BY <1>1, <2>1, <2>2
      <4>2. {j \in Inside : j <= i} = m .. i BY <1>1, <2>1, <2>2, <4>1
      <4>3. Cardinality(m .. i) = IF m > i THEN 0 ELSE i - m + 1
        BY <2>2, <4>1, FS_Interval
      <4>4. Cardinality(m .. i) = i - m + 1
        BY ONLY <2>2, <4>1, <4>3
      <4> QED BY ONLY <4>2, <4>4, Zenon
    <3>2. len - n + k \in Inside /\ (len - n + k) - m + 1 = k
      BY <1>1, <2>1, <2>2
    <3>3. \A i \in Inside : i - m + 1 = k => i = len - n + k
      BY <1>1, <2>1, <2>2
    <3> QED BY <3>1, <3>2, <3>3
  <2>5. Kept = [k \in 1 .. n |-> hits[len - n + k]]
    <3> DEFINE At(k) == CHOOSE i \in Inside :
                            Cardinality({j \in Inside : j <= i}) = k
    <3>1. Kept = [k \in 1 .. n |-> hits[At(k)]] BY <2>3 DEF Kept
    <3>2. \A k \in 1 .. n : At(k) = len - n + k BY <2>4
    <3> HIDE DEF At, n
    <3> QED BY <3>1, <3>2
  <2>6. \A k \in 1 .. n : len - n + k \in 1 .. len /\ len - n + k \in Inside
    BY <1>1, <2>1, <2>2
  <2>7. Kept \in Seq(0 .. MaxTime) /\ Len(Kept) = n
    <3> HIDE DEF n
    <3>1. \A k \in 1 .. n : hits[len - n + k] \in 0 .. MaxTime BY <1>1, <2>6
    <3> QED BY <2>2, <2>5, <3>1
  <2>8. \A k \in 1 .. n : Kept[k] = hits[len - n + k] /\ Kept[k] > now - Window
    BY <2>5, <2>6 DEF Inside
  <2>9. \A i \in 1 .. (len - n) : hits[i] <= now - Window
    <3> SUFFICES ASSUME NEW i \in 1 .. (len - n) PROVE hits[i] <= now - Window
      OBVIOUS
    <3>1. i \in 1 .. len /\ i \notin Inside BY <1>1, <2>1, <2>2
    <3> QED BY <1>1, <3>1 DEF Inside
  <2> HIDE DEF n
  <2> QED BY <1>1, <2>2, <2>7, <2>8, <2>9 DEF len
<1> QED BY <1>4, <1>5

(* So what it keeps is the end of the calls let through, and every earlier *)
(* call has left the window.                                               *)
LEMMA KeptRemembers ==
    ASSUME AdmissionInv
    PROVE  /\ Kept \in Seq(0 .. MaxTime) /\ Len(Kept) \in Nat
           /\ Len(Kept) <= Max /\ Len(Kept) <= Len(allowed)
           /\ \A k \in 1 .. Len(Kept) :
                  /\ Kept[k] = allowed[Len(allowed) - Len(Kept) + k]
                  /\ Kept[k] > now - Window
           /\ \A i \in 1 .. (Len(allowed) - Len(Kept)) :
                  allowed[i] <= now - Window
<1> USE AdmissionAssumption
<1> DEFINE la == Len(allowed)
           lh == Len(hits)
<1>1. PICK n \in 0 .. lh :
          /\ Len(Kept) = n /\ Kept \in Seq(0 .. MaxTime)
          /\ \A k \in 1 .. n : Kept[k] = hits[lh - n + k] /\ Kept[k] > now - Window
          /\ \A i \in 1 .. (lh - n) : hits[i] <= now - Window
  BY KeptIsAnEnd
<1>2. /\ la \in Nat /\ lh \in Nat /\ lh <= la /\ lh <= Max
      /\ \A i \in 1 .. lh : hits[i] = allowed[la - lh + i]
      /\ \A i \in 1 .. (la - lh) : allowed[i] <= now - Window
      /\ now \in Int
  <2>1. la \in Nat BY DEF AdmissionInv, InOrder
  <2>2. lh \in Nat /\ now \in Int BY DEF AdmissionInv, Types, Remembers
  <2> QED BY <2>1, <2>2 DEF AdmissionInv, Remembers
<1> HIDE DEF la, lh
<1>3. n \in Nat /\ n <= lh BY <1>1, <1>2
<1>4. \A k \in 1 .. n : Kept[k] = allowed[la - n + k]
  <2> SUFFICES ASSUME NEW k \in 1 .. n PROVE Kept[k] = allowed[la - n + k]
    OBVIOUS
  <2>1. lh - n + k \in 1 .. lh /\ la - lh + (lh - n + k) = la - n + k
    BY <1>2, <1>3
  <2>2. hits[lh - n + k] = allowed[la - lh + (lh - n + k)] BY <1>2, <2>1
  <2> QED BY <1>1, <2>1, <2>2
<1>5. \A i \in 1 .. (la - n) : allowed[i] <= now - Window
  <2> SUFFICES ASSUME NEW i \in 1 .. (la - n) PROVE allowed[i] <= now - Window
    OBVIOUS
  <2>1. CASE i <= la - lh BY <1>2, <1>3, <2>1
  <2>2. CASE i > la - lh
    <3> DEFINE j == i - (la - lh)
    <3>1. j \in 1 .. (lh - n) /\ j \in 1 .. lh /\ la - lh + j = i
      BY <1>2, <1>3, <2>2
    <3> HIDE DEF j
    <3>2. hits[j] = allowed[la - lh + j] /\ hits[j] <= now - Window
      BY <1>1, <1>2, <3>1
    <3> QED BY <3>1, <3>2
  <2> QED BY <1>2, <1>3, <2>1, <2>2
<1> QED BY <1>1, <1>2, <1>3, <1>4, <1>5 DEF la

-----------------------------------------------------------------------------
(* The turns that keep their deadlines are among the last MaxInTime calls: *)
(* the one that many calls before is overdue.                              *)
LEMMA InTimeIsBounded ==
    ASSUME AdmissionInv
    PROVE  /\ IsFiniteSet(running) /\ Cardinality(running) \in Nat
           /\ Cardinality(Overdue) \in Nat
           /\ Cardinality(running) <= MaxInTime + Cardinality(Overdue)
<1> USE AdmissionAssumption
<1> DEFINE la == Len(allowed)
           first == la - MaxInTime + 1
           inTime == running \ Overdue
<1>1. la \in Nat /\ DOMAIN allowed = 1 .. la
      /\ \A i \in 1 .. la : allowed[i] \in 0 .. MaxTime /\ allowed[i] <= now
      /\ now \in Int
  BY DEF AdmissionInv, InOrder, Types
<1>2. running \in SUBSET (1 .. la) BY <1>1 DEF AdmissionInv, LetThrough
<1> HIDE DEF la
<1>3. ASSUME NEW call \in inTime PROVE call \in first .. la
  <2>1. call \in 1 .. la /\ now - allowed[call] < TurnLife
    BY <1>1, <1>2 DEF Overdue
  <2>2. ASSUME call + MaxInTime <= la PROVE FALSE
    <3>0. MaxInTime = Max * Windows /\ Max * Windows = Windows * Max
      BY WindowsHoldATurn
    <3>1. call + Windows * Max \in 1 .. la
      BY <2>1, <2>2, <3>0, <1>1, WindowsHoldATurn
    <3>2. allowed[call + Windows * Max] - allowed[call] >= Windows * Window
      BY <1>1, <2>1, <3>1, WindowsHoldATurn DEF AdmissionInv, Stretches
    <3>3. allowed[call + Windows * Max] <= now
          /\ allowed[call + Windows * Max] \in Int /\ allowed[call] \in Int
      BY <1>1, <2>1, <3>1
    <3>4. Windows * Window \in Int /\ Windows * Window >= TurnLife
      BY WindowsHoldATurn
    <3> HIDE DEF Windows
    <3> QED BY <1>1, <2>1, <3>2, <3>3, <3>4
  <2> QED BY <1>1, <2>1, <2>2, WindowsHoldATurn
<1>4. /\ first \in Int /\ IsFiniteSet(first .. la)
      /\ Cardinality(first .. la) <= MaxInTime
  <2>1. first \in Int /\ la \in Int /\ MaxInTime \in Nat
        /\ la - first + 1 = MaxInTime
    BY <1>1, WindowsHoldATurn
  <2> HIDE DEF first
  <2>2. /\ IsFiniteSet(first .. la)
        /\ Cardinality(first .. la) = IF first > la THEN 0 ELSE la - first + 1
    BY <2>1, FS_Interval
  <2> QED BY <2>1, <2>2
<1>5. inTime \in SUBSET (first .. la) BY <1>3
<1> HIDE DEF first, inTime
<1>6. IsFiniteSet(inTime) /\ Cardinality(inTime) <= Cardinality(first .. la)
  BY <1>4, <1>5, FS_Subset
<1>7. IsFiniteSet(running)
  <2>1. IsFiniteSet(1 .. la) BY <1>1, FS_Interval
  <2> QED BY <1>2, <2>1, FS_Subset
<1>8. IsFiniteSet(Overdue) BY <1>7, FS_Subset DEF Overdue
<1>9. Cardinality(running) = Cardinality(inTime) + Cardinality(Overdue)
  <2>1. running = inTime \union Overdue /\ inTime \cap Overdue = {}
    BY DEF inTime, Overdue
  <2>2. Cardinality(inTime \cap Overdue) = 0 BY <2>1, FS_EmptySet
  <2>3. Cardinality(inTime \union Overdue) =
            Cardinality(inTime) + Cardinality(Overdue)
                - Cardinality(inTime \cap Overdue)
    BY <1>6, <1>8, FS_Union
  <2>4. Cardinality(inTime) \in Nat /\ Cardinality(Overdue) \in Nat
    BY <1>6, <1>8, FS_CardinalityType
  <2> QED BY <2>1, <2>2, <2>3, <2>4
<1>10. /\ Cardinality(inTime) \in Nat /\ Cardinality(Overdue) \in Nat
       /\ Cardinality(first .. la) \in Nat /\ Cardinality(running) \in Nat
  BY <1>4, <1>6, <1>7, <1>8, FS_CardinalityType
<1> QED BY <1>4, <1>6, <1>7, <1>9, <1>10, WindowsHoldATurn

-----------------------------------------------------------------------------
LEMMA InitAdmission == Init => AdmissionInv
<1> SUFFICES ASSUME Init PROVE AdmissionInv OBVIOUS
<1> USE AdmissionAssumption DEF Init
<1>1. Types /\ InOrder /\ LetThrough BY DEF Types, InOrder, LetThrough
<1>2. Remembers BY DEF Remembers
<1>3. Stretches BY DEF Stretches
<1>4. Payable
  <2>1. Cardinality(running) = 0 BY FS_EmptySet
  <2>2. \A x, y \in Nat \ {0} : x * y > 0 BY Z3
  <2>3. Spare = MaxInTime BY <2>1, WindowsHoldATurn DEF Spare
  <2>4. Spare * MaxCost > 0 /\ Spare * MaxCost \in Int
    BY <2>2, <2>3, WindowsHoldATurn
  <2>5. balance \in Nat OBVIOUS
  <2> QED BY <2>1, <2>3, <2>4, <2>5 DEF Payable
<1> QED BY <1>1, <1>2, <1>3, <1>4 DEF AdmissionInv

LEMMA RefuseKeeps == AdmissionInv /\ Refuse => AdmissionInv'
<1> SUFFICES ASSUME AdmissionInv, Refuse PROVE AdmissionInv' OBVIOUS
<1> USE DEF AdmissionInv, Refuse
<1>1. Types' /\ InOrder' /\ Stretches' /\ LetThrough' /\ Payable'
  BY DEF Types, InOrder, Stretches, LetThrough, Payable, Spare
<1>2. Remembers'
  <2>1. hits' = Kept /\ allowed' = allowed /\ now' = now
        /\ DOMAIN hits' = 1 .. Len(hits')
    BY KeptRemembers
  <2> QED BY <2>1, KeptRemembers DEF Remembers
<1> QED BY <1>1, <1>2

LEMMA AllowKeeps == AdmissionInv /\ Allow => AdmissionInv'
<1> SUFFICES ASSUME AdmissionInv, Allow PROVE AdmissionInv' OBVIOUS
<1> USE AdmissionAssumption
<1> DEFINE la == Len(allowed)
           n == Len(Kept)
<1>1. /\ n < Max /\ hits' = Append(Kept, now) /\ allowed' = Append(allowed, now)
      /\ checking' = checking \union {Len(allowed')}
      /\ now' = now /\ running' = running /\ balance' = balance
      /\ overstayed' = overstayed
  BY DEF Allow
<1>2. now \in 0 .. MaxTime /\ balance \in Int /\ overstayed \in Nat
  BY DEF AdmissionInv, Types
<1>3. /\ allowed \in Seq(0 .. MaxTime) /\ la \in Nat /\ DOMAIN allowed = 1 .. la
      /\ \A i \in 1 .. la : allowed[i] <= now /\ allowed[i] \in 0 .. MaxTime
      /\ \A i, j \in 1 .. la : i <= j => allowed[i] <= allowed[j]
  BY DEF AdmissionInv, InOrder
<1>4. /\ Kept \in Seq(0 .. MaxTime) /\ n \in Nat /\ n <= la
      /\ \A k \in 1 .. n : Kept[k] = allowed[la - n + k]
      /\ \A i \in 1 .. (la - n) : allowed[i] <= now - Window
  BY KeptRemembers
<1>5. /\ allowed' \in Seq(0 .. MaxTime) /\ Len(allowed') = la + 1
      /\ DOMAIN allowed' = 1 .. la + 1
      /\ \A i \in 1 .. la : allowed'[i] = allowed[i]
      /\ allowed'[la + 1] = now
  BY <1>1, <1>2, <1>3
<1>6. /\ hits' \in Seq(0 .. MaxTime) /\ Len(hits') = n + 1
      /\ DOMAIN hits' = 1 .. n + 1
      /\ \A k \in 1 .. n : hits'[k] = Kept[k]
      /\ hits'[n + 1] = now
  BY <1>1, <1>2, <1>4
<1> HIDE DEF la, n
<1>7. Types' BY <1>1, <1>2 DEF Types
<1>8. InOrder'
  <2>1. \A i \in 1 .. la + 1 : i \in 1 .. la \/ i = la + 1 BY <1>3
  <2>2. \A i \in DOMAIN allowed' : allowed'[i] <= now'
    BY <1>1, <1>2, <1>3, <1>5, <2>1
  <2>3. \A i, j \in DOMAIN allowed' : i <= j => allowed'[i] <= allowed'[j]
    <3> SUFFICES ASSUME NEW i \in 1 .. la + 1, NEW j \in 1 .. la + 1, i <= j
                 PROVE  allowed'[i] <= allowed'[j]
      BY <1>5
    <3>1. CASE j = la + 1 BY <1>2, <1>3, <1>5, <2>1, <3>1
    <3>2. CASE j \in 1 .. la
      <4>1. i \in 1 .. la BY <1>3, <3>2
      <4> QED BY <1>3, <1>5, <3>2, <4>1
    <3> QED BY <2>1, <3>1, <3>2
  <2> QED BY <1>5, <2>2, <2>3 DEF InOrder
<1>9. Remembers'
  <2>1. Len(hits') <= Max /\ Len(hits') <= Len(allowed')
        /\ Len(allowed') - Len(hits') = la - n
    BY <1>1, <1>3, <1>4, <1>5, <1>6
  <2>2. \A k \in 1 .. n + 1 : hits'[k] = allowed'[la - n + k]
    <3> SUFFICES ASSUME NEW k \in 1 .. n + 1 PROVE hits'[k] = allowed'[la - n + k]
      OBVIOUS
    <3>1. CASE k \in 1 .. n
      <4>1. la - n + k \in 1 .. la BY <1>3, <1>4, <3>1
      <4> QED BY <1>4, <1>5, <1>6, <3>1, <4>1
    <3>2. CASE k = n + 1
      <4>1. la - n + k = la + 1 BY <1>3, <1>4, <3>2
      <4> QED BY <1>5, <1>6, <3>2, <4>1
    <3> QED BY <1>4, <3>1, <3>2
  <2>3. \A i \in 1 .. (la - n) : allowed'[i] <= now' - Window
    <3>1. \A i \in 1 .. (la - n) : i \in 1 .. la BY <1>3, <1>4
    <3> QED BY <1>1, <1>4, <1>5, <3>1
  <2> QED BY <1>6, <2>1, <2>2, <2>3 DEF Remembers
<1>10. Stretches'
  <2> SUFFICES ASSUME NEW i \in 1 .. la + 1, NEW m \in Nat,
                      i + m * Max \in 1 .. la + 1
               PROVE  allowed'[i + m * Max] - allowed'[i] >= m * Window
    BY <1>5 DEF Stretches
  <2>0. m * Max \in Nat /\ m * Window \in Nat
    <3>1. \A x, y \in Nat : x * y \in Nat BY Z3
    <3> QED BY <3>1
  <2>1. CASE i + m * Max \in 1 .. la
    <3>1. i \in 1 .. la BY <1>3, <2>0, <2>1
    <3>2. allowed[i + m * Max] - allowed[i] >= m * Window
      BY <1>3, <2>1, <3>1 DEF AdmissionInv, Stretches
    <3> QED BY <1>5, <2>1, <3>1, <3>2
  <2>2. CASE i + m * Max = la + 1 /\ m = 0
    <3>1. m * Max = 0 /\ m * Window = 0 BY <2>2
    <3>2. i = la + 1 BY <1>3, <2>2, <3>1
    <3> QED BY <1>2, <1>5, <3>1, <3>2
  <2>3. CASE i + m * Max = la + 1 /\ m # 0
    <3> DEFINE p == i + (m - 1) * Max
    <3>1. (m - 1) \in Nat /\ (m - 1) * Max \in Nat /\ (m - 1) * Window \in Nat
          /\ m * Max = (m - 1) * Max + Max
          /\ m * Window = (m - 1) * Window + Window
      <4>1. \A x, y \in Nat : x * y \in Nat BY Z3
      <4>2. m - 1 \in Nat BY <2>3
      <4> QED BY <4>1, <4>2
    <3>2. p \in 1 .. (la - n) /\ p = la + 1 - Max /\ p \in 1 .. la /\ i \in 1 .. la
      <4> DEFINE x == (m - 1) * Max
      <4>1. x \in Nat /\ i + (x + Max) = la + 1 /\ p = i + x BY <2>3, <3>1
      <4> HIDE DEF x, p
      <4> QED BY <1>1, <1>3, <1>4, <4>1
    <3>3. allowed[p] <= now - Window BY <1>4, <3>2
    <3>4. allowed[p] - allowed[i] >= (m - 1) * Window
      BY <1>3, <3>1, <3>2 DEF AdmissionInv, Stretches
    <3>5. allowed'[i + m * Max] = now /\ allowed'[i] = allowed[i]
      BY <1>5, <2>3, <3>2
    <3>6. allowed[p] \in Int /\ allowed[i] \in Int BY <1>3, <3>2
    <3> HIDE DEF p
    <3> QED BY <1>2, <3>1, <3>3, <3>4, <3>5, <3>6
  <2> QED BY <1>3, <2>1, <2>2, <2>3
<1>11. LetThrough'
  <2>1. checking \subseteq 1 .. la /\ running \subseteq 1 .. la
    BY <1>3 DEF AdmissionInv, LetThrough
  <2>2. 1 .. la \subseteq 1 .. la + 1 /\ la + 1 \in 1 .. la + 1 BY <1>3
  <2> QED BY <1>1, <1>5, <2>1, <2>2 DEF LetThrough
<1>12. Payable' BY <1>1 DEF AdmissionInv, Payable, Spare
<1> QED BY <1>7, <1>8, <1>9, <1>10, <1>11, <1>12 DEF AdmissionInv

LEMMA EnsureCreditKeeps ==
    ASSUME AdmissionInv, NEW call, EnsureCredit(call) PROVE AdmissionInv'
<1> USE DEF AdmissionInv, EnsureCredit
<1>1. Types' /\ InOrder' /\ Remembers' /\ Stretches'
  BY DEF Types, InOrder, Remembers, Stretches
<1>3. LetThrough' BY DEF LetThrough
<1>4. Payable'
  <2>1. balance <= 0 => running' = running BY DEF Types
  <2> QED BY <2>1 DEF Payable, Spare
<1> QED BY <1>1, <1>3, <1>4

(* A turn that ends and is charged leaves one turn fewer to be charged;    *)
(* the charge that uses up the credit leaves those in time and the overdue *)
(* ones.                                                                   *)
LEMMA EndTurnKeeps ==
    ASSUME AdmissionInv, NEW call, EndTurn(call) PROVE AdmissionInv'
<1> USE AdmissionAssumption DEF AdmissionInv
<1>1. PICK cost \in 0 .. MaxCost :
          /\ balance' = balance - cost
          /\ call \in running /\ running' = running \ {call}
          /\ now' = now /\ hits' = hits /\ allowed' = allowed
          /\ checking' = checking
          /\ overstayed' = IF balance > 0 /\ balance' <= 0
                           THEN Cardinality(Overdue) ELSE overstayed
  BY DEF EndTurn
<1>2. InOrder' /\ Remembers' /\ Stretches' /\ LetThrough'
  BY <1>1 DEF InOrder, Remembers, Stretches, LetThrough
<1>3. balance \in Int /\ cost \in Nat /\ overstayed \in Nat /\ overstayed' \in Nat
  BY <1>1, InTimeIsBounded DEF Types
<1>4. Types' BY <1>1, <1>3 DEF Types
<1>5. Payable'
  <2> DEFINE c == Cardinality(running)
             left == MaxInTime + overstayed' - c
  <2>1. /\ c \in Nat /\ Cardinality(running') = c - 1
        /\ c <= MaxInTime + Cardinality(Overdue) /\ Cardinality(Overdue) \in Nat
    BY <1>1, InTimeIsBounded, FS_RemoveElement
  <2>2. left \in Int BY <1>3, <2>1, WindowsHoldATurn
  <2>3. Spare' * MaxCost = left * MaxCost + MaxCost
        /\ left * MaxCost \in Int
    <3>1. \A x, y \in Int : x * y \in Int /\ (x + 1) * y = x * y + y BY Z3
    <3>2. Spare' = left + 1
      BY <1>3, <2>1, WindowsHoldATurn DEF Spare
    <3> HIDE DEF left, c
    <3> QED BY <2>2, <3>1, <3>2
  <2>4. CASE balance > 0 /\ balance' <= 0
    <3>1. overstayed' = Cardinality(Overdue) BY <1>1, <2>4
    <3>2. left \in Nat BY <2>1, <3>1, WindowsHoldATurn
    <3>3. left * MaxCost \in Nat
      <4>1. \A x, y \in Nat : x * y \in Nat BY Z3
      <4> HIDE DEF left
      <4> QED BY <3>2, <4>1
    <3> HIDE DEF left, c
    <3>4. balance' + (left * MaxCost + MaxCost) > 0
      BY <1>1, <1>3, <2>4, <3>3
    <3> QED BY <2>3, <3>4 DEF Payable
  <2>5. CASE balance <= 0
    <3>1. overstayed' = overstayed BY <1>1, <1>3, <2>5
    <3>2. left = Spare BY <3>1 DEF Spare
    <3> HIDE DEF left
    <3>4. balance + left * MaxCost > 0 BY <2>5, <3>2 DEF Payable
    <3>3. balance' + (left * MaxCost + MaxCost) > 0
      BY <1>1, <1>3, <2>3, <3>4
    <3> QED BY <2>3, <3>3 DEF Payable
  <2>6. CASE balance' > 0
    <3>1. ~(balance' <= 0) BY <1>1, <1>3, <2>6
    <3> QED BY <3>1 DEF Payable
  <2> QED BY <1>1, <1>3, <2>4, <2>5, <2>6
<1> QED BY <1>2, <1>4, <1>5

LEMMA TopUpKeeps == AdmissionInv /\ TopUp => AdmissionInv'
<1> SUFFICES ASSUME AdmissionInv, TopUp PROVE AdmissionInv' OBVIOUS
<1> USE AdmissionAssumption DEF AdmissionInv
<1>1. PICK b \in (balance + 1) .. MaxBalance :
          /\ balance' = b /\ now' = now /\ hits' = hits /\ allowed' = allowed
          /\ checking' = checking /\ running' = running
          /\ overstayed' = IF balance' > 0 THEN 0 ELSE overstayed
  BY DEF TopUp
<1>2. InOrder' /\ Remembers' /\ Stretches' /\ LetThrough'
  BY <1>1 DEF InOrder, Remembers, Stretches, LetThrough
<1>3. b \in Int /\ b > balance BY DEF Types
<1>4. Types' BY <1>1, <1>3 DEF Types
<1>5. Payable'
  <2>1. Spare * MaxCost \in Int
    <3>1. \A x, y \in Int : x * y \in Int BY Z3
    <3>2. Spare \in Int BY InTimeIsBounded, WindowsHoldATurn DEF Types, Spare
    <3> QED BY <3>1, <3>2
  <2>2. CASE balance' > 0
    <3>1. ~(balance' <= 0) BY <1>1, <1>3, <2>2
    <3> QED BY <3>1 DEF Payable
  <2>3. CASE balance' <= 0
    <3>1. Spare' = Spare BY <1>1, <1>3, <2>3 DEF Spare
    <3> QED BY <1>1, <1>3, <2>1, <2>3, <3>1 DEF Payable, Types
  <2> QED BY <1>1, <1>3, <2>2, <2>3
<1> QED BY <1>2, <1>4, <1>5

LEMMA TickKeeps == AdmissionInv /\ Tick => AdmissionInv'
<1> SUFFICES ASSUME AdmissionInv, Tick PROVE AdmissionInv' OBVIOUS
<1> USE AdmissionAssumption DEF AdmissionInv
<1>1. /\ now \in 0 .. MaxTime /\ now < MaxTime /\ now' = now + 1
      /\ hits' = hits /\ allowed' = allowed /\ checking' = checking
      /\ running' = running /\ balance' = balance /\ overstayed' = overstayed
  BY DEF Tick, Types
<1>2. Types' BY <1>1 DEF Types
<1>3. InOrder' BY <1>1 DEF InOrder
<1>4. Remembers'
  <2>0. /\ Len(allowed) \in Nat /\ Len(hits) \in Nat
        /\ \A i \in 1 .. Len(allowed) : allowed[i] \in 0 .. MaxTime
    BY DEF Remembers, InOrder
  <2>1. \A i \in 1 .. (Len(allowed) - Len(hits)) :
            i \in 1 .. Len(allowed) /\ allowed[i] <= now - Window
    BY <2>0 DEF Remembers
  <2>2. \A i \in 1 .. (Len(allowed) - Len(hits)) : allowed[i] <= now' - Window
    BY <1>1, <2>0, <2>1
  <2>3. /\ hits \in Seq(0 .. MaxTime) /\ Len(hits) <= Max
        /\ Len(hits) <= Len(allowed)
        /\ \A i \in DOMAIN hits : hits[i] = allowed[Len(allowed) - Len(hits) + i]
    BY DEF Remembers
  <2> QED BY <1>1, <2>2, <2>3 DEF Remembers
<1>5. Stretches' BY <1>1 DEF Stretches
<1>6. LetThrough' BY <1>1 DEF LetThrough
<1>7. Payable' BY <1>1 DEF Payable, Spare
<1> QED BY <1>2, <1>3, <1>4, <1>5, <1>6, <1>7

(* What is taken away, times a number, is no more. *)
LEMMA LessIsLess ==
    ASSUME NEW k \in Nat, NEW c \in Nat, NEW z \in Nat
    PROVE  /\ (k - c) * z <= (k - 0) * z
           /\ (k - c) * z \in Int /\ (k - 0) * z \in Int
<1>1. (k - 0) * z = (k - c) * z + c * z /\ c * z >= 0 BY Z3
<1>2. (k - c) * z \in Int /\ (k - 0) * z \in Int /\ c * z \in Int BY Z3
<1> QED BY <1>1, <1>2

LEMMA RestartKeeps == AdmissionInv /\ Restart => AdmissionInv'
<1> SUFFICES ASSUME AdmissionInv, Restart PROVE AdmissionInv' OBVIOUS
<1> USE AdmissionAssumption DEF AdmissionInv, Restart
<1>1. Types' /\ InOrder' /\ LetThrough' BY DEF Types, InOrder, LetThrough
<1>2. Remembers' BY DEF Remembers
<1>3. Stretches' BY DEF Stretches
<1>4. Payable'
  <2> DEFINE c == Cardinality(running)
             k == MaxInTime + overstayed
  <2>1. /\ k \in Nat /\ c \in Nat /\ balance \in Int /\ balance' = balance
        /\ Cardinality(running') = 0
    BY InTimeIsBounded, WindowsHoldATurn, FS_EmptySet DEF Types
  <2>2. Spare = k - c /\ Spare' = k - 0
    BY <2>1, WindowsHoldATurn DEF Spare, Types
  <2> HIDE DEF c, k
  <2>3. /\ Spare * MaxCost <= Spare' * MaxCost
        /\ Spare * MaxCost \in Int /\ Spare' * MaxCost \in Int
    BY <2>1, <2>2, LessIsLess
  <2> QED BY <2>1, <2>3 DEF Payable
<1> QED BY <1>1, <1>2, <1>3, <1>4

LEMMA StepKeepsAdmission == ASSUME AdmissionInv, [Next]_vars PROVE AdmissionInv'
<1>1. CASE Next
  BY <1>1, RefuseKeeps, AllowKeeps, EnsureCreditKeeps, EndTurnKeeps, TopUpKeeps,
     TickKeeps, RestartKeeps DEF Next
<1>2. CASE UNCHANGED vars
  BY <1>2 DEF vars, AdmissionInv, Types, InOrder, Remembers, Stretches,
     LetThrough, Payable, Spare
<1> QED BY <1>1, <1>2

LEMMA AdmissionInvariant == Spec => []AdmissionInv
BY InitAdmission, StepKeepsAdmission, PTL DEF Spec

-----------------------------------------------------------------------------
(* The slice of an account never outgrows the budget.                      *)
THEOREM TypeCorrect == Spec => []TypeOK
<1>1. AdmissionInv => TypeOK
  BY DEF AdmissionInv, TypeOK, Types, InOrder, Remembers, LetThrough
<1> QED BY <1>1, AdmissionInvariant, PTL

(* At most Max calls are let through in any stretch of time as long as the *)
(* window, wherever it starts (RateLimiter.Allow).                         *)
THEOREM WindowHolds == Spec => []WindowBound
<1>1. AdmissionInv => WindowBound
  <2> SUFFICES ASSUME AdmissionInv, NEW i \in DOMAIN allowed,
                      i + Max \in DOMAIN allowed
               PROVE  allowed[i + Max] - allowed[i] >= Window
    BY DEF WindowBound
  <2>1. 1 * Max = Max /\ 1 * Window = Window /\ 1 \in Nat BY AdmissionAssumption
  <2> QED BY <2>1 DEF AdmissionInv, Stretches
<1> QED BY <1>1, AdmissionInvariant, PTL

(* EnsureCredit reserves nothing. The debt it allows is bounded by the     *)
(* price of as many turns as the limiter lets through while a turn that    *)
(* keeps its deadlines lasts, and of the turns that were overdue when the  *)
(* credit was used up: nothing bounds how long those last, or their number.*)
THEOREM OverdraftHolds == Spec => []OverdraftBounded
<1>1. AdmissionInv => OverdraftBounded
  <2> SUFFICES ASSUME AdmissionInv PROVE OverdraftBounded OBVIOUS
  <2> DEFINE c == Cardinality(running)
             k == MaxInTime + overstayed
  <2>1. k \in Nat \ {0} /\ c \in Nat /\ balance \in Int
    BY InTimeIsBounded, WindowsHoldATurn DEF AdmissionInv, Types
  <2>2. balance <= 0 => balance + (k - c) * MaxCost > 0
    <3>1. Spare = k - c
      BY <2>1, WindowsHoldATurn DEF Spare, AdmissionInv, Types
    <3> HIDE DEF k, c
    <3> QED BY <3>1 DEF AdmissionInv, Payable
  <2> HIDE DEF c, k
  <2>3. /\ (k - c) * MaxCost <= (k - 0) * MaxCost
        /\ (k - c) * MaxCost \in Int /\ (k - 0) * MaxCost \in Int
    BY <2>1, LessIsLess, AdmissionAssumption
  <2>4. k * MaxCost > 0 /\ k * MaxCost \in Int
    <3>1. \A x, y \in Nat \ {0} : x * y > 0 /\ x * y \in Int BY Z3
    <3> QED BY <2>1, <3>1, AdmissionAssumption
  <2>5. k - 0 = k BY <2>1
  <2>6. balance > -(k * MaxCost) BY <2>1, <2>2, <2>3, <2>4, <2>5
  <2> QED BY <2>6 DEF OverdraftBounded, k
<1> QED BY <1>1, AdmissionInvariant, PTL

(* A call is refused only when Max calls that were let through are still   *)
(* inside the window.                                                      *)
THEOREM RefusalsAreJustified == Spec => RefusalsJustified
<1> DEFINE Recent == {i \in DOMAIN allowed : allowed[i] > now - Window}
<1>1. AdmissionInv /\ Refuse => Cardinality(Recent) >= Max
  <2> SUFFICES ASSUME AdmissionInv, Refuse PROVE Cardinality(Recent) >= Max
    OBVIOUS
  <2> DEFINE la == Len(allowed)
             n == Len(Kept)
  <2>1. /\ n >= Max /\ n \in Nat /\ n <= la /\ la \in Nat
        /\ DOMAIN allowed = 1 .. la
        /\ \A k \in 1 .. n : allowed[la - n + k] > now - Window
    BY KeptRemembers DEF Refuse, AdmissionInv, InOrder
  <2> HIDE DEF la, n
  <2>2. (la - n + 1) .. la \subseteq Recent
    <3> SUFFICES ASSUME NEW i \in (la - n + 1) .. la PROVE i \in Recent
      OBVIOUS
    <3>1. i \in 1 .. la /\ i - (la - n) \in 1 .. n
          /\ la - n + (i - (la - n)) = i
      BY <2>1
    <3> QED BY <2>1, <3>1
  <2>3. IsFiniteSet(Recent)
    <3>1. IsFiniteSet(1 .. la) /\ Recent \in SUBSET (1 .. la)
      BY <2>1, FS_Interval
    <3> QED BY <3>1, FS_Subset
  <2>4. Cardinality((la - n + 1) .. la) = n
    <3> DEFINE a == la - n + 1
    <3>1. a \in Int /\ la \in Int /\ (a > la => n = 0) /\ la - a + 1 = n
      BY <2>1
    <3> HIDE DEF a
    <3>2. Cardinality(a .. la) = IF a > la THEN 0 ELSE la - a + 1
      BY <3>1, FS_Interval
    <3> QED BY <3>1, <3>2 DEF a
  <2>5. Cardinality(Recent) \in Nat /\ n <= Cardinality(Recent)
    BY <2>2, <2>3, <2>4, FS_Subset, FS_CardinalityType
  <2> HIDE DEF Recent
  <2> QED BY <2>1, <2>5, AdmissionAssumption
<1>2. AdmissionInv /\ [Next]_vars =>
          [Refuse => Cardinality(Recent) >= Max]_vars
  BY <1>1
<1> QED BY <1>2, AdmissionInvariant, PTL DEF Spec, RefusalsJustified

=============================================================================
