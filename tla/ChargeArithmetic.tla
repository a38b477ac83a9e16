--------------------------- MODULE ChargeArithmetic ---------------------------
(***************************************************************************)
(* The arithmetic of a charge (internal/ai/cost.go), in integers of the    *)
(* machine's width: token counts times prices per thousand tokens, rounded *)
(* up band by band, plus a flat price per web search, once for what the    *)
(* turn cost the platform and once for what it costs the learner. Anything *)
(* that would not fit is refused as a whole (ErrChargeOverflow).           *)
(***************************************************************************)
EXTENDS Integers

CONSTANTS
    MaxInt,     \* math.MaxInt64
    Per,        \* tokens a price is given for: 1000
    Usages,     \* what a turn may have used: tokens per band and searches
    Prices      \* what a price table may hold

Usage == [hit : Int, miss : Int, out : Int, searches : Int]
Pricing == [hit : Int, miss : Int, out : Int, search : Int]

ASSUME ArithmeticAssumption ==
    /\ MaxInt \in Nat /\ Per \in Nat \ {0} /\ Per - 1 <= MaxInt
    /\ Usages \subseteq Usage /\ Prices \subseteq Pricing

(* The error, where a number would be. *)
Overflow == -1

(* Two's complement. *)
Wrap(x) == ((x + MaxInt + 1) % (2 * (MaxInt + 1))) - (MaxInt + 1)

(* Mutant: the guard forgets what rounding up adds. *)
MulDivUpUnguarded(tokens, rate) ==
    IF tokens < 0 \/ rate < 0 THEN Overflow
    ELSE IF tokens = 0 \/ rate = 0 THEN 0
    ELSE IF tokens > MaxInt \div rate THEN Overflow
    ELSE Wrap(Wrap(tokens * rate) + Per - 1) \div Per

(* Tokens at a price per Per of them, rounded up. *)
MulDivUp(tokens, rate) ==
    IF tokens < 0 \/ rate < 0 THEN Overflow
    ELSE IF tokens = 0 \/ rate = 0 THEN 0
    ELSE IF tokens > (MaxInt - (Per - 1)) \div rate THEN Overflow
    ELSE Wrap(Wrap(tokens * rate) + Per - 1) \div Per

(* Searches at a flat price. *)
MulChecked(n, rate) ==
    IF n < 0 \/ rate < 0 THEN Overflow
    ELSE IF n = 0 \/ rate = 0 THEN 0
    ELSE IF n > MaxInt \div rate THEN Overflow
    ELSE Wrap(n * rate)

(* Mutant: only a sum that fits with room to spare is accepted. *)
AddCautiously(total, term) ==
    IF total = Overflow \/ term = Overflow THEN Overflow
    ELSE IF term > MaxInt - total - 4 THEN Overflow
    ELSE Wrap(total + term)

(* One round of sumChecked's loop. A term that failed never reaches it: it *)
(* fails the sum.                                                          *)
AddChecked(total, term) ==
    IF total = Overflow \/ term = Overflow THEN Overflow
    ELSE IF term > MaxInt - total THEN Overflow
    ELSE Wrap(total + term)

(* One half of Charge: the three bands and the surcharge. *)
Total(u, p) ==
    LET hit == MulDivUp(u.hit, p.hit)
        miss == MulDivUp(u.miss, p.miss)
        out == MulDivUp(u.out, p.out)
        search == MulChecked(u.searches, p.search)
    IN  AddChecked(AddChecked(AddChecked(AddChecked(0, hit), miss), out),
                   search)

Refused == [cost |-> Overflow, credits |-> Overflow]

Charge(u, costs, prices) ==
    LET cost == Total(u, costs)
        credits == Total(u, prices)
    IN  IF cost = Overflow \/ credits = Overflow
        THEN Refused
        ELSE [cost |-> cost, credits |-> credits]

-----------------------------------------------------------------------------
VARIABLES
    usage, costs, prices,   \* Charge's arguments
    done, outcome           \* whether it returned, and what

chargeVars == <<usage, costs, prices, done, outcome>>

InitCharge ==
    /\ usage \in Usages /\ costs \in Prices /\ prices \in Prices
    /\ done = FALSE /\ outcome = Refused

Evaluate ==
    /\ ~done /\ done' = TRUE
    /\ outcome' = Charge(usage, costs, prices)
    /\ UNCHANGED <<usage, costs, prices>>

ChargeSpec == InitCharge /\ [][Evaluate]_chargeVars

-----------------------------------------------------------------------------
(* Properties.                                                             *)

(* The type invariant: no wrapped number leaves Charge. *)
ChargeTypeOK ==
    /\ usage \in Usages /\ costs \in Prices /\ prices \in Prices
    /\ done \in BOOLEAN
    /\ outcome \in [cost : 0 .. MaxInt, credits : 0 .. MaxInt] \union {Refused}

(* The exact price, in Per-ths of a unit and without bounds. *)
Exact(u, p) ==
    u.hit * p.hit + u.miss * p.miss + u.out * p.out
        + u.searches * p.search * Per

(* Rounding up costs less than one unit per band, and never favours.       *)
Covers(amount, u, p) ==
    /\ amount * Per >= Exact(u, p)
    /\ amount * Per <= Exact(u, p) + 3 * (Per - 1)

(* An accepted charge is never below the exact price, though the width of  *)
(* the integers is finite, nor more than three roundings above it.         *)
NeverUndercharged ==
    done /\ outcome # Refused =>
        /\ Covers(outcome.cost, usage, costs)
        /\ Covers(outcome.credits, usage, prices)

Sane(u, p) ==
    /\ u.hit >= 0 /\ u.miss >= 0 /\ u.out >= 0 /\ u.searches >= 0
    /\ p.hit >= 0 /\ p.miss >= 0 /\ p.out >= 0 /\ p.search >= 0

(* A band, the surcharge or the sum, rounded up, is out of range. *)
TooLarge(u, p) ==
    \/ \E band \in {"hit", "miss", "out"} :
           u[band] * p[band] > MaxInt - (Per - 1)
    \/ Exact(u, p) > (MaxInt - 2) * Per

(* A charge is refused only when there is no number to charge: a turn that *)
(* could be billed is.                                                     *)
RefusedOnlyWhenTooLarge ==
    done /\ outcome = Refused =>
        \/ ~Sane(usage, costs) \/ ~Sane(usage, prices)
        \/ TooLarge(usage, costs) \/ TooLarge(usage, prices)

=============================================================================
