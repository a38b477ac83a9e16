---------------------------- MODULE ChatAdmission ----------------------------
(***************************************************************************)
(* What stands between one account and the model provider: the sliding     *)
(* window of RateLimiter.Allow (internal/ai/ratelimit.go), then the        *)
(* balance check of EnsureCredit, which reserves nothing, then turns that  *)
(* outlast the window and are charged only when they end (Chat and         *)
(* streamTurn, internal/ai/handler.go). Nothing bounds how long a call     *)
(* takes: the reads before the turn have no deadline, and a flush to a     *)
(* learner who does not read keeps a turn past its own.                    *)
(*                                                                         *)
(* Time is discrete; Window and TurnLife are in its ticks. The limiter     *)
(* keys its slices by user and Allow runs under its mutex: one account and *)
(* one step per call.                                                      *)
(***************************************************************************)
EXTENDS Integers, Sequences, FiniteSets

CONSTANTS
    Max,            \* DefaultRateLimitMax
    Window,         \* DefaultRateLimitWindow
    TurnLife,       \* DefaultTurnTimeout and chargeTimeout together: how long
                    \* a call lasts that nothing but the provider delays
    Costs,          \* credits a turn may be charged, 0 for a lost charge
    MaxCost,        \* the largest of them
    MaxBalance,     \* bound: the balance an operator may raise it to
    MaxTime         \* bound on the clock

ASSUME AdmissionAssumption ==
    /\ Max \in Nat \ {0} /\ Window \in Nat \ {0} /\ TurnLife \in Nat \ {0}
    /\ Costs \subseteq 0 .. MaxCost /\ MaxCost \in Nat \ {0}
    /\ MaxBalance \in Nat /\ MaxTime \in Nat

VARIABLES
    now,
    hits,       \* rl.hits[userID]
    allowed,    \* the times Allow let a call through; its index names a call
    checking,   \* calls allowed whose credit is unread
    running,    \* calls whose turn runs and is not charged yet
    balance,    \* ai_credits.balance_micro
    overstayed  \* history: the turns older than TurnLife when the credit was
                \* used up; 0 while there is credit

vars == <<now, hits, allowed, checking, running, balance, overstayed>>

InFlight == checking \union running

Init ==
    /\ now = 0
    /\ hits = << >> /\ allowed = << >>
    /\ checking = {} /\ running = {}
    /\ balance \in 0 .. MaxBalance /\ overstayed = 0

-----------------------------------------------------------------------------
(* RateLimiter.Allow.                                                      *)

(* Mutant: a fixed window, emptied when its first call is old enough. *)
KeptOrCleared ==
    IF hits # << >> /\ Head(hits) <= now - Window THEN << >> ELSE hits

(* The calls still inside the window, h.After(now - window), in their order. *)
Inside == {i \in DOMAIN hits : hits[i] > now - Window}
Kept ==
    [k \in 1 .. Cardinality(Inside) |->
        hits[CHOOSE i \in Inside : Cardinality({j \in Inside : j <= i}) = k]]

(* Mutant: a refused call counts against the budget as well. *)
RefuseAndRecord ==
    /\ Len(Kept) >= Max
    /\ hits' = Append(Kept, now)
    /\ UNCHANGED <<now, checking, running, balance, allowed, overstayed>>

(* ErrRateLimited: the refused call is not recorded. *)
Refuse ==
    /\ Len(Kept) >= Max
    /\ hits' = Kept
    /\ UNCHANGED <<now, checking, running, balance, allowed, overstayed>>

Allow ==
    /\ Len(Kept) < Max
    /\ hits' = Append(Kept, now)
    /\ allowed' = Append(allowed, now)
    /\ checking' = checking \union {Len(allowed')}
    /\ UNCHANGED <<now, running, balance, overstayed>>

-----------------------------------------------------------------------------
(* The turn.                                                               *)

(* Mutant: an account with nothing left may ask once more. *)
EnsureCreditLeniently(call) ==
    /\ call \in checking
    /\ checking' = checking \ {call}
    /\ \/ balance >= 0 /\ running' = running \union {call}
       \/ UNCHANGED running
    /\ UNCHANGED <<now, hits, balance, allowed, overstayed>>

(* One read of the balance: the turn starts, or ends with 402, or with 500 *)
(* when this read or one after it fails. Either way it has been counted.   *)
EnsureCredit(call) ==
    /\ call \in checking
    /\ checking' = checking \ {call}
    /\ \/ balance > 0 /\ running' = running \union {call}
       \/ UNCHANGED running
    /\ UNCHANGED <<now, hits, balance, allowed, overstayed>>

(* The turns that are older than their deadlines allow. *)
Overdue == {call \in running : now - allowed[call] >= TurnLife}

(* The turn ends, for whatever reason, and is charged. *)
EndTurn(call) ==
    /\ call \in running
    /\ running' = running \ {call}
    /\ \E cost \in Costs : balance' = balance - cost
    /\ overstayed' = IF balance > 0 /\ balance' <= 0
                     THEN Cardinality(Overdue) ELSE overstayed
    /\ UNCHANGED <<now, hits, checking, allowed>>

(* An operator raises the balance. *)
TopUp ==
    /\ \E b \in (balance + 1) .. MaxBalance : balance' = b
    /\ overstayed' = IF balance' > 0 THEN 0 ELSE overstayed
    /\ UNCHANGED <<now, hits, checking, running, allowed>>

(* Time passes, whoever waits. *)
Tick ==
    /\ now < MaxTime
    /\ now' = now + 1
    /\ UNCHANGED <<hits, checking, running, balance, allowed, overstayed>>

(* The budget is in memory: a restart empties it, and ends every turn      *)
(* without a charge.                                                       *)
Restart ==
    /\ hits' = << >> /\ allowed' = << >>
    /\ checking' = {} /\ running' = {}
    /\ UNCHANGED <<now, balance, overstayed>>

Next ==
    \/ Refuse \/ Allow
    \/ \E call \in InFlight : EnsureCredit(call) \/ EndTurn(call)
    \/ TopUp \/ Tick \/ Restart

Spec == Init /\ [][Next]_vars

-----------------------------------------------------------------------------
(* Properties.                                                             *)

(* The type invariant; the slice of an account never outgrows the budget.  *)
TypeOK ==
    /\ now \in 0 .. MaxTime
    /\ hits \in Seq(0 .. MaxTime) /\ Len(hits) <= Max
    /\ allowed \in Seq(0 .. MaxTime)
    /\ checking \subseteq DOMAIN allowed /\ running \subseteq DOMAIN allowed
    /\ balance \in Int /\ overstayed \in Nat

(* NewRateLimiter's promise: at most Max calls within any stretch of time  *)
(* Window long, wherever it starts and whatever was refused in it.         *)
WindowBound ==
    \A i \in DOMAIN allowed :
        i + Max \in DOMAIN allowed => allowed[i + Max] - allowed[i] >= Window

(* A call is refused only when the budget is spent on calls that were let  *)
(* through: retrying while blocked delays nothing, and recovery is due at  *)
(* the very instant the window has passed.                                 *)
RefusalsJustified ==
    [][Refuse =>
           Cardinality({i \in DOMAIN allowed : allowed[i] > now - Window})
               >= Max]_vars

(* The calls of the budgets of all the windows that TurnLife spans. *)
MaxInTime == Max * ((TurnLife + Window - 1) \div Window)

(* What the limiter leaves of the race between EnsureCredit and the charge:*)
(* an account overdraws by less than the price of the turns that were in   *)
(* flight when its credit was used up, however calls, turns and charges    *)
(* interleave. A turn outlives the window, so that of the turns that keep  *)
(* their deadlines there were at most MaxInTime, not Max; those that a     *)
(* learner who stops reading keeps longer come on top, and nothing but     *)
(* their number bounds what they add.                                      *)
OverdraftBounded == balance > -((MaxInTime + overstayed) * MaxCost)

=============================================================================
