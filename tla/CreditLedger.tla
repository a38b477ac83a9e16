----------------------------- MODULE CreditLedger -----------------------------
(***************************************************************************)
(* The AI credit ledger of the API server (internal/ai/credits.go), with   *)
(* the requests that move credit or set its price running concurrently     *)
(* against PostgreSQL:                                                     *)
(*                                                                         *)
(*   turns          POST /ai/chat: EnsureCredit, the model's turn, then    *)
(*                  ChargeTurn, which runs whatever way the turn ended     *)
(*   registrations  POST /auth/register: the user row and its signup grant *)
(*   adjustments    POST /admin/ai/users/:id/credit                        *)
(*   edits          PUT /admin/ai/settings: the signup grant itself        *)
(*                                                                         *)
(* and PUT /admin/ai/pricing/:model, which touches one row, as one step.   *)
(*                                                                         *)
(* The database runs at READ COMMITTED: a statement sees what is committed *)
(* when it starts; a write locks its row until its transaction ends, and   *)
(* others see what it wrote (pending) only from the commit on. now() is    *)
(* the time the transaction began, for all of its statements.              *)
(***************************************************************************)
EXTENDS Integers

CONSTANTS
    Users,          \* e-mail addresses, which name accounts
    Turns, Registrations, Adjustments, Edits,   \* requests, each served once
    UserOf,         \* the account a request is about (an edit is about none)
    Existing,       \* users registered before the server starts
    Usages,         \* priced units a turn may end up having used
    Rates,          \* credits per unit the price table may hold
    Grants,         \* values signup_grant_micro may take
    Deltas,         \* amounts an operator may adjust by
    MaxCharge,      \* the largest charge the arithmetic can represent
    MaxCrashes,     \* bound on server restarts
    NoRequest       \* the owner of a free row

Requests == Turns \union Registrations \union Adjustments \union Edits

(* The one row of ai_settings; every other row belongs to a user. *)
Settings == "ai_settings"
Rows == Users \union {Settings}

(* A request that leaves signup_grant_micro out: a nil pointer, not zero. *)
Untouched == -1

ASSUME LedgerAssumption ==
    /\ UserOf \in [Turns \union Registrations \union Adjustments -> Users]
    /\ Existing \subseteq Users /\ Settings \notin Users
    /\ Usages \subseteq Nat /\ Rates \subseteq Nat /\ Grants \subseteq Nat
    /\ Deltas \subseteq Int \ {0}
    /\ MaxCharge \in Nat /\ MaxCrashes \in Nat
    /\ NoRequest \notin Requests
    /\ Turns \intersect (Registrations \union Adjustments \union Edits) = {}
    /\ Registrations \intersect (Adjustments \union Edits) = {}
    /\ Adjustments \intersect Edits = {}

VARIABLES
    \* committed rows
    users,      \* rows of users
    createdAt,  \* users.created_at
    accounts,   \* users that have an ai_credits row
    balance,    \* ai_credits.balance_micro
    charged,    \* SUM(ai_usage.credits_charged) per user
    adjusted,   \* sum of the amounts in admin_audit's adjustment rows
    granted,    \* history: credit minted at signup, kept in no table
    rate,       \* ai_pricing
    grant,      \* ai_settings.signup_grant_micro
    timeline,   \* admin_audit's 'ai.settings.signup_grant' rows
    \* open transactions
    lock,       \* lock[row]: the request whose transaction wrote the row
    pending,    \* pending[p]: the value p's transaction wrote
    began,      \* when p's transaction began
    \* requests
    pc,         \* how far p got
    amount,     \* what p moves: a turn's units until priced, then credits
    \* the world
    clock,      \* ticks when a transaction that records now() begins
    crashes

moneyVars == <<accounts, balance, charged, adjusted, granted>>
priceVars == <<rate, grant, timeline>>
worldVars == <<clock, began, crashes>>
vars == <<users, createdAt, moneyVars, priceVars, lock, pending, pc, amount,
          worldVars>>

(* Where p's transaction holds a row, where p is served without one, and   *)
(* where p is over.                                                        *)
InTx == {"deducted", "recorded", "inserted", "credited", "moved", "audited",
         "written"}
Serving == {"running", "ended", "priced", "begun", "found"}
Over == {"refused", "lost", "charged", "registered", "applied", "saved",
         "failed"}

Init ==
    /\ grant \in Grants /\ rate \in Rates
    /\ timeline = {[at |-> 0, grant |-> grant]}     \* migration 0008 writes it
    /\ users = Existing /\ accounts = Existing
    /\ createdAt = [u \in Users |-> 0]
    /\ granted = [u \in Users |-> IF u \in Existing THEN grant ELSE 0]
    /\ balance = granted
    /\ charged = [u \in Users |-> 0] /\ adjusted = [u \in Users |-> 0]
    /\ lock = [r \in Rows |-> NoRequest]
    /\ pending = [p \in Requests |-> 0] /\ began = [p \in Requests |-> 0]
    /\ pc = [p \in Requests |-> "idle"]
    /\ amount = [p \in Requests |-> 0]
    /\ clock = 0 /\ crashes = 0

-----------------------------------------------------------------------------
(* What every request does.                                                *)

Goes(p, from, to) == pc[p] = from /\ pc' = [pc EXCEPT ![p] = to]

(* BEGIN, of a transaction that records now(). *)
Begin(p) ==
    /\ clock' = clock + 1
    /\ began' = [began EXCEPT ![p] = clock + 1]
    /\ UNCHANGED crashes

(* Mutant: the new balance is computed in Go and written back, with no row *)
(* lock to wait for.                                                       *)
WriteBack(p, row, value) ==
    /\ lock' = [lock EXCEPT ![row] = p]
    /\ pending' = [pending EXCEPT ![p] = value]

(* The first write to a row waits for the transaction that holds it. *)
Write(p, row, value) ==
    /\ lock[row] = NoRequest
    /\ lock' = [lock EXCEPT ![row] = p]
    /\ pending' = [pending EXCEPT ![p] = value]

(* Mutant: no deferred Rollback, the connection keeps its row. *)
CloseLeaking(p) ==
    /\ pending' = [pending EXCEPT ![p] = 0]
    /\ amount' = [amount EXCEPT ![p] = 0]
    /\ began' = [began EXCEPT ![p] = 0]
    /\ UNCHANGED <<lock, clock, crashes>>

(* p is over: COMMIT or ROLLBACK frees its row, and its locals are gone. *)
Close(p) ==
    /\ lock' = [r \in Rows |-> IF lock[r] = p THEN NoRequest ELSE lock[r]]
    /\ pending' = [pending EXCEPT ![p] = 0]
    /\ amount' = [amount EXCEPT ![p] = 0]
    /\ began' = [began EXCEPT ![p] = 0]
    /\ UNCHANGED <<clock, crashes>>

(* An error return at any point before the commit, a statement's context   *)
(* expiring included: the deferred Rollback undoes the transaction.        *)
GiveUp(p, result) ==
    /\ pc[p] \in InTx \union Serving
    /\ pc' = [pc EXCEPT ![p] = result]
    /\ Close(p)
    /\ UNCHANGED <<users, createdAt, moneyVars, priceVars>>

-----------------------------------------------------------------------------
(* POST /ai/chat.                                                          *)

(* One read of the balance, which reserves nothing. No row means no credit. *)
EnsureCredit(u) == u \in accounts /\ balance[u] > 0

StartTurn(t) ==
    /\ pc[t] = "idle" /\ UserOf[t] \in users
    /\ pc' = [pc EXCEPT ![t] = IF EnsureCredit(UserOf[t]) THEN "running"
                                                          ELSE "refused"]
    /\ UNCHANGED <<users, createdAt, moneyVars, priceVars, lock, pending,
                   amount, worldVars>>

(* RunStream returns, with an answer or with an error: the usage it        *)
(* accumulated is charged alike.                                           *)
EndTurn(t) ==
    /\ Goes(t, "running", "ended")
    /\ \E units \in Usages : amount' = [amount EXCEPT ![t] = units]
    /\ UNCHANGED <<users, createdAt, moneyVars, priceVars, lock, pending,
                   worldVars>>

(* Mutant: int64 arithmetic that wraps, as it did before ErrChargeOverflow. *)
WrappingCharge(units, price) ==
    IF units * price <= MaxCharge THEN units * price
                                  ELSE units * price - 2 * (MaxCharge + 1)

(* ChargeArithmetic has the arithmetic itself. *)
Charge(units, price) == units * price

(* Mutant: a charge that does not fit is tried again. *)
PriceTurnAgain(t) ==
    /\ Charge(amount[t], rate) <= MaxCharge
    /\ Goes(t, "ended", "priced")
    /\ amount' = [amount EXCEPT ![t] = Charge(amount[t], rate)]
    /\ UNCHANGED <<users, createdAt, moneyVars, priceVars, lock, pending,
                   worldVars>>

(* ChargeTurn reads the price now, not when the turn started, and refuses  *)
(* a charge that does not fit (ErrChargeOverflow) before any transaction.  *)
PriceTurn(t) ==
    LET credits == Charge(amount[t], rate)
    IN  \/ /\ credits <= MaxCharge
           /\ Goes(t, "ended", "priced")
           /\ amount' = [amount EXCEPT ![t] = credits]
           /\ UNCHANGED <<users, createdAt, moneyVars, priceVars, lock,
                          pending, worldVars>>
        \/ /\ credits > MaxCharge
           /\ Goes(t, "ended", "lost")
           /\ Close(t)
           /\ UNCHANGED <<users, createdAt, moneyVars, priceVars>>

(* Mutant: two statements on the pool instead of one transaction. *)
DeductCreditAtOnce(t) ==
    LET left == balance[UserOf[t]] - amount[t]
    IN  /\ UserOf[t] \in accounts
        /\ Goes(t, "priced", "deducted")
        /\ Write(t, UserOf[t], left)
        /\ balance' = [balance EXCEPT ![UserOf[t]] = left]
        /\ UNCHANGED <<users, createdAt, accounts, charged, adjusted, granted,
                       priceVars, amount, worldVars>>

(* UPDATE ai_credits SET balance_micro = balance_micro - $2 ... RETURNING: *)
(* relative to the row as committed when the lock is granted.              *)
DeductCredit(t) ==
    /\ UserOf[t] \in accounts
    /\ Goes(t, "priced", "deducted")
    /\ Write(t, UserOf[t], balance[UserOf[t]] - amount[t])
    /\ UNCHANGED <<users, createdAt, moneyVars, priceVars, amount, worldVars>>

(* INSERT INTO ai_usage, in the same transaction. *)
RecordUsage(t) ==
    /\ Goes(t, "deducted", "recorded")
    /\ UNCHANGED <<users, createdAt, moneyVars, priceVars, lock, pending,
                   amount, worldVars>>

CommitCharge(t) ==
    LET u == UserOf[t]
    IN  /\ Goes(t, "recorded", "charged")
        /\ balance' = [balance EXCEPT ![u] = pending[t]]
        /\ charged' = [charged EXCEPT ![u] = @ + amount[t]]
        /\ Close(t)
        /\ UNCHANGED <<users, createdAt, accounts, adjusted, granted,
                       priceVars>>

(* The charge fails: it is logged, and nothing retries it. *)
LoseCharge(t) == pc[t] # "running" /\ GiveUp(t, "lost")

-----------------------------------------------------------------------------
(* POST /auth/register: CreateUserWithSignupCredit.                        *)

BeginRegistration(r) ==
    /\ Goes(r, "idle", "begun")
    /\ Begin(r)
    /\ UNCHANGED <<users, createdAt, moneyVars, priceVars, lock, pending,
                   amount>>

(* Mutant: the user row is committed before the grant is attempted. *)
InsertUserAlone(r) ==
    LET u == UserOf[r]
    IN  /\ u \notin users
        /\ Goes(r, "begun", "inserted")
        /\ Write(r, u, 0)
        /\ users' = users \union {u}
        /\ UNCHANGED <<createdAt, moneyVars, priceVars, amount, worldVars>>

(* INSERT INTO users. A committed row with this address is ErrEmailTaken;  *)
(* an uncommitted one is waited for.                                       *)
InsertUser(r) ==
    LET u == UserOf[r]
    IN  \/ /\ u \in users
           /\ Goes(r, "begun", "failed")
           /\ Close(r)
           /\ UNCHANGED <<users, createdAt, moneyVars, priceVars>>
        \/ /\ u \notin users
           /\ Goes(r, "begun", "inserted")
           /\ Write(r, u, 0)
           /\ UNCHANGED <<users, createdAt, moneyVars, priceVars, amount,
                          worldVars>>

(* Reads the grant as committed now, and inserts it as the balance. *)
GrantSignupCredit(r) ==
    /\ Goes(r, "inserted", "credited")
    /\ amount' = [amount EXCEPT ![r] = grant]
    /\ pending' = [pending EXCEPT ![r] = grant]
    /\ UNCHANGED <<users, createdAt, moneyVars, priceVars, lock, worldVars>>

CommitRegistration(r) ==
    LET u == UserOf[r]
    IN  /\ Goes(r, "credited", "registered")
        /\ users' = users \union {u}
        /\ createdAt' = [createdAt EXCEPT ![u] = began[r]]
        /\ accounts' = accounts \union {u}
        /\ balance' = [balance EXCEPT ![u] = pending[r]]
        /\ granted' = [granted EXCEPT ![u] = amount[r]]
        /\ Close(r)
        /\ UNCHANGED <<charged, adjusted, priceVars>>

FailRegistration(r) == GiveUp(r, "failed")

-----------------------------------------------------------------------------
(* POST /admin/ai/users/:id/credit: AdjustCredit.                          *)

(* SELECT EXISTS, outside the transaction. *)
FindUser(a) ==
    /\ \/ /\ UserOf[a] \in users
          /\ Goes(a, "idle", "found")
          /\ \E delta \in Deltas : amount' = [amount EXCEPT ![a] = delta]
       \/ /\ UserOf[a] \notin users
          /\ Goes(a, "idle", "failed")
          /\ UNCHANGED amount
    /\ UNCHANGED <<users, createdAt, moneyVars, priceVars, lock, pending,
                   worldVars>>

(* The upsert: a user without a row gets one that holds the delta. *)
MoveBalance(a) ==
    LET u == UserOf[a]
    IN  /\ Goes(a, "found", "moved")
        /\ Write(a, u, IF u \in accounts THEN balance[u] + amount[a]
                                         ELSE amount[a])
        /\ UNCHANGED <<users, createdAt, moneyVars, priceVars, amount,
                       worldVars>>

(* INSERT INTO admin_audit, in the same transaction. *)
AuditAdjustment(a) ==
    /\ Goes(a, "moved", "audited")
    /\ UNCHANGED <<users, createdAt, moneyVars, priceVars, lock, pending,
                   amount, worldVars>>

(* Mutant: the balance moves and the audit log says nothing. *)
CommitAdjustmentUnaudited(a) ==
    LET u == UserOf[a]
    IN  /\ Goes(a, "audited", "applied")
        /\ accounts' = accounts \union {u}
        /\ balance' = [balance EXCEPT ![u] = pending[a]]
        /\ Close(a)
        /\ UNCHANGED <<users, createdAt, charged, adjusted, granted,
                       priceVars>>

CommitAdjustment(a) ==
    LET u == UserOf[a]
    IN  /\ Goes(a, "audited", "applied")
        /\ accounts' = accounts \union {u}
        /\ balance' = [balance EXCEPT ![u] = pending[a]]
        /\ adjusted' = [adjusted EXCEPT ![u] = @ + amount[a]]
        /\ Close(a)
        /\ UNCHANGED <<users, createdAt, charged, granted, priceVars>>

FailAdjustment(a) == GiveUp(a, "failed")

-----------------------------------------------------------------------------
(* PUT /admin/ai/settings: UpdateSettings; PUT /admin/ai/pricing/:model.   *)

BeginEdit(e) ==
    /\ Goes(e, "idle", "begun")
    /\ \E value \in Grants \union {Untouched} :
           amount' = [amount EXCEPT ![e] = value]
    /\ Begin(e)
    /\ UNCHANGED <<users, createdAt, moneyVars, priceVars, lock, pending>>

(* The update of the base prompt takes the row; the update of the grant,   *)
(* when the request has one, and the audit rows follow under its lock.     *)
WriteSettings(e) ==
    /\ Goes(e, "begun", "written")
    /\ Write(e, Settings, amount[e])
    /\ UNCHANGED <<users, createdAt, moneyVars, priceVars, amount, worldVars>>

(* Mutant: the grant is set with no row in the timeline. *)
CommitEditUnaudited(e) ==
    /\ Goes(e, "written", "saved")
    /\ grant' = IF amount[e] = Untouched THEN grant ELSE pending[e]
    /\ Close(e)
    /\ UNCHANGED <<users, createdAt, moneyVars, rate, timeline>>

CommitEdit(e) ==
    /\ Goes(e, "written", "saved")
    /\ IF amount[e] = Untouched
       THEN UNCHANGED <<grant, timeline>>
       ELSE /\ grant' = pending[e]
            /\ timeline' = timeline \union
                               {[at |-> began[e], grant |-> amount[e]]}
    /\ Close(e)
    /\ UNCHANGED <<users, createdAt, moneyVars, rate>>

FailEdit(e) == GiveUp(e, "failed")

(* An UPDATE, never an upsert, and its audit row: one row, one transaction. *)
UpdatePricing ==
    /\ \E r \in Rates \ {rate} : rate' = r
    /\ UNCHANGED <<users, createdAt, moneyVars, grant, timeline, lock, pending,
                   pc, amount, worldVars>>

-----------------------------------------------------------------------------
(* The process dies: every request in it is over, PostgreSQL rolls the     *)
(* open transactions back, and nothing resumes a turn that was not charged.*)
Crash ==
    /\ crashes < MaxCrashes
    /\ crashes' = crashes + 1
    /\ pc' = [p \in Requests |->
                 IF pc[p] \in InTx \union Serving
                 THEN IF p \in Turns THEN "lost" ELSE "failed"
                 ELSE pc[p]]
    /\ lock' = [r \in Rows |-> NoRequest]
    /\ pending' = [p \in Requests |-> 0]
    /\ amount' = [p \in Requests |-> 0]
    /\ began' = [p \in Requests |-> 0]
    /\ UNCHANGED <<users, createdAt, moneyVars, priceVars, clock>>

ServeTurn(t) ==
    \/ EndTurn(t) \/ PriceTurn(t) \/ DeductCredit(t) \/ RecordUsage(t)
    \/ CommitCharge(t)

ServeRegistration(r) ==
    InsertUser(r) \/ GrantSignupCredit(r) \/ CommitRegistration(r)

ServeAdjustment(a) ==
    MoveBalance(a) \/ AuditAdjustment(a) \/ CommitAdjustment(a)

ServeEdit(e) == WriteSettings(e) \/ CommitEdit(e)

Next ==
    \/ \E t \in Turns : StartTurn(t) \/ ServeTurn(t) \/ LoseCharge(t)
    \/ \E r \in Registrations :
           BeginRegistration(r) \/ ServeRegistration(r) \/ FailRegistration(r)
    \/ \E a \in Adjustments :
           FindUser(a) \/ ServeAdjustment(a) \/ FailAdjustment(a)
    \/ \E e \in Edits : BeginEdit(e) \/ ServeEdit(e) \/ FailEdit(e)
    \/ UpdatePricing
    \/ Crash

(* A request once accepted is served to its end: every wait it has is      *)
(* bounded (the turn's and the charge's contexts, the row locks). Nothing  *)
(* makes a client send a request.                                          *)
Fairness ==
    /\ \A t \in Turns : WF_vars(ServeTurn(t))
    /\ \A r \in Registrations : WF_vars(ServeRegistration(r))
    /\ \A a \in Adjustments : WF_vars(ServeAdjustment(a))
    /\ \A e \in Edits : WF_vars(ServeEdit(e))

Spec == Init /\ [][Next]_vars
FairSpec == Spec /\ Fairness

-----------------------------------------------------------------------------
(* Properties.                                                             *)

(* The type invariant. *)
TypeOK ==
    /\ users \subseteq Users /\ accounts \subseteq Users
    /\ createdAt \in [Users -> Nat]
    /\ balance \in [Users -> Int]
    /\ charged \in [Users -> Nat]
    /\ adjusted \in [Users -> Int]
    /\ granted \in [Users -> Nat]
    /\ rate \in Rates /\ grant \in Grants
    /\ timeline \subseteq [at : Nat, grant : Grants]
    /\ lock \in [Rows -> Requests \union {NoRequest}]
    /\ pending \in [Requests -> Int] /\ began \in [Requests -> Nat]
    /\ pc \in [Requests -> {"idle"} \union InTx \union Serving \union Over]
    /\ amount \in [Requests -> Int]
    /\ clock \in Nat /\ crashes \in Nat

(* No unexplained deduction and no charge without its deduction, whatever  *)
(* transactions interleave, fail or die: a balance is the signup grant,    *)
(* plus the adjustments in the audit log, minus the charges in ai_usage.   *)
BalanceExplained ==
    \A u \in Users : balance[u] = granted[u] + adjusted[u] - charged[u]

(* Registration leaves no orphan: a committed user has a credit account,   *)
(* and only a committed user does.                                         *)
NoOrphanAccount == accounts = users

(* A transaction works on the row it holds: what a charge or an adjustment *)
(* is about to commit is the committed balance moved by its own amount, so *)
(* no concurrent update is lost.                                           *)
NoLostUpdate ==
    /\ \A t \in Turns :
           pc[t] \in {"deducted", "recorded"} =>
               /\ lock[UserOf[t]] = t
               /\ pending[t] = balance[UserOf[t]] - amount[t]
    /\ \A a \in Adjustments :
           pc[a] \in {"moved", "audited"} =>
               /\ lock[UserOf[a]] = a
               /\ pending[a] = balance[UserOf[a]] + amount[a]

(* Every amount ever minted for an account is in the audit timeline of the *)
(* signup grant, the mint rate GrantSignupCredit promises is traceable.    *)
MintTraceable ==
    \A u \in users : \E entry \in timeline : entry.grant = granted[u]

(* GrantSignupCredit's stronger promise: an account's grant is             *)
(* reconstructable by reading users.created_at against that timeline.      *)
GrantReconstructable ==
    \A u \in users :
        LET before == {entry \in timeline : entry.at <= createdAt[u]}
        IN  \A entry \in before :
                (\A other \in before : other.at <= entry.at)
                    => entry.grant = granted[u]

(* What credits.go promises, free of transactions and failures. *)
Book == INSTANCE AccountBook WITH Charges <- 0 .. MaxCharge

(* Every step of the ledger is a posting of the account book, or changes   *)
(* nothing in it.                                                          *)
ImplementsAccountBook == Book!Spec

(* A turn that ended is settled: its charge commits, or is given up. *)
TurnSettles ==
    \A t \in Turns : pc[t] = "ended" ~> pc[t] \in {"charged", "lost"}

(* No transaction keeps its row: whoever waits for the row gets a chance. *)
RowsReleased ==
    \A row \in Rows : lock[row] # NoRequest ~> lock[row] = NoRequest

=============================================================================
