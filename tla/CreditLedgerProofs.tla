-------------------------- MODULE CreditLedgerProofs --------------------------
(***************************************************************************)
(* The ledger's safety properties, for any set of requests and users, any  *)
(* prices and grants and any number of restarts.                           *)
(*                                                                         *)
(* BalanceExplained is not inductive: a commit writes the value computed   *)
(* by an earlier statement, so one must know that the value still is the   *)
(* committed balance moved by the request's amount (NoLostUpdate, which    *)
(* holds because the row is locked), what the amounts are (LocalsOK), and  *)
(* that an address nobody has registered has no record at all (Fresh).     *)
(* The lemmas show that each action preserves the conjunction, IInv.       *)
(***************************************************************************)
EXTENDS CreditLedger, TLAPS

TurnLocals ==
    \A t \in Turns :
        /\ pc[t] = "ended" => amount[t] \in Usages
        /\ pc[t] \in {"priced", "deducted", "recorded"} =>
               amount[t] \in 0 .. MaxCharge
        /\ pc[t] \in {"deducted", "recorded"} => UserOf[t] \in accounts

RegistrationLocals ==
    \A r \in Registrations :
        /\ pc[r] \in {"inserted", "credited"} =>
               /\ lock[UserOf[r]] = r
               /\ UserOf[r] \notin users
        /\ pc[r] = "credited" =>
               /\ amount[r] \in Grants
               /\ pending[r] = amount[r]

AdjustmentLocals ==
    \A a \in Adjustments :
        pc[a] \in {"found", "moved", "audited"} =>
            /\ amount[a] \in Deltas
            /\ UserOf[a] \in users

EditLocals ==
    \A e \in Edits :
        /\ pc[e] \in {"begun", "written"} =>
               amount[e] \in Grants \union {Untouched}
        /\ pc[e] = "written" => pending[e] = amount[e]

LocalsOK ==
    TurnLocals /\ RegistrationLocals /\ AdjustmentLocals /\ EditLocals

Fresh ==
    \A u \in Users \ users :
        balance[u] = 0 /\ granted[u] = 0 /\ adjusted[u] = 0 /\ charged[u] = 0

IInv ==
    /\ TypeOK /\ NoOrphanAccount /\ BalanceExplained
    /\ NoLostUpdate /\ LocalsOK /\ Fresh

LEMMA Initially == Init => IInv
  BY LedgerAssumption DEF Init, IInv, TypeOK, NoOrphanAccount, Rows, Requests,
     BalanceExplained, NoLostUpdate, LocalsOK, TurnLocals, RegistrationLocals,
     AdjustmentLocals, EditLocals, Fresh, InTx, Serving, Over

LEMMA StartTurnStep == \A t \in Turns : IInv /\ StartTurn(t) => IInv'
  <1> SUFFICES ASSUME NEW t \in Turns, IInv, StartTurn(t)
               PROVE  IInv'
    OBVIOUS
  <1> USE LedgerAssumption DEF IInv, LocalsOK, TypeOK, Requests, Rows,
              moneyVars, priceVars, worldVars, StartTurn
  <1>1. TypeOK'
    BY DEF InTx, Serving, Over
  <1>2. (NoOrphanAccount /\ BalanceExplained /\ Fresh)'
    BY DEF NoOrphanAccount, BalanceExplained, Fresh
  <1>3. NoLostUpdate'
    BY DEF NoLostUpdate
  <1>4. LocalsOK'
    BY DEF TurnLocals, RegistrationLocals, AdjustmentLocals, EditLocals
  <1> QED
    BY <1>1, <1>2, <1>3, <1>4

LEMMA EndTurnStep == \A t \in Turns : IInv /\ EndTurn(t) => IInv'
  <1> SUFFICES ASSUME NEW t \in Turns, IInv, EndTurn(t)
               PROVE  IInv'
    OBVIOUS
  <1> USE LedgerAssumption DEF IInv, LocalsOK, TypeOK, Requests, Rows,
              moneyVars, priceVars, worldVars, EndTurn, Goes
  <1>1. TypeOK'
    BY DEF InTx, Serving, Over
  <1>2. (NoOrphanAccount /\ BalanceExplained /\ Fresh)'
    BY DEF NoOrphanAccount, BalanceExplained, Fresh
  <1>3. NoLostUpdate'
    BY DEF NoLostUpdate
  <1>4. LocalsOK'
    BY DEF TurnLocals, RegistrationLocals, AdjustmentLocals, EditLocals
  <1> QED
    BY <1>1, <1>2, <1>3, <1>4

LEMMA PriceTurnStep == \A t \in Turns : IInv /\ PriceTurn(t) => IInv'
  <1> SUFFICES ASSUME NEW t \in Turns, IInv, PriceTurn(t)
               PROVE  IInv'
    OBVIOUS
  <1> USE LedgerAssumption DEF IInv, LocalsOK, TypeOK, Requests, Rows,
              moneyVars, priceVars, worldVars, PriceTurn, Charge, Goes, Close
  <1>1. TypeOK'
    BY DEF InTx, Serving, Over
  <1>2. (NoOrphanAccount /\ BalanceExplained /\ Fresh)'
    BY DEF NoOrphanAccount, BalanceExplained, Fresh
  <1>3. NoLostUpdate'
    BY DEF NoLostUpdate
  <1>4. LocalsOK'
    BY DEF TurnLocals, RegistrationLocals, AdjustmentLocals, EditLocals
  <1> QED
    BY <1>1, <1>2, <1>3, <1>4

LEMMA DeductCreditStep == \A t \in Turns : IInv /\ DeductCredit(t) => IInv'
  <1> SUFFICES ASSUME NEW t \in Turns, IInv, DeductCredit(t)
               PROVE  IInv'
    OBVIOUS
  <1> USE LedgerAssumption DEF IInv, LocalsOK, TypeOK, Requests, Rows,
              moneyVars, priceVars, worldVars, DeductCredit, Goes, Write
  <1>1. TypeOK'
    BY DEF InTx, Serving, Over
  <1>2. (NoOrphanAccount /\ BalanceExplained /\ Fresh)'
    BY DEF NoOrphanAccount, BalanceExplained, Fresh
  <1>3. NoLostUpdate'
    BY DEF NoLostUpdate
  <1>4. LocalsOK'
    BY DEF TurnLocals, RegistrationLocals, AdjustmentLocals, EditLocals
  <1> QED
    BY <1>1, <1>2, <1>3, <1>4

LEMMA RecordUsageStep == \A t \in Turns : IInv /\ RecordUsage(t) => IInv'
  <1> SUFFICES ASSUME NEW t \in Turns, IInv, RecordUsage(t)
               PROVE  IInv'
    OBVIOUS
  <1> USE LedgerAssumption DEF IInv, LocalsOK, TypeOK, Requests, Rows,
              moneyVars, priceVars, worldVars, RecordUsage, Goes
  <1>1. TypeOK'
    BY DEF InTx, Serving, Over
  <1>2. (NoOrphanAccount /\ BalanceExplained /\ Fresh)'
    BY DEF NoOrphanAccount, BalanceExplained, Fresh
  <1>3. NoLostUpdate'
    BY DEF NoLostUpdate
  <1>4. LocalsOK'
    BY DEF TurnLocals, RegistrationLocals, AdjustmentLocals, EditLocals
  <1> QED
    BY <1>1, <1>2, <1>3, <1>4

LEMMA CommitChargeStep == \A t \in Turns : IInv /\ CommitCharge(t) => IInv'
  <1> SUFFICES ASSUME NEW t \in Turns, IInv, CommitCharge(t)
               PROVE  IInv'
    OBVIOUS
  <1> USE LedgerAssumption DEF IInv, LocalsOK, TypeOK, Requests, Rows,
              moneyVars, priceVars, worldVars, CommitCharge, Goes, Close
  <1>1. TypeOK'
    BY DEF InTx, Serving, Over, TurnLocals
  <1>2. (NoOrphanAccount /\ BalanceExplained /\ Fresh)'
    <2>1. NoOrphanAccount'
      BY DEF NoOrphanAccount
    <2>2. pending[t] = balance[UserOf[t]] - amount[t] /\ amount[t] \in Nat
      BY DEF NoLostUpdate, TurnLocals
    <2>3. BalanceExplained'
      BY <2>2 DEF BalanceExplained
    <2>4. UserOf[t] \in users
      BY DEF TurnLocals, NoOrphanAccount
    <2>5. Fresh'
      BY <2>4 DEF Fresh
    <2> QED
      BY <2>1, <2>3, <2>5
  <1>3. NoLostUpdate'
    BY DEF NoLostUpdate
  <1>4. LocalsOK'
    BY DEF TurnLocals, RegistrationLocals, AdjustmentLocals, EditLocals
  <1> QED
    BY <1>1, <1>2, <1>3, <1>4

LEMMA BeginRegistrationStep ==
  \A r \in Registrations : IInv /\ BeginRegistration(r) => IInv'
  <1> SUFFICES ASSUME NEW r \in Registrations, IInv, BeginRegistration(r)
               PROVE  IInv'
    OBVIOUS
  <1> USE LedgerAssumption DEF IInv, LocalsOK, TypeOK, Requests, Rows,
              moneyVars, priceVars, worldVars, BeginRegistration, Goes, Begin
  <1>1. TypeOK'
    BY DEF InTx, Serving, Over
  <1>2. (NoOrphanAccount /\ BalanceExplained /\ Fresh)'
    BY DEF NoOrphanAccount, BalanceExplained, Fresh
  <1>3. NoLostUpdate'
    BY DEF NoLostUpdate
  <1>4. LocalsOK'
    BY DEF TurnLocals, RegistrationLocals, AdjustmentLocals, EditLocals
  <1> QED
    BY <1>1, <1>2, <1>3, <1>4

LEMMA InsertUserStep ==
  \A r \in Registrations : IInv /\ InsertUser(r) => IInv'
  <1> SUFFICES ASSUME NEW r \in Registrations, IInv, InsertUser(r)
               PROVE  IInv'
    OBVIOUS
  <1> USE LedgerAssumption DEF IInv, LocalsOK, TypeOK, Requests, Rows,
              moneyVars, priceVars, worldVars, InsertUser, Goes, Close, Write
  <1>1. TypeOK'
    BY DEF InTx, Serving, Over
  <1>2. (NoOrphanAccount /\ BalanceExplained /\ Fresh)'
    BY DEF NoOrphanAccount, BalanceExplained, Fresh
  <1>3. NoLostUpdate'
    BY DEF NoLostUpdate
  <1>4. LocalsOK'
    BY DEF TurnLocals, RegistrationLocals, AdjustmentLocals, EditLocals
  <1> QED
    BY <1>1, <1>2, <1>3, <1>4

LEMMA GrantSignupCreditStep ==
  \A r \in Registrations : IInv /\ GrantSignupCredit(r) => IInv'
  <1> SUFFICES ASSUME NEW r \in Registrations, IInv, GrantSignupCredit(r)
               PROVE  IInv'
    OBVIOUS
  <1> USE LedgerAssumption DEF IInv, LocalsOK, TypeOK, Requests, Rows,
              moneyVars, priceVars, worldVars, GrantSignupCredit, Goes
  <1>1. TypeOK'
    BY DEF InTx, Serving, Over
  <1>2. (NoOrphanAccount /\ BalanceExplained /\ Fresh)'
    BY DEF NoOrphanAccount, BalanceExplained, Fresh
  <1>3. NoLostUpdate'
    BY DEF NoLostUpdate
  <1>4. LocalsOK'
    BY DEF TurnLocals, RegistrationLocals, AdjustmentLocals, EditLocals
  <1> QED
    BY <1>1, <1>2, <1>3, <1>4

LEMMA CommitRegistrationStep ==
  \A r \in Registrations : IInv /\ CommitRegistration(r) => IInv'
  <1> SUFFICES ASSUME NEW r \in Registrations, IInv, CommitRegistration(r)
               PROVE  IInv'
    OBVIOUS
  <1> USE LedgerAssumption DEF IInv, LocalsOK, TypeOK, Requests, Rows,
              moneyVars, priceVars, worldVars, CommitRegistration, Goes,
              Close
  <1>1. TypeOK'
    BY DEF InTx, Serving, Over, RegistrationLocals
  <1> DEFINE u == UserOf[r]
  <1>u. /\ u \in Users /\ u \notin users /\ lock[u] = r
        /\ amount[r] \in Nat /\ pending[r] = amount[r]
    BY DEF RegistrationLocals
  <1>2. (NoOrphanAccount /\ BalanceExplained /\ Fresh)'
    <2>1. NoOrphanAccount'
      BY DEF NoOrphanAccount
    <2>2. BalanceExplained'
      <3> SUFFICES ASSUME NEW w \in Users
                   PROVE  balance'[w] = granted'[w] + adjusted'[w] - charged'[w]
        BY DEF BalanceExplained
      <3>1. CASE w = u
        BY <3>1, <1>u DEF Fresh
      <3>2. CASE w # u
        BY <3>2, <1>u DEF BalanceExplained
      <3> QED
        BY <3>1, <3>2
    <2>3. Fresh'
      BY <1>u DEF Fresh
    <2> QED
      BY <2>1, <2>2, <2>3
  <1>3. NoLostUpdate'
    <2>1. ASSUME NEW t \in Turns, pc'[t] \in {"deducted", "recorded"}
          PROVE  /\ lock'[UserOf[t]] = t
                 /\ pending'[t] = balance'[UserOf[t]] - amount'[t]
      <3>1. t # r /\ pc[t] \in {"deducted", "recorded"}
        BY <2>1
      <3>2. UserOf[t] # u
        BY <3>1, <1>u DEF TurnLocals, NoOrphanAccount
      <3> QED
        BY <3>1, <3>2 DEF NoLostUpdate
    <2>2. ASSUME NEW a \in Adjustments, pc'[a] \in {"moved", "audited"}
          PROVE  /\ lock'[UserOf[a]] = a
                 /\ pending'[a] = balance'[UserOf[a]] + amount'[a]
      <3>1. a # r /\ pc[a] \in {"moved", "audited"}
        BY <2>2
      <3>2. UserOf[a] # u
        BY <3>1, <1>u DEF AdjustmentLocals
      <3> QED
        BY <3>1, <3>2 DEF NoLostUpdate
    <2> QED
      BY <2>1, <2>2 DEF NoLostUpdate
  <1>4. LocalsOK'
    BY DEF TurnLocals, RegistrationLocals, AdjustmentLocals, EditLocals
  <1> QED
    BY <1>1, <1>2, <1>3, <1>4

LEMMA FindUserStep == \A a \in Adjustments : IInv /\ FindUser(a) => IInv'
  <1> SUFFICES ASSUME NEW a \in Adjustments, IInv, FindUser(a)
               PROVE  IInv'
    OBVIOUS
  <1> USE LedgerAssumption DEF IInv, LocalsOK, TypeOK, Requests, Rows,
              moneyVars, priceVars, worldVars, FindUser, Goes
  <1>1. TypeOK'
    BY DEF InTx, Serving, Over
  <1>2. (NoOrphanAccount /\ BalanceExplained /\ Fresh)'
    BY DEF NoOrphanAccount, BalanceExplained, Fresh
  <1>3. NoLostUpdate'
    BY DEF NoLostUpdate
  <1>4. LocalsOK'
    BY DEF TurnLocals, RegistrationLocals, AdjustmentLocals, EditLocals
  <1> QED
    BY <1>1, <1>2, <1>3, <1>4

LEMMA MoveBalanceStep ==
  \A a \in Adjustments : IInv /\ MoveBalance(a) => IInv'
  <1> SUFFICES ASSUME NEW a \in Adjustments, IInv, MoveBalance(a)
               PROVE  IInv'
    OBVIOUS
  <1> USE LedgerAssumption DEF IInv, LocalsOK, TypeOK, Requests, Rows,
              moneyVars, priceVars, worldVars, MoveBalance, Goes, Write
  <1>1. TypeOK'
    BY DEF InTx, Serving, Over
  <1>2. (NoOrphanAccount /\ BalanceExplained /\ Fresh)'
    BY DEF NoOrphanAccount, BalanceExplained, Fresh
  <1>3. NoLostUpdate'
    BY DEF NoLostUpdate, AdjustmentLocals, NoOrphanAccount
  <1>4. LocalsOK'
    BY DEF TurnLocals, RegistrationLocals, AdjustmentLocals, EditLocals
  <1> QED
    BY <1>1, <1>2, <1>3, <1>4

LEMMA AuditAdjustmentStep ==
  \A a \in Adjustments : IInv /\ AuditAdjustment(a) => IInv'
  <1> SUFFICES ASSUME NEW a \in Adjustments, IInv, AuditAdjustment(a)
               PROVE  IInv'
    OBVIOUS
  <1> USE LedgerAssumption DEF IInv, LocalsOK, TypeOK, Requests, Rows,
              moneyVars, priceVars, worldVars, AuditAdjustment, Goes
  <1>1. TypeOK'
    BY DEF InTx, Serving, Over
  <1>2. (NoOrphanAccount /\ BalanceExplained /\ Fresh)'
    BY DEF NoOrphanAccount, BalanceExplained, Fresh
  <1>3. NoLostUpdate'
    BY DEF NoLostUpdate
  <1>4. LocalsOK'
    BY DEF TurnLocals, RegistrationLocals, AdjustmentLocals, EditLocals
  <1> QED
    BY <1>1, <1>2, <1>3, <1>4

LEMMA CommitAdjustmentStep ==
  \A a \in Adjustments : IInv /\ CommitAdjustment(a) => IInv'
  <1> SUFFICES ASSUME NEW a \in Adjustments, IInv, CommitAdjustment(a)
               PROVE  IInv'
    OBVIOUS
  <1> USE LedgerAssumption DEF IInv, LocalsOK, TypeOK, Requests, Rows,
              moneyVars, priceVars, worldVars, CommitAdjustment, Goes, Close
  <1>1. TypeOK'
    BY DEF InTx, Serving, Over, AdjustmentLocals
  <1>2. (NoOrphanAccount /\ BalanceExplained /\ Fresh)'
    BY DEF NoOrphanAccount, BalanceExplained, Fresh, NoLostUpdate,
               AdjustmentLocals
  <1>3. NoLostUpdate'
    BY DEF NoLostUpdate
  <1>4. LocalsOK'
    BY DEF TurnLocals, RegistrationLocals, AdjustmentLocals, EditLocals
  <1> QED
    BY <1>1, <1>2, <1>3, <1>4

LEMMA BeginEditStep == \A e \in Edits : IInv /\ BeginEdit(e) => IInv'
  <1> SUFFICES ASSUME NEW e \in Edits, IInv, BeginEdit(e)
               PROVE  IInv'
    OBVIOUS
  <1> USE LedgerAssumption DEF IInv, LocalsOK, TypeOK, Requests, Rows,
              moneyVars, priceVars, worldVars, BeginEdit, Goes, Begin,
              Untouched
  <1>1. TypeOK'
    BY DEF InTx, Serving, Over
  <1>2. (NoOrphanAccount /\ BalanceExplained /\ Fresh)'
    BY DEF NoOrphanAccount, BalanceExplained, Fresh
  <1>3. NoLostUpdate'
    BY DEF NoLostUpdate
  <1>4. LocalsOK'
    BY DEF TurnLocals, RegistrationLocals, AdjustmentLocals, EditLocals
  <1> QED
    BY <1>1, <1>2, <1>3, <1>4

LEMMA WriteSettingsStep == \A e \in Edits : IInv /\ WriteSettings(e) => IInv'
  <1> SUFFICES ASSUME NEW e \in Edits, IInv, WriteSettings(e)
               PROVE  IInv'
    OBVIOUS
  <1> USE LedgerAssumption DEF IInv, LocalsOK, TypeOK, Requests, Rows,
              moneyVars, priceVars, worldVars, WriteSettings, Goes, Write
  <1>1. TypeOK'
    BY DEF InTx, Serving, Over
  <1>2. (NoOrphanAccount /\ BalanceExplained /\ Fresh)'
    BY DEF NoOrphanAccount, BalanceExplained, Fresh
  <1>3. NoLostUpdate'
    BY DEF NoLostUpdate
  <1>4. LocalsOK'
    BY DEF TurnLocals, RegistrationLocals, AdjustmentLocals, EditLocals
  <1> QED
    BY <1>1, <1>2, <1>3, <1>4

LEMMA CommitEditStep == \A e \in Edits : IInv /\ CommitEdit(e) => IInv'
  <1> SUFFICES ASSUME NEW e \in Edits, IInv, CommitEdit(e)
               PROVE  IInv'
    OBVIOUS
  <1> USE LedgerAssumption DEF IInv, LocalsOK, TypeOK, Requests, Rows,
              moneyVars, priceVars, worldVars, CommitEdit, Goes, Close
  <1>1. TypeOK'
    BY DEF InTx, Serving, Over, EditLocals
  <1>2. (NoOrphanAccount /\ BalanceExplained /\ Fresh)'
    BY DEF NoOrphanAccount, BalanceExplained, Fresh
  <1>3. NoLostUpdate'
    BY DEF NoLostUpdate
  <1>4. LocalsOK'
    BY DEF TurnLocals, RegistrationLocals, AdjustmentLocals, EditLocals
  <1> QED
    BY <1>1, <1>2, <1>3, <1>4

LEMMA GiveUpStep ==
    \A p \in Requests, result \in Over : IInv /\ GiveUp(p, result) => IInv'
  <1> SUFFICES ASSUME NEW p \in Requests, NEW result \in Over, IInv,
                      GiveUp(p, result)
               PROVE  IInv'
    OBVIOUS
  <1> USE LedgerAssumption DEF IInv, LocalsOK, TypeOK, Requests, Rows,
              moneyVars, priceVars, worldVars, GiveUp, Close
  <1>1. TypeOK'
    BY DEF InTx, Serving, Over
  <1>2. (NoOrphanAccount /\ BalanceExplained /\ Fresh)'
    BY DEF NoOrphanAccount, BalanceExplained, Fresh, InTx, Serving, Over
  <1>3. NoLostUpdate'
    BY DEF NoLostUpdate, InTx, Serving, Over
  <1>4. LocalsOK'
    BY DEF TurnLocals, RegistrationLocals, AdjustmentLocals, EditLocals,
               InTx, Serving, Over
  <1> QED
    BY <1>1, <1>2, <1>3, <1>4

LEMMA UpdatePricingStep == IInv /\ UpdatePricing => IInv'
  <1> SUFFICES ASSUME IInv, UpdatePricing
               PROVE  IInv'
    OBVIOUS
  <1> USE LedgerAssumption DEF IInv, LocalsOK, TypeOK, Requests, Rows,
              moneyVars, priceVars, worldVars, UpdatePricing
  <1>1. TypeOK'
    BY DEF InTx, Serving, Over
  <1>2. (NoOrphanAccount /\ BalanceExplained /\ Fresh)'
    BY DEF NoOrphanAccount, BalanceExplained, Fresh
  <1>3. NoLostUpdate'
    BY DEF NoLostUpdate
  <1>4. LocalsOK'
    BY DEF TurnLocals, RegistrationLocals, AdjustmentLocals, EditLocals
  <1> QED
    BY <1>1, <1>2, <1>3, <1>4

LEMMA CrashStep == IInv /\ Crash => IInv'
  <1> SUFFICES ASSUME IInv, Crash
               PROVE  IInv'
    OBVIOUS
  <1> USE LedgerAssumption DEF IInv, LocalsOK, TypeOK, Requests, Rows,
              moneyVars, priceVars, worldVars, Crash
  <1>1. TypeOK'
    BY DEF InTx, Serving, Over
  <1>2. (NoOrphanAccount /\ BalanceExplained /\ Fresh)'
    BY DEF NoOrphanAccount, BalanceExplained, Fresh, InTx, Serving, Over
  <1>3. NoLostUpdate'
    BY DEF NoLostUpdate, InTx, Serving, Over
  <1>4. LocalsOK'
    BY DEF TurnLocals, RegistrationLocals, AdjustmentLocals, EditLocals,
               InTx, Serving, Over
  <1> QED
    BY <1>1, <1>2, <1>3, <1>4

-----------------------------------------------------------------------------
LEMMA NextStep == IInv /\ [Next]_vars => IInv'
  <1> SUFFICES ASSUME IInv, [Next]_vars
               PROVE  IInv'
    OBVIOUS
  <1>1. CASE \E t \in Turns : StartTurn(t) \/ ServeTurn(t) \/ LoseCharge(t)
    <2>1. PICK t \in Turns : StartTurn(t) \/ ServeTurn(t) \/ LoseCharge(t)
      BY <1>1
    <2>2. CASE LoseCharge(t)
      BY <2>2, GiveUpStep DEF LoseCharge, Requests, Over
    <2> QED
      BY <2>1, <2>2, StartTurnStep, EndTurnStep, PriceTurnStep,
         DeductCreditStep, RecordUsageStep, CommitChargeStep DEF ServeTurn
  <1>2. CASE \E r \in Registrations :
                BeginRegistration(r) \/ ServeRegistration(r)
                \/ FailRegistration(r)
    <2>1. PICK r \in Registrations :
              BeginRegistration(r) \/ ServeRegistration(r)
              \/ FailRegistration(r)
      BY <1>2
    <2>2. CASE FailRegistration(r)
      BY <2>2, GiveUpStep DEF FailRegistration, Requests, Over
    <2> QED
      BY <2>1, <2>2, BeginRegistrationStep, InsertUserStep,
         GrantSignupCreditStep, CommitRegistrationStep DEF ServeRegistration
  <1>3. CASE \E a \in Adjustments :
                FindUser(a) \/ ServeAdjustment(a) \/ FailAdjustment(a)
    <2>1. PICK a \in Adjustments :
              FindUser(a) \/ ServeAdjustment(a) \/ FailAdjustment(a)
      BY <1>3
    <2>2. CASE FailAdjustment(a)
      BY <2>2, GiveUpStep DEF FailAdjustment, Requests, Over
    <2> QED
      BY <2>1, <2>2, FindUserStep, MoveBalanceStep, AuditAdjustmentStep,
         CommitAdjustmentStep DEF ServeAdjustment
  <1>4. CASE \E e \in Edits : BeginEdit(e) \/ ServeEdit(e) \/ FailEdit(e)
    <2>1. PICK e \in Edits : BeginEdit(e) \/ ServeEdit(e) \/ FailEdit(e)
      BY <1>4
    <2>2. CASE FailEdit(e)
      BY <2>2, GiveUpStep DEF FailEdit, Requests, Over
    <2> QED
      BY <2>1, <2>2, BeginEditStep, WriteSettingsStep, CommitEditStep
         DEF ServeEdit
  <1>5. CASE UpdatePricing \/ Crash
    BY <1>5, UpdatePricingStep, CrashStep
  <1>6. CASE UNCHANGED vars
    BY <1>6 DEF vars, moneyVars, priceVars, worldVars, IInv, TypeOK,
       NoOrphanAccount, BalanceExplained, NoLostUpdate, LocalsOK, TurnLocals,
       RegistrationLocals, AdjustmentLocals, EditLocals, Fresh
  <1> QED
    BY <1>1, <1>2, <1>3, <1>4, <1>5, <1>6 DEF Next

(* Every behaviour of the ledger keeps the inductive invariant. *)
THEOREM Invariant == Spec => []IInv
  BY Initially, NextStep, PTL DEF Spec

(* The committed rows, the row locks and the locals of every request keep  *)
(* their types: in particular a charge never makes the usage total         *)
(* anything but a natural number.                                          *)
THEOREM TypeCorrect == Spec => []TypeOK
  <1>1. IInv => TypeOK
    BY DEF IInv
  <1> QED
    BY <1>1, Invariant, PTL

(* Whatever turns, adjustments, registrations and crashes interleave, a    *)
(* balance in ai_credits is the signup grant plus the audited adjustments  *)
(* minus the charges in ai_usage.                                          *)
THEOREM BalanceAlwaysExplained == Spec => []BalanceExplained
  <1>1. IInv => BalanceExplained
    BY DEF IInv
  <1> QED
    BY <1>1, Invariant, PTL

(* CreateUserWithSignupCredit never commits a user without its ai_credits  *)
(* row, and AdjustCredit never creates a row for anybody else.             *)
THEOREM AccountsNeverOrphaned == Spec => []NoOrphanAccount
  <1>1. IInv => NoOrphanAccount
    BY DEF IInv
  <1> QED
    BY <1>1, Invariant, PTL

(* The relative UPDATEs of ChargeTurn and AdjustCredit lose no concurrent  *)
(* update of the same row.                                                 *)
THEOREM UpdatesNeverLost == Spec => []NoLostUpdate
  <1>1. IInv => NoLostUpdate
    BY DEF IInv
  <1> QED
    BY <1>1, Invariant, PTL

-----------------------------------------------------------------------------
(* The grant in force, and the grant a registration has read, are in the   *)
(* timeline before any account holds them: what makes MintTraceable        *)
(* inductive.                                                              *)
InTimeline(value) == \E entry \in timeline : entry.grant = value

MintInv ==
    /\ InTimeline(grant)
    /\ \A r \in Registrations : pc[r] = "credited" => InTimeline(amount[r])
    /\ MintTraceable

LEMMA MintInitially == Init => MintInv
  <1> SUFFICES ASSUME Init
               PROVE  MintInv
    OBVIOUS
  <1> DEFINE first == [at |-> 0, grant |-> grant]
  <1>1. first \in timeline /\ first.grant = grant
    BY DEF Init
  <1>2. InTimeline(grant)
    BY <1>1 DEF InTimeline
  <1>3. \A r \in Registrations : pc[r] # "credited"
    BY DEF Init, Requests
  <1>4. \A u \in users : granted[u] = grant
    BY LedgerAssumption DEF Init
  <1> QED
    BY <1>2, <1>3, <1>4 DEF MintInv, MintTraceable, InTimeline

LEMMA TimelineGrows ==
  IInv /\ [Next]_vars => timeline \subseteq timeline'
  BY DEF Next, ServeTurn, ServeRegistration, ServeAdjustment, ServeEdit, vars,
     moneyVars, priceVars, worldVars, StartTurn, EndTurn, PriceTurn,
     DeductCredit, RecordUsage, CommitCharge, LoseCharge, BeginRegistration,
     InsertUser, GrantSignupCredit, CommitRegistration, FailRegistration,
     FindUser, MoveBalance, AuditAdjustment, CommitAdjustment, FailAdjustment,
     BeginEdit, WriteSettings, CommitEdit, FailEdit, GiveUp, UpdatePricing,
     Crash

(* Only CommitEdit moves the grant, only CommitRegistration mints, and     *)
(* only GrantSignupCredit brings a registration to its commit.             *)
LEMMA GrantMovesAudited ==
  IInv /\ [Next]_vars =>
      \/ grant' = grant
      \/ \E e \in Edits : CommitEdit(e) /\ amount[e] # Untouched
  BY DEF Next, ServeTurn, ServeRegistration, ServeAdjustment, ServeEdit, vars,
     moneyVars, priceVars, worldVars, StartTurn, EndTurn, PriceTurn,
     DeductCredit, RecordUsage, CommitCharge, LoseCharge, BeginRegistration,
     InsertUser, GrantSignupCredit, CommitRegistration, FailRegistration,
     FindUser, MoveBalance, AuditAdjustment, CommitAdjustment, FailAdjustment,
     BeginEdit, WriteSettings, CommitEdit, FailEdit, GiveUp, UpdatePricing,
     Crash

LEMMA MintedAtRegistration ==
  IInv /\ [Next]_vars =>
      \/ users' = users /\ granted' = granted
      \/ \E r \in Registrations : CommitRegistration(r)
  BY DEF Next, ServeTurn, ServeRegistration, ServeAdjustment, ServeEdit, vars,
     moneyVars, priceVars, worldVars, StartTurn, EndTurn, PriceTurn,
     DeductCredit, RecordUsage, CommitCharge, LoseCharge, BeginRegistration,
     InsertUser, GrantSignupCredit, CommitRegistration, FailRegistration,
     FindUser, MoveBalance, AuditAdjustment, CommitAdjustment, FailAdjustment,
     BeginEdit, WriteSettings, CommitEdit, FailEdit, GiveUp, UpdatePricing,
     Crash

LEMMA CreditedByGrant ==
  ASSUME IInv, [Next]_vars, NEW r \in Registrations, pc'[r] = "credited"
  PROVE  \/ pc[r] = "credited" /\ amount'[r] = amount[r]
         \/ amount'[r] = grant
  <1> USE LedgerAssumption DEF IInv, TypeOK, Requests, Goes, Close, worldVars,
              priceVars
  <1>1. CASE \E t \in Turns : StartTurn(t) \/ ServeTurn(t) \/ LoseCharge(t)
    BY <1>1 DEF StartTurn, ServeTurn, EndTurn, PriceTurn, DeductCredit,
       RecordUsage, CommitCharge, LoseCharge, GiveUp
  <1>2. CASE \E q \in Registrations :
                BeginRegistration(q) \/ ServeRegistration(q)
                \/ FailRegistration(q)
    BY <1>2 DEF BeginRegistration, ServeRegistration, InsertUser,
       GrantSignupCredit, CommitRegistration, FailRegistration, GiveUp
  <1>3. CASE \E a \in Adjustments :
                FindUser(a) \/ ServeAdjustment(a) \/ FailAdjustment(a)
    BY <1>3 DEF FindUser, ServeAdjustment, MoveBalance, AuditAdjustment,
       CommitAdjustment, FailAdjustment, GiveUp
  <1>4. CASE \E e \in Edits : BeginEdit(e) \/ ServeEdit(e) \/ FailEdit(e)
    BY <1>4 DEF BeginEdit, ServeEdit, WriteSettings, CommitEdit, FailEdit,
       GiveUp
  <1>5. CASE UpdatePricing \/ Crash \/ UNCHANGED vars
    BY <1>5 DEF UpdatePricing, Crash, vars, InTx, Serving
  <1> QED
    BY <1>1, <1>2, <1>3, <1>4, <1>5 DEF Next

LEMMA MintStep == IInv /\ MintInv /\ [Next]_vars => MintInv'
  <1> SUFFICES ASSUME IInv, MintInv, [Next]_vars
               PROVE  MintInv'
    OBVIOUS
  <1>1. \A value : InTimeline(value) => InTimeline(value)'
    BY TimelineGrows DEF InTimeline
  <1>2. InTimeline(grant)'
    <2>1. CASE grant' = grant
      BY <2>1, <1>1 DEF MintInv, InTimeline
    <2>2. CASE \E e \in Edits : CommitEdit(e) /\ amount[e] # Untouched
      <3>1. PICK e \in Edits : CommitEdit(e) /\ amount[e] # Untouched
        BY <2>2
      <3> DEFINE entry == [at |-> began[e], grant |-> amount[e]]
      <3>2. entry \in timeline' /\ grant' = pending[e] /\ pc[e] = "written"
        BY <3>1 DEF CommitEdit, Goes
      <3>3. entry.grant = grant'
        BY <3>2 DEF IInv, LocalsOK, EditLocals
      <3> QED
        BY <3>2, <3>3 DEF InTimeline
    <2> QED
      BY <2>1, <2>2, GrantMovesAudited
  <1>3. ASSUME NEW r \in Registrations, pc'[r] = "credited"
        PROVE  InTimeline(amount[r])'
    BY <1>1, <1>3, CreditedByGrant DEF MintInv, InTimeline
  <1>4. MintTraceable'
    <2>1. CASE users' = users /\ granted' = granted
      BY <2>1, TimelineGrows DEF MintInv, MintTraceable
    <2>2. CASE \E r \in Registrations : CommitRegistration(r)
      <3>1. PICK r \in Registrations : CommitRegistration(r)
        BY <2>2
      <3> DEFINE u == UserOf[r]
      <3>2. /\ u \in Users /\ users' = users \union {u}
            /\ granted' = [granted EXCEPT ![u] = amount[r]]
            /\ pc[r] = "credited" /\ timeline' = timeline
        BY <3>1, LedgerAssumption
           DEF CommitRegistration, Goes, priceVars
      <3>3. InTimeline(amount[r])
        BY <3>2 DEF MintInv
      <3> QED
        BY <3>2, <3>3 DEF MintInv, MintTraceable, InTimeline, IInv, TypeOK
    <2> QED
      BY <2>1, <2>2, MintedAtRegistration
  <1> QED
    BY <1>2, <1>3, <1>4 DEF MintInv

(* GrantSignupCredit's promise that new money is traceable: an account's   *)
(* signup credit is always an amount the admin_audit timeline shows.       *)
THEOREM MintAlwaysTraceable == Spec => []MintTraceable
  <1>1. MintInv => MintTraceable
    BY DEF MintInv
  <1> QED
    BY <1>1, Invariant, MintInitially, MintStep, PTL DEF Spec

-----------------------------------------------------------------------------
LEMMA BookInitially == Init => Book!Init
  BY LedgerAssumption DEF Init, Book!Init

LEMMA PostedStep ==
  IInv /\ [Next]_vars =>
      \/ UNCHANGED moneyVars
      \/ \E t \in Turns : CommitCharge(t)
      \/ \E r \in Registrations : CommitRegistration(r)
      \/ \E a \in Adjustments : CommitAdjustment(a)
  BY DEF Next, ServeTurn, ServeRegistration, ServeAdjustment, ServeEdit, vars,
     moneyVars, priceVars, worldVars, StartTurn, EndTurn, PriceTurn,
     DeductCredit, RecordUsage, CommitCharge, LoseCharge, BeginRegistration,
     InsertUser, GrantSignupCredit, CommitRegistration, FailRegistration,
     FindUser, MoveBalance, AuditAdjustment, CommitAdjustment, FailAdjustment,
     BeginEdit, WriteSettings, CommitEdit, FailEdit, GiveUp, UpdatePricing,
     Crash

LEMMA BookStep == IInv /\ [Next]_vars => [Book!Next]_(Book!bookVars)
  <1> SUFFICES ASSUME IInv, [Next]_vars
               PROVE  [Book!Next]_(Book!bookVars)
    OBVIOUS
  <1> USE LedgerAssumption DEF IInv, TypeOK, Requests
  <1>1. CASE UNCHANGED moneyVars
    BY <1>1 DEF moneyVars, Book!bookVars
  <1>2. CASE \E t \in Turns : CommitCharge(t)
    <2>1. PICK t \in Turns : CommitCharge(t)
      BY <1>2
    <2>2. /\ UserOf[t] \in Users /\ UserOf[t] \in accounts
          /\ pending[t] = balance[UserOf[t]] - amount[t]
          /\ amount[t] \in 0 .. MaxCharge
      BY <2>1 DEF CommitCharge, Goes, NoLostUpdate, LocalsOK, TurnLocals
    <2>3. Book!Charge(UserOf[t], amount[t])
      BY <2>1, <2>2 DEF CommitCharge, Book!Charge
    <2> QED
      BY <2>2, <2>3 DEF Book!Next
  <1>3. CASE \E r \in Registrations : CommitRegistration(r)
    <2>1. PICK r \in Registrations : CommitRegistration(r)
      BY <1>3
    <2>2. /\ UserOf[r] \in Users /\ UserOf[r] \notin accounts
          /\ balance[UserOf[r]] = 0
          /\ amount[r] \in Grants /\ pending[r] = amount[r]
          /\ balance[UserOf[r]] + amount[r] = pending[r]
      BY <2>1 DEF CommitRegistration, Goes, LocalsOK, RegistrationLocals,
                  NoOrphanAccount, Fresh
    <2>3. Book!Open(UserOf[r], amount[r])
      BY <2>1, <2>2 DEF CommitRegistration, Book!Open
    <2> QED
      BY <2>2, <2>3 DEF Book!Next
  <1>4. CASE \E a \in Adjustments : CommitAdjustment(a)
    <2>1. PICK a \in Adjustments : CommitAdjustment(a)
      BY <1>4
    <2>2. /\ UserOf[a] \in Users /\ UserOf[a] \in accounts
          /\ pending[a] = balance[UserOf[a]] + amount[a]
          /\ amount[a] \in Deltas
      BY <2>1 DEF CommitAdjustment, Goes, NoLostUpdate, LocalsOK,
                  AdjustmentLocals, NoOrphanAccount
    <2>3. Book!Adjust(UserOf[a], amount[a])
      BY <2>1, <2>2 DEF CommitAdjustment, Book!Adjust
    <2> QED
      BY <2>2, <2>3 DEF Book!Next
  <1> QED
    BY <1>1, <1>2, <1>3, <1>4, PostedStep

(* The ledger, with its transactions, locks, failures and crashes,         *)
(* implements the account book: every step posts one charge, one signup    *)
(* grant or one adjustment together with its record, or none at all.       *)
THEOREM Refinement == Spec => ImplementsAccountBook
  BY BookInitially, BookStep, Invariant, PTL
     DEF Spec, ImplementsAccountBook, Book!Spec

=============================================================================
