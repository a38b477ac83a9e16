---------------------------- MODULE MCCreditLedger ----------------------------
(* Small ledgers: ann has an account, bob registers. Few of the requests   *)
(* are sent on one day, and every behaviour is of one day.                 *)
EXTENDS CreditLedger

CONSTANTS ann, bob, t1, t2, r1, r2, a1, a2, e1, e2

VARIABLE today      \* the requests that are sent

mcVars == <<vars, today>>

(* Both turns and an adjustment are ann's: the overlap that EnsureCredit   *)
(* does not prevent. Both registrations are for bob's address, and the     *)
(* other adjustment is for an account that may not exist yet.              *)
MCUserOf == [p \in Turns \union Registrations \union Adjustments |->
                IF p \in {t1, t2, a1} THEN ann ELSE bob]

(* One adjustment, which takes an account below zero. *)
MCDeltas == {-2}

(* Money that moves while prices change; one address registered twice, or  *)
(* the grant edited twice, while the grant changes.                        *)
MCDays == {{t1, t2, r1, a1, a2}, {r1, r2, e1}, {r1, e1, e2}}

(* Prices are of no account where no turn runs, and the grant where nobody *)
(* edits it.                                                               *)
InitLedger ==
    /\ Init /\ today \in MCDays
    /\ IF t1 \in today THEN grant = 3 ELSE rate = 1

LedgerNext ==
    /\ Next /\ UNCHANGED today
    /\ \A p \in Requests \ today : pc'[p] = "idle"
    /\ t1 \notin today => rate' = rate

(* Fairness, request by request; those that are never sent on the same day *)
(* share a condition.                                                      *)
LedgerSpec ==
    /\ InitLedger /\ [][LedgerNext]_mcVars
    /\ WF_mcVars(ServeTurn(t1) /\ UNCHANGED today)
    /\ WF_mcVars(ServeTurn(t2) /\ UNCHANGED today)
    /\ WF_mcVars(ServeRegistration(r1) /\ UNCHANGED today)
    /\ WF_mcVars((ServeRegistration(r2) \/ ServeAdjustment(a1) \/ ServeEdit(e2))
                     /\ UNCHANGED today)
    /\ WF_mcVars((ServeAdjustment(a2) \/ ServeEdit(e1)) /\ UNCHANGED today)

=============================================================================
