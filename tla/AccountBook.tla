----------------------------- MODULE AccountBook -----------------------------
(***************************************************************************)
(* What the credit ledger promises, with no transactions, locks, processes *)
(* or failures: an account is a balance beside the totals of the records   *)
(* that explain it, and every step posts one record and moves the balance  *)
(* by that record's amount, both at once.                                  *)
(*                                                                         *)
(* CreditLedger implements this specification.                             *)
(***************************************************************************)
EXTENDS Integers

CONSTANTS
    Users,
    Grants,     \* amounts a signup may mint
    Charges,    \* amounts a turn may cost
    Deltas      \* amounts an operator may add (or, negative, take away)

VARIABLES
    accounts,   \* users that have a credit account
    balance,    \* balance[u], 0 before the account is opened
    granted,    \* signup credit minted for u
    adjusted,   \* sum of the operator adjustments recorded for u
    charged     \* sum of the charges recorded for u

bookVars == <<accounts, balance, granted, adjusted, charged>>

Init ==
    /\ accounts \in SUBSET Users
    /\ granted \in [Users -> Grants \union {0}]
    /\ \A u \in Users \ accounts : granted[u] = 0
    /\ balance = granted
    /\ adjusted = [u \in Users |-> 0]
    /\ charged = [u \in Users |-> 0]

(* A registration opens the account with the signup grant. *)
Open(u, credit) ==
    /\ u \notin accounts
    /\ accounts' = accounts \union {u}
    /\ granted' = [granted EXCEPT ![u] = credit]
    /\ balance' = [balance EXCEPT ![u] = @ + credit]
    /\ UNCHANGED <<adjusted, charged>>

(* A charge may overdraw the account; it never adds to it. *)
Charge(u, credits) ==
    /\ u \in accounts
    /\ balance' = [balance EXCEPT ![u] = @ - credits]
    /\ charged' = [charged EXCEPT ![u] = @ + credits]
    /\ UNCHANGED <<accounts, granted, adjusted>>

Adjust(u, delta) ==
    /\ u \in accounts
    /\ balance' = [balance EXCEPT ![u] = @ + delta]
    /\ adjusted' = [adjusted EXCEPT ![u] = @ + delta]
    /\ UNCHANGED <<accounts, granted, charged>>

Next ==
    \E u \in Users :
        \/ \E credit \in Grants : Open(u, credit)
        \/ \E credits \in Charges : Charge(u, credits)
        \/ \E delta \in Deltas : Adjust(u, delta)

Spec == Init /\ [][Next]_bookVars

=============================================================================
