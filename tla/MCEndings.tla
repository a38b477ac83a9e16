------------------------------ MODULE MCEndings ------------------------------
(***************************************************************************)
(* The two parts that promise an ending, each from its own initial state:  *)
(* a turn of the assistant on the server, and the tabs of a browser whose  *)
(* accounts change. They share nothing, and a behaviour is of one of them. *)
(***************************************************************************)
EXTENDS AgentTurn, BrowserSession

CONSTANTS t1, t2

VARIABLE part       \* the part a behaviour is of

endingVars == <<turnVars, vars, part>>

Turn(A) == part = "turn" /\ A /\ UNCHANGED <<vars, part>>
Browser(A) == part = "tabs" /\ A /\ UNCHANGED <<turnVars, part>>

EndingsInit == part \in {"turn", "tabs"} /\ InitTurn /\ Init
EndingsNext == Turn(TurnNext) \/ Browser(Next)

News1 == Receive(t1) \/ LeaveSession(t1) \/ EnterSession(t1)
News2 == Receive(t2) \/ LeaveSession(t2) \/ EnterSession(t2)
Ask1 == RequestMe(t1) \/ AnswerMe(t1)
Ask2 == RequestMe(t2) \/ AnswerMe(t2)
Unstall == ClientResumes \/ (client = "stalled" /\ ClientLeaves)

(* TurnFairSpec of the one part and FairSpec of the other: a condition of  *)
(* the turn and one of a tab make one where each is of its own part. For a *)
(* tab's questions FairSpec has weak fairness; Ask2 has strong, which is   *)
(* more only where the bound MaxNews puts off an answer.                   *)
EndingsSpec ==
    /\ EndingsInit /\ [][EndingsNext]_endingVars
    /\ SF_endingVars(Turn(Serve) \/ Browser(Ask2))
    /\ WF_endingVars(Turn(DeadlinePasses) \/ Browser(News1))
    /\ WF_endingVars(Turn(expired /\ StreamBreaks) \/ Browser(News2))
    /\ WF_endingVars(Turn(Unstall) \/ Browser(Ask1))

(* Every turn ends, charged, though the provider may fall silent           *)
(* (handler.go: DefaultTurnTimeout, and the charge behind it).             *)
EveryTurnEnds == part = "turn" => TurnEnds

(* Being superseded is not a lockout: every tab comes back to the account  *)
(* of the cookie (useMe.ts).                                               *)
EveryTabReturns == part = "tabs" => NotALockout

=============================================================================
