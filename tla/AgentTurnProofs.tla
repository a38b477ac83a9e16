---------------------------- MODULE AgentTurnProofs ----------------------------
(***************************************************************************)
(* Proofs about a turn of the agent, for any number of rounds, searches    *)
(* and chunks: it is charged for what the provider reported, a search is   *)
(* surcharged only if it was served, the budget of searches holds, no      *)
(* search is paid for in a last round, and the learner is told once how    *)
(* the turn ended.                                                         *)
(*                                                                         *)
(* None of these is inductive. The charge needs to know where the usage of *)
(* the round under way is (Metered); the surcharge and the budget need to  *)
(* know of the call that is counted but not answered (Searched); and what  *)
(* the learner was told depends on what the sink knew of the connection,   *)
(* which never comes back once it is gone (Told).                          *)
(***************************************************************************)
EXTENDS AgentTurn, TLAPS

Streaming == stage \in {"streaming", "delta"}
Settled == stage \in {"closing", "over"}

(* The type invariant with numbers still unbounded, but for what a turn    *)
(* was charged and what the learner was told, which is said below.         *)
Numbers ==
    /\ round \in 1 .. MaxRounds
    /\ usage \in Nat /\ produced \in 0 .. MaxChunks
    /\ result \in [usage : Nat, searches : Nat]
    /\ searchCalls \in 0 .. MaxSearches
    /\ burned \in Nat /\ reported \in Nat /\ served \in Nat

Marks ==
    /\ stage \in {"asking", "streaming", "delta", "tools", "searching", "done",
               "charging", "closing", "over"}
    /\ text \in BOOLEAN
    /\ finish \in {"none", "stop", "length", "tool_calls"}
    /\ runErr \in BOOLEAN /\ sinkBroken \in BOOLEAN
    /\ expired \in BOOLEAN
    /\ client \in {"reading", "stalled", "gone"}

CallsOK ==
    /\ calls \in Seq(Tools)
    /\ stage = "searching" => calls # << >>

(* Where the usage of the round under way is: with the stream while it is  *)
(* read, in the result once it is not.                                     *)
Metered ==
    /\ usage <= produced
    /\ Streaming /\ finish = "none" => usage = 0
    /\ stage = "delta" => finish = "none"
    /\ IF Streaming
       THEN reported = result.usage + usage /\ result.usage + produced <= burned
       ELSE reported = result.usage /\ reported <= burned

(* A round generates at most MaxChunks. *)
Generated ==
    burned <= (round - 1) * MaxChunks + IF stage = "asking" THEN 0 ELSE produced

(* A search under way is counted, and neither served nor surcharged yet. *)
Searched ==
    /\ result.searches <= served
    /\ served + (IF stage = "searching" THEN 1 ELSE 0) <= searchCalls
    /\ stage \in {"tools", "searching"} => round < MaxRounds

ChargedOnce == charged = IF Settled THEN result ELSE NotCharged

(* A sink is broken only for a learner who is gone. *)
Told ==
    /\ sinkBroken => runErr /\ client = "gone"
    /\ stage \notin {"charging", "closing", "over"} =>
           terminal = << >> /\ ~runErr
    /\ stage \in {"charging", "closing"} =>
           terminal = IF runErr THEN << >> ELSE << "done" >>
    /\ stage = "over" =>
           \/ terminal = << IF runErr THEN "error" ELSE "done" >>
           \/ terminal = << >> /\ client = "gone"

TurnInv ==
    /\ Numbers /\ Marks /\ CallsOK
    /\ Metered /\ Generated /\ Searched /\ ChargedOnce /\ Told

-----------------------------------------------------------------------------
LEMMA TurnBegins == InitTurn => TurnInv
<1> SUFFICES ASSUME InitTurn PROVE TurnInv OBVIOUS
<1> USE TurnAssumption DEF InitTurn
<1>1. Numbers BY DEF Numbers
<1>2. Marks BY DEF Marks
<1>21. CallsOK BY DEF CallsOK, Tools
<1>3. Metered /\ Searched
  <2>1. result.usage = 0 /\ result.searches = 0 OBVIOUS
  <2> QED BY <2>1 DEF Metered, Searched, Streaming
<1>4. Generated
  <2>1. (round - 1) * MaxChunks = 0 OBVIOUS
  <2> QED BY <2>1 DEF Generated
<1>5. ChargedOnce /\ Told BY DEF ChargedOnce, Told, Settled
<1> QED BY <1>1, <1>2, <1>21, <1>3, <1>4, <1>5 DEF TurnInv

LEMMA AskKeeps == TurnInv /\ Ask => TurnInv'
<1> SUFFICES ASSUME TurnInv, Ask PROVE TurnInv' OBVIOUS
<1> USE TurnAssumption DEF TurnInv, Ask, Return, streamVars, resultVars, learnerVars, meterVars
<1>1. Numbers' BY DEF Numbers
<1>2. Marks' BY DEF Marks
<1>3. CallsOK' BY DEF CallsOK, Tools
<1>4. Metered' BY DEF Metered, Numbers, Marks, Streaming
<1>5. Generated' BY DEF Generated, Numbers
<1>6. Searched' BY DEF Searched, Numbers
<1>7. ChargedOnce' BY DEF ChargedOnce, Settled
<1>8. Told' BY DEF Told, Marks
<1> QED BY <1>1, <1>2, <1>3, <1>4, <1>5, <1>6, <1>7, <1>8

LEMMA ReceiveTextKeeps == TurnInv /\ ReceiveText => TurnInv'
<1> SUFFICES ASSUME TurnInv, ReceiveText PROVE TurnInv' OBVIOUS
<1> USE TurnAssumption DEF TurnInv, ReceiveText, Generate, streamVars, resultVars, learnerVars, meterVars
<1>1. Numbers' BY DEF Numbers
<1>2. Marks' BY DEF Marks
<1>3. CallsOK' BY DEF CallsOK, Tools
<1>4. Metered' BY DEF Metered, Numbers, Marks, Streaming
<1>5. Generated' BY DEF Generated, Numbers
<1>6. Searched' BY DEF Searched, Numbers
<1>7. ChargedOnce' BY DEF ChargedOnce, Settled
<1>8. Told' BY DEF Told, Marks
<1> QED BY <1>1, <1>2, <1>3, <1>4, <1>5, <1>6, <1>7, <1>8

LEMMA ReceiveCallKeeps == TurnInv /\ ReceiveCall => TurnInv'
<1> SUFFICES ASSUME TurnInv, ReceiveCall PROVE TurnInv' OBVIOUS
<1> USE TurnAssumption DEF TurnInv, ReceiveCall, Generate, streamVars, resultVars, learnerVars, meterVars
<1>1. Numbers' BY DEF Numbers
<1>2. Marks' BY DEF Marks
<1>3. CallsOK' BY DEF CallsOK, Tools
<1>4. Metered' BY DEF Metered, Numbers, Marks, Streaming
<1>5. Generated' BY DEF Generated, Numbers
<1>6. Searched' BY DEF Searched, Numbers
<1>7. ChargedOnce' BY DEF ChargedOnce, Settled
<1>8. Told' BY DEF Told, Marks
<1> QED BY <1>1, <1>2, <1>3, <1>4, <1>5, <1>6, <1>7, <1>8

LEMMA ReceiveFinishKeeps == TurnInv /\ ReceiveFinish => TurnInv'
<1> SUFFICES ASSUME TurnInv, ReceiveFinish PROVE TurnInv' OBVIOUS
<1> USE TurnAssumption DEF TurnInv, ReceiveFinish, streamVars, resultVars, learnerVars, meterVars
<1>0. usage' \in Nat /\ usage' <= produced BY DEF Numbers
<1>1. Numbers'
  <2>1. \A spent \in Nat : reported + spent \in Nat BY DEF Numbers
  <2>2. reported' \in Nat BY ONLY <1>0, <2>1, ReceiveFinish, Zenon DEF ReceiveFinish
  <2> QED BY <1>0, <2>2 DEF Numbers
<1>2. Marks' BY DEF Marks
<1>3. CallsOK' BY DEF CallsOK, Tools
<1>4. Metered' BY <1>0 DEF Metered, Numbers, Marks, Streaming
<1>5. Generated' BY DEF Generated, Numbers
<1>6. Searched' BY <1>0 DEF Searched, Numbers
<1>7. ChargedOnce' BY DEF ChargedOnce, Settled
<1>8. Told' BY DEF Told, Marks
<1> QED BY <1>1, <1>2, <1>3, <1>4, <1>5, <1>6, <1>7, <1>8

LEMMA EmitDeltaKeeps == TurnInv /\ EmitDelta => TurnInv'
<1> SUFFICES ASSUME TurnInv, EmitDelta PROVE TurnInv' OBVIOUS
<1> USE TurnAssumption DEF TurnInv, EmitDelta, FailRound, Return, Delivered, Undeliverable, streamVars, resultVars, learnerVars, meterVars
<1>0. /\ result'.searches = result.searches
      /\ result'.usage = IF stage' = "streaming" THEN result.usage ELSE result.usage + usage
  BY DEF Numbers
<1>1. Numbers' BY <1>0 DEF Numbers
<1>2. Marks' BY DEF Marks
<1>3. CallsOK' BY DEF CallsOK, Tools
<1>4. Metered' BY <1>0 DEF Metered, Numbers, Marks, Streaming
<1>5. Generated' BY DEF Generated, Numbers
<1>6. Searched' BY <1>0 DEF Searched, Numbers
<1>7. ChargedOnce' BY DEF ChargedOnce, Settled
<1>8. Told' BY DEF Told, Marks
<1> QED BY <1>1, <1>2, <1>3, <1>4, <1>5, <1>6, <1>7, <1>8

LEMMA StreamBreaksKeeps == TurnInv /\ StreamBreaks => TurnInv'
<1> SUFFICES ASSUME TurnInv, StreamBreaks PROVE TurnInv' OBVIOUS
<1> USE TurnAssumption DEF TurnInv, StreamBreaks, FailRound, Return, streamVars, resultVars, learnerVars, meterVars
<1>0. /\ result'.searches = result.searches
      /\ result'.usage = result.usage + usage
  BY DEF Numbers
<1>1. Numbers' BY <1>0 DEF Numbers
<1>2. Marks' BY DEF Marks
<1>3. CallsOK' BY DEF CallsOK, Tools
<1>4. Metered' BY <1>0 DEF Metered, Numbers, Marks, Streaming
<1>5. Generated' BY DEF Generated, Numbers
<1>6. Searched' BY <1>0 DEF Searched, Numbers
<1>7. ChargedOnce' BY DEF ChargedOnce, Settled
<1>8. Told' BY DEF Told, Marks
<1> QED BY <1>1, <1>2, <1>3, <1>4, <1>5, <1>6, <1>7, <1>8

LEMMA CompleteRoundKeeps == TurnInv /\ CompleteRound => TurnInv'
<1> SUFFICES ASSUME TurnInv, CompleteRound PROVE TurnInv' OBVIOUS
<1> USE TurnAssumption DEF TurnInv, CompleteRound, FailRound, Return, IsLastRound, streamVars, resultVars, learnerVars, meterVars
<1>0. /\ result'.searches = result.searches
      /\ result'.usage = IF stage' = "streaming" THEN result.usage ELSE result.usage + usage
  BY DEF Numbers
<1>1. Numbers' BY <1>0 DEF Numbers
<1>2. Marks' BY DEF Marks
<1>3. CallsOK' BY DEF CallsOK, Tools
<1>4. Metered' BY <1>0 DEF Metered, Numbers, Marks, Streaming
<1>5. Generated' BY DEF Generated, Numbers
<1>6. Searched' BY <1>0 DEF Searched, Numbers
<1>7. ChargedOnce' BY DEF ChargedOnce, Settled
<1>8. Told' BY DEF Told, Marks
<1> QED BY <1>1, <1>2, <1>3, <1>4, <1>5, <1>6, <1>7, <1>8

LEMMA ToolUndeliverableKeeps == TurnInv /\ ToolUndeliverable => TurnInv'
<1> SUFFICES ASSUME TurnInv, ToolUndeliverable PROVE TurnInv' OBVIOUS
<1> USE TurnAssumption DEF TurnInv, ToolUndeliverable, Return, Undeliverable, streamVars, resultVars, learnerVars, meterVars
<1>1. Numbers' BY DEF Numbers
<1>2. Marks' BY DEF Marks
<1>3. CallsOK' BY DEF CallsOK, Tools
<1>4. Metered' BY DEF Metered, Numbers, Marks, Streaming
<1>5. Generated' BY DEF Generated, Numbers
<1>6. Searched' BY DEF Searched, Numbers
<1>7. ChargedOnce' BY DEF ChargedOnce, Settled
<1>8. Told' BY DEF Told, Marks
<1> QED BY <1>1, <1>2, <1>3, <1>4, <1>5, <1>6, <1>7, <1>8

LEMMA RunToolKeeps == TurnInv /\ RunTool => TurnInv'
<1> SUFFICES ASSUME TurnInv, RunTool PROVE TurnInv' OBVIOUS
<1> USE TurnAssumption DEF TurnInv, RunTool, NextCall, Delivered, streamVars, resultVars, learnerVars, meterVars
<1>1. Numbers' BY DEF Numbers
<1>2. Marks' BY DEF Marks
<1>3. CallsOK' BY DEF CallsOK, Tools
<1>4. Metered' BY DEF Metered, Numbers, Marks, Streaming
<1>5. Generated' BY DEF Generated, Numbers
<1>6. Searched' BY DEF Searched, Numbers
<1>7. ChargedOnce' BY DEF ChargedOnce, Settled
<1>8. Told' BY DEF Told, Marks
<1> QED BY <1>1, <1>2, <1>3, <1>4, <1>5, <1>6, <1>7, <1>8

LEMMA StartSearchKeeps == TurnInv /\ StartSearch => TurnInv'
<1> SUFFICES ASSUME TurnInv, StartSearch PROVE TurnInv' OBVIOUS
<1> USE TurnAssumption DEF TurnInv, StartSearch, NextCall, Delivered, streamVars, resultVars, learnerVars, meterVars
<1>1. Numbers' BY DEF Numbers
<1>2. Marks' BY DEF Marks
<1>3. CallsOK' BY DEF CallsOK, Tools
<1>4. Metered' BY DEF Metered, Numbers, Marks, Streaming
<1>5. Generated' BY DEF Generated, Numbers
<1>6. Searched' BY DEF Searched, Numbers
<1>7. ChargedOnce' BY DEF ChargedOnce, Settled
<1>8. Told' BY DEF Told, Marks
<1> QED BY <1>1, <1>2, <1>3, <1>4, <1>5, <1>6, <1>7, <1>8

LEMMA FinishSearchKeeps == TurnInv /\ FinishSearch => TurnInv'
<1> SUFFICES ASSUME TurnInv, FinishSearch PROVE TurnInv' OBVIOUS
<1> USE TurnAssumption DEF TurnInv, FinishSearch, NextCall, streamVars, resultVars, learnerVars, meterVars
<1>0. /\ result'.usage = result.usage
      /\ \/ result'.searches = result.searches + 1 /\ served' = served + 1
         \/ result'.searches = result.searches /\ served' \in {served, served + 1}
  BY DEF Numbers
<1>1. Numbers' BY <1>0 DEF Numbers
<1>2. Marks' BY DEF Marks
<1>3. CallsOK' BY DEF CallsOK, Tools
<1>4. Metered' BY <1>0 DEF Metered, Numbers, Marks, Streaming
<1>5. Generated' BY DEF Generated, Numbers
<1>6. Searched' BY <1>0 DEF Searched, Numbers
<1>7. ChargedOnce' BY DEF ChargedOnce, Settled
<1>8. Told' BY DEF Told, Marks
<1> QED BY <1>1, <1>2, <1>3, <1>4, <1>5, <1>6, <1>7, <1>8

LEMMA NextRoundKeeps == TurnInv /\ NextRound => TurnInv'
<1> SUFFICES ASSUME TurnInv, NextRound PROVE TurnInv' OBVIOUS
<1> USE TurnAssumption DEF TurnInv, NextRound, streamVars, resultVars, learnerVars, meterVars
<1>1. Numbers' BY DEF Numbers, Searched
<1>2. Marks' BY DEF Marks
<1>3. CallsOK' BY DEF CallsOK, Tools
<1>4. Metered' BY DEF Metered, Numbers, Marks, Streaming
<1>5. Generated' BY DEF Generated, Numbers
<1>6. Searched' BY DEF Searched, Numbers
<1>7. ChargedOnce' BY DEF ChargedOnce, Settled
<1>8. Told' BY DEF Told, Marks
<1> QED BY <1>1, <1>2, <1>3, <1>4, <1>5, <1>6, <1>7, <1>8

LEMMA EmitDoneKeeps == TurnInv /\ EmitDone => TurnInv'
<1> SUFFICES ASSUME TurnInv, EmitDone PROVE TurnInv' OBVIOUS
<1> USE TurnAssumption DEF TurnInv, EmitDone, Return, Delivered, Undeliverable, streamVars, resultVars, learnerVars, meterVars
<1>1. Numbers' BY DEF Numbers
<1>2. Marks' BY DEF Marks
<1>3. CallsOK' BY DEF CallsOK, Tools
<1>4. Metered' BY DEF Metered, Numbers, Marks, Streaming
<1>5. Generated' BY DEF Generated, Numbers
<1>6. Searched' BY DEF Searched, Numbers
<1>7. ChargedOnce' BY DEF ChargedOnce, Settled
<1>8. Told' BY DEF Told, Marks
<1> QED BY <1>1, <1>2, <1>3, <1>4, <1>5, <1>6, <1>7, <1>8

LEMMA ChargeKeeps == TurnInv /\ Charge => TurnInv'
<1> SUFFICES ASSUME TurnInv, Charge PROVE TurnInv' OBVIOUS
<1> USE TurnAssumption DEF TurnInv, Charge, streamVars, resultVars, learnerVars, meterVars
<1>1. Numbers' BY DEF Numbers
<1>2. Marks' BY DEF Marks
<1>3. CallsOK' BY DEF CallsOK, Tools
<1>4. Metered' BY DEF Metered, Numbers, Marks, Streaming
<1>5. Generated' BY DEF Generated, Numbers
<1>6. Searched' BY DEF Searched, Numbers
<1>7. ChargedOnce' BY DEF ChargedOnce, Settled
<1>8. Told' BY DEF Told, Marks
<1> QED BY <1>1, <1>2, <1>3, <1>4, <1>5, <1>6, <1>7, <1>8

LEMMA CloseKeeps == TurnInv /\ Close => TurnInv'
<1> SUFFICES ASSUME TurnInv, Close PROVE TurnInv' OBVIOUS
<1> USE TurnAssumption DEF TurnInv, Close, Delivered, Undeliverable, streamVars, resultVars, learnerVars, meterVars
<1>1. Numbers' BY DEF Numbers
<1>2. Marks' BY DEF Marks
<1>3. CallsOK' BY DEF CallsOK, Tools
<1>4. Metered' BY DEF Metered, Numbers, Marks, Streaming
<1>5. Generated' BY DEF Generated, Numbers
<1>6. Searched' BY DEF Searched, Numbers
<1>7. ChargedOnce' BY DEF ChargedOnce, Settled
<1>8. Told'
  <2>1. stage = "closing" /\ stage' = "over" /\ runErr' = runErr
        /\ sinkBroken' = sinkBroken /\ client' = client
    OBVIOUS
  <2>2. terminal = IF runErr THEN << >> ELSE << "done" >> BY DEF Told
  <2>3. CASE UNCHANGED terminal /\ (~runErr \/ client = "gone")
    BY <2>1, <2>2, <2>3 DEF Told
  <2>4. CASE runErr /\ terminal' = Append(terminal, "error")
    <3>1. Append(<< >>, "error") = << "error" >> OBVIOUS
    <3> QED BY <2>1, <2>2, <2>4, <3>1 DEF Told
  <2> QED BY <2>3, <2>4 DEF Told
<1> QED BY <1>1, <1>2, <1>3, <1>4, <1>5, <1>6, <1>7, <1>8

LEMMA ExpireKeeps == TurnInv /\ DeadlinePasses => TurnInv'
<1> SUFFICES ASSUME TurnInv, DeadlinePasses PROVE TurnInv' OBVIOUS
<1> USE TurnAssumption DEF TurnInv, DeadlinePasses, streamVars, resultVars, learnerVars, meterVars
<1>1. Numbers' BY DEF Numbers
<1>2. Marks' BY DEF Marks
<1>3. CallsOK' BY DEF CallsOK, Tools
<1>4. Metered' BY DEF Metered, Numbers, Marks, Streaming
<1>5. Generated' BY DEF Generated, Numbers
<1>6. Searched' BY DEF Searched, Numbers
<1>7. ChargedOnce' BY DEF ChargedOnce, Settled
<1>8. Told' BY DEF Told, Marks
<1> QED BY <1>1, <1>2, <1>3, <1>4, <1>5, <1>6, <1>7, <1>8

LEMMA ClientStallsKeeps == TurnInv /\ ClientStalls => TurnInv'
<1> SUFFICES ASSUME TurnInv, ClientStalls PROVE TurnInv' OBVIOUS
<1> USE TurnAssumption DEF TurnInv, ClientStalls, ClientBecomes, streamVars, resultVars, learnerVars, meterVars
<1>1. Numbers' BY DEF Numbers
<1>2. Marks' BY DEF Marks
<1>3. CallsOK' BY DEF CallsOK, Tools
<1>4. Metered' BY DEF Metered, Numbers, Marks, Streaming
<1>5. Generated' BY DEF Generated, Numbers
<1>6. Searched' BY DEF Searched, Numbers
<1>7. ChargedOnce' BY DEF ChargedOnce, Settled
<1>8. Told' BY DEF Told, Marks
<1> QED BY <1>1, <1>2, <1>3, <1>4, <1>5, <1>6, <1>7, <1>8

LEMMA ClientResumesKeeps == TurnInv /\ ClientResumes => TurnInv'
<1> SUFFICES ASSUME TurnInv, ClientResumes PROVE TurnInv' OBVIOUS
<1> USE TurnAssumption DEF TurnInv, ClientResumes, ClientBecomes, streamVars, resultVars, learnerVars, meterVars
<1>1. Numbers' BY DEF Numbers
<1>2. Marks' BY DEF Marks
<1>3. CallsOK' BY DEF CallsOK, Tools
<1>4. Metered' BY DEF Metered, Numbers, Marks, Streaming
<1>5. Generated' BY DEF Generated, Numbers
<1>6. Searched' BY DEF Searched, Numbers
<1>7. ChargedOnce' BY DEF ChargedOnce, Settled
<1>8. Told' BY DEF Told, Marks
<1> QED BY <1>1, <1>2, <1>3, <1>4, <1>5, <1>6, <1>7, <1>8

LEMMA ClientLeavesKeeps == TurnInv /\ ClientLeaves => TurnInv'
<1> SUFFICES ASSUME TurnInv, ClientLeaves PROVE TurnInv' OBVIOUS
<1> USE TurnAssumption DEF TurnInv, ClientLeaves, ClientBecomes, streamVars, resultVars, learnerVars, meterVars
<1>1. Numbers' BY DEF Numbers
<1>2. Marks' BY DEF Marks
<1>3. CallsOK' BY DEF CallsOK, Tools
<1>4. Metered' BY DEF Metered, Numbers, Marks, Streaming
<1>5. Generated' BY DEF Generated, Numbers
<1>6. Searched' BY DEF Searched, Numbers
<1>7. ChargedOnce' BY DEF ChargedOnce, Settled
<1>8. Told' BY DEF Told, Marks
<1> QED BY <1>1, <1>2, <1>3, <1>4, <1>5, <1>6, <1>7, <1>8
-----------------------------------------------------------------------------
LEMMA StepKeepsTurn == ASSUME TurnInv, [TurnNext]_turnVars PROVE TurnInv'
<1>1. CASE Serve
  BY <1>1, AskKeeps, EmitDeltaKeeps, ToolUndeliverableKeeps, RunToolKeeps,
     StartSearchKeeps, FinishSearchKeeps, NextRoundKeeps, EmitDoneKeeps,
     ChargeKeeps, CloseKeeps DEF Serve
<1>2. CASE Stream
  BY <1>2, ReceiveTextKeeps, ReceiveCallKeeps, ReceiveFinishKeeps,
     StreamBreaksKeeps, CompleteRoundKeeps DEF Stream
<1>3. CASE DeadlinePasses \/ ClientStalls \/ ClientResumes \/ ClientLeaves
  BY <1>3, ExpireKeeps, ClientStallsKeeps, ClientResumesKeeps, ClientLeavesKeeps
<1>4. CASE UNCHANGED turnVars
  BY <1>4 DEF turnVars, streamVars, resultVars, learnerVars, meterVars, TurnInv,
     Numbers, Marks, CallsOK, Metered, Generated, Searched, ChargedOnce, Told,
     Streaming, Settled
<1> QED BY <1>1, <1>2, <1>3, <1>4 DEF TurnNext

LEMMA TurnInvariant == TurnSpec => []TurnInv
BY TurnBegins, StepKeepsTurn, PTL DEF TurnSpec

(* Rounds of at most MaxChunks make turns of at most MaxRounds * MaxChunks. *)
LEMMA Bounded == TurnInv => TurnTypeOK
<1> SUFFICES ASSUME TurnInv PROVE TurnTypeOK OBVIOUS
<1> USE TurnAssumption DEF TurnInv
<1>1. (round - 1) * MaxChunks + MaxChunks <= MaxRounds * MaxChunks
  <2>1. round \in Nat /\ round <= MaxRounds BY DEF Numbers
  <2>2. ASSUME NEW a \in Nat, NEW b \in Nat, NEW c \in Nat, a <= b
        PROVE  (a - 1) * c + c <= b * c
    <3>1. (a - 1) * c + c = a * c BY SMT
    <3>2. PICK d \in Nat : b = a + d BY <2>2
    <3>3. b * c = a * c + d * c BY <3>2
    <3>4. d * c >= 0 OBVIOUS
    <3> QED BY <3>1, <3>3, <3>4
  <2> QED BY <2>1, <2>2
<1>2. produced <= MaxChunks /\ usage <= produced BY DEF Numbers, Metered
<1>3. burned <= MaxRounds * MaxChunks
  <2>1. burned <= (round - 1) * MaxChunks + MaxChunks
    <3>1. (round - 1) * MaxChunks \in Int BY DEF Numbers
    <3> QED BY <1>2, <3>1 DEF Generated, Numbers
  <2>2. MaxRounds * MaxChunks \in Int /\ (round - 1) * MaxChunks \in Int
    BY DEF Numbers
  <2> QED BY <1>1, <2>1, <2>2 DEF Numbers
<1>4. MaxChunks <= MaxRounds * MaxChunks
  <2>1. ASSUME NEW b \in Nat \ {0}, NEW c \in Nat PROVE c <= b * c
    <3>1. PICK d \in Nat : b = d + 1 OBVIOUS
    <3>2. b * c = d * c + c BY <3>1
    <3>3. d * c >= 0 OBVIOUS
    <3> QED BY <3>2, <3>3
  <2> QED BY <2>1
<1>5. reported <= burned /\ result.usage <= burned
  BY DEF Metered, Numbers
<1>6. result.searches <= served /\ served <= MaxSearches
  BY DEF Searched, Numbers
<1>7. /\ usage \in Units /\ burned \in Units /\ reported \in Units
      /\ result.usage \in Units
  <2> MaxRounds * MaxChunks \in Int OBVIOUS
  <2> QED BY <1>2, <1>3, <1>4, <1>5 DEF Units, Numbers
<1>8. result \in [usage : Units, searches : 0 .. MaxSearches]
  <2> HIDE DEF Units
  <2> QED BY <1>6, <1>7 DEF Numbers
<1>9. charged \in [usage : Units, searches : 0 .. MaxSearches] \union {NotCharged}
  BY <1>8 DEF ChargedOnce
<1>10. terminal \in Seq({"done", "error"})
  <2>1. terminal \in {<< >>, << "done" >>, << "error" >>} BY DEF Told, Marks
  <2>2. {<< >>, << "done" >>, << "error" >>} \subseteq Seq({"done", "error"})
    OBVIOUS
  <2> QED BY ONLY <2>1, <2>2
<1> HIDE DEF TurnInv
<1> QED
  BY <1>6, <1>7, <1>8, <1>9, <1>10 DEF TurnInv, TurnTypeOK, Numbers, Marks, CallsOK

-----------------------------------------------------------------------------
(* Everything a turn keeps has its type, and its counters their bounds.    *)
THEOREM TypeCorrect == TurnSpec => []TurnTypeOK
BY TurnInvariant, Bounded, PTL

(* Result.Usage: however the turn ended, what it is charged for is what    *)
(* the provider reported.                                                  *)
THEOREM UsageChargedAsReported == TurnSpec => []ReportedUsageCharged
<1>1. TurnInv => ReportedUsageCharged
  BY DEF TurnInv, ReportedUsageCharged, ChargedOnce, Metered, Settled, Streaming
<1> QED BY <1>1, TurnInvariant, PTL

(* A search that was refused or not served is not surcharged.              *)
THEOREM SurchargesWereServed == TurnSpec => []SurchargeOnlyForServed
<1>1. TurnInv => SurchargeOnlyForServed
  BY DEF TurnInv, SurchargeOnlyForServed, Searched
<1> QED BY <1>1, TurnInvariant, PTL

(* However its searches are spread over rounds and fail, a turn is served  *)
(* MaxSearches at most.                                                    *)
THEOREM BudgetIsKept == TurnSpec => []SearchBudgetHolds
<1>1. TurnInv => SearchBudgetHolds
  BY TurnAssumption DEF TurnInv, SearchBudgetHolds, Searched, Numbers
<1> QED BY <1>1, TurnInvariant, PTL

(* The learner is told how the turn ended, once.                           *)
THEOREM LearnerToldOnce == TurnSpec => []ToldOnce
<1>1. TurnInv => ToldOnce
  <2> SUFFICES ASSUME TurnInv PROVE ToldOnce OBVIOUS
  <2>1. terminal \in {<< >>, << "done" >>, << "error" >>}
    BY DEF TurnInv, Told, Marks
  <2>2. Len(terminal) <= 1 BY <2>1
  <2>3. stage = "over" /\ client = "reading" =>
            terminal = << IF runErr THEN "error" ELSE "done" >>
    BY DEF TurnInv, Told
  <2> QED BY <2>2, <2>3 DEF ToldOnce
<1> QED BY <1>1, TurnInvariant, PTL

(* No search is served in a round whose results nothing will carry.        *)
THEOREM SearchesAreRead == TurnSpec => SearchIsRead
<1>1. TurnInv /\ [TurnNext]_turnVars => [served' # served => round < MaxRounds]_turnVars
  <2> SUFFICES ASSUME TurnInv, [TurnNext]_turnVars, served' # served
               PROVE  round < MaxRounds
    OBVIOUS
  <2>1. FinishSearch
    BY DEF TurnNext, Serve, Stream, Ask, ReceiveText, ReceiveCall, Generate,
       ReceiveFinish, EmitDelta, StreamBreaks, CompleteRound, ToolUndeliverable,
       RunTool, StartSearch, NextRound, EmitDone, Charge, Close, DeadlinePasses,
       ClientStalls, ClientResumes, ClientLeaves, ClientBecomes, meterVars, turnVars
  <2> QED BY <2>1 DEF FinishSearch, TurnInv, Searched
<1> QED BY <1>1, TurnInvariant, PTL DEF TurnSpec, SearchIsRead

=============================================================================
