------------------------------ MODULE AgentTurn ------------------------------
(***************************************************************************)
(* One turn of POST /ai/chat after the status line is sent: streamTurn     *)
(* (internal/ai/handler.go), the agent loop RunStream and the client       *)
(* CompleteStream (internal/ai/stream.go), the web_search tool's budget    *)
(* (internal/ai/tool_search.go), and the charge that follows on every      *)
(* exit. Around them, as the code meets them: the model provider, which    *)
(* may stall, break or misbehave at any chunk; the search provider; the    *)
(* learner's connection, which may stall or be gone; the turn's deadline.  *)
(***************************************************************************)
EXTENDS Integers, Sequences

CONSTANTS
    MaxRounds,      \* ai_settings.max_tool_rounds_per_turn
    MaxSearches,    \* DefaultMaxSearchesPerTurn
    MaxChunks       \* bound: chunks of text or tool calls in one round

ASSUME TurnAssumption ==
    /\ MaxRounds \in Nat \ {0} /\ MaxSearches \in Nat /\ MaxChunks \in Nat

(* What a tool call may ask for: web_search, any other tool of the turn,   *)
(* or a tool that is unknown or not enabled.                               *)
Tools == {"web_search", "course", "unavailable"}

VARIABLES
    stage,      \* where streamTurn and what it calls are
    round,      \* RunStream's loop counter
    \* CompleteStream's locals, and the tool calls still to be run
    text,       \* some content arrived
    calls,      \* tool calls assembled, then those not run yet
    finish,     \* finish_reason, "none" before the last chunk
    usage,      \* the usage object of the last chunk, 0 before it
    \* RunStream's Result, and what streamTurn keeps of its error
    result,     \* [usage, searches]
    runErr,
    sinkBroken,
    \* the searchTool of this turn
    searchCalls,    \* searchTool.calls
    \* the charge
    charged,    \* the Result given to ChargeTurn, or NotCharged
    \* the world
    expired,    \* the turn's context passed its deadline
    client,     \* the learner's connection
    terminal,   \* the terminal events the learner received
    produced,   \* units the provider generated in this round
    burned,     \* units the provider generated in the turn
    reported,   \* units the provider reported to the server in the turn
    served      \* searches the search provider served

resultVars == <<result, runErr, sinkBroken, charged>>
streamVars == <<text, calls, finish, usage, produced>>
meterVars == <<burned, reported, served>>
learnerVars == <<client, terminal>>
turnVars == <<stage, round, streamVars, resultVars, searchCalls, expired,
              learnerVars, meterVars>>

NotCharged == [usage |-> -1, searches |-> -1]

InitTurn ==
    /\ stage = "asking" /\ round = 1
    /\ text = FALSE /\ calls = << >> /\ finish = "none" /\ usage = 0
    /\ result = [usage |-> 0, searches |-> 0]
    /\ runErr = FALSE /\ sinkBroken = FALSE
    /\ searchCalls = 0
    /\ charged = NotCharged
    /\ expired = FALSE
    /\ client = "reading" /\ terminal = << >>
    /\ produced = 0 /\ burned = 0 /\ reported = 0 /\ served = 0

IsLastRound == round = MaxRounds

-----------------------------------------------------------------------------
(* Leaving RunStream.                                                      *)

(* RunStream returns; its own "error" event is swallowed by the sink. *)
Return(failed, broken) ==
    /\ stage' = "charging"
    /\ runErr' = failed /\ sinkBroken' = broken
    /\ UNCHANGED charged

(* Mutant: usage is added up only when the round succeeded. *)
FailRoundUnpaid(broken) ==
    /\ UNCHANGED result
    /\ Return(TRUE, broken)

(* A round failed: the usage its stream reported is added up nonetheless. *)
FailRound(broken) ==
    /\ result' = [result EXCEPT !.usage = @ + usage]
    /\ Return(TRUE, broken)

(* Every write flushes. It waits while the learner reads nothing and       *)
(* fails once the connection is gone.                                      *)
Delivered == client = "reading"
Undeliverable == client = "gone"

-----------------------------------------------------------------------------
(* CompleteStream.                                                         *)

(* The request is sent: headers arrive, or an error (an HTTP status other  *)
(* than 200, no connection, the context over) before anything is read.     *)
Ask ==
    /\ stage = "asking"
    /\ text' = FALSE /\ calls' = << >> /\ finish' = "none" /\ usage' = 0
    /\ produced' = 0
    /\ \/ ~expired /\ stage' = "streaming" /\ UNCHANGED resultVars
       \/ Return(TRUE, FALSE) /\ UNCHANGED result
    /\ UNCHANGED <<round, searchCalls, expired, learnerVars, meterVars>>

(* The provider generates, and bills, as it sends. *)
Generate ==
    /\ stage = "streaming" /\ finish = "none" /\ produced < MaxChunks
    /\ produced' = produced + 1
    /\ burned' = burned + 1
    /\ UNCHANGED <<round, finish, usage, resultVars, searchCalls, expired,
                   learnerVars, reported, served>>

(* A content fragment, which onDelta has yet to write to the learner. *)
ReceiveText ==
    /\ Generate
    /\ text' = TRUE /\ stage' = "delta"
    /\ UNCHANGED calls

EmitDelta ==
    /\ stage = "delta"
    /\ \/ Delivered /\ stage' = "streaming" /\ UNCHANGED resultVars
       \/ Undeliverable /\ FailRound(TRUE)
    /\ UNCHANGED <<round, streamVars, searchCalls, expired, learnerVars,
                   meterVars>>

(* A tool call; nothing makes the provider keep to ToolChoiceNone. *)
ReceiveCall ==
    /\ Generate
    /\ \E tool \in Tools : calls' = Append(calls, tool)
    /\ UNCHANGED <<text, stage>>

(* The last chunk: the reason it stops, and, usually, the usage. *)
ReceiveFinish ==
    /\ stage = "streaming" /\ finish = "none"
    /\ finish' \in {"stop", "length", "tool_calls"}
    /\ usage' \in {0, produced}
    /\ reported' = reported + usage'
    /\ UNCHANGED <<stage, round, text, calls, produced, resultVars,
                   searchCalls, expired, learnerVars, burned, served>>

(* The stream is cut: connection error, malformed chunk, no [DONE], the    *)
(* idle watchdog, the total budget, or the turn's deadline.                *)
StreamBreaks ==
    /\ stage = "streaming"
    /\ FailRound(FALSE)
    /\ UNCHANGED <<round, streamVars, searchCalls, expired, learnerVars,
                   meterVars>>

(* The answer as it stands is the answer of the turn, and there is none:   *)
(* the last round asked for tools again, or ran out of tokens.             *)
NoAnswer ==
    ~text /\ ((IsLastRound /\ calls # << >>) \/ finish = "length")

(* Mutant: the last round's tool calls are run like any other round's. *)
CompleteRoundOnceMore ==
    /\ stage = "streaming"
    /\ \/ finish = "length" /\ calls # << >> /\ FailRound(FALSE)
       \/ /\ ~(finish = "length" /\ calls # << >>)
          /\ result' = [result EXCEPT !.usage = @ + usage]
          /\ IF calls = << >>
             THEN IF NoAnswer THEN Return(TRUE, FALSE)
                  ELSE /\ stage' = "done"
                       /\ UNCHANGED <<runErr, sinkBroken, charged>>
             ELSE stage' = "tools" /\ UNCHANGED <<runErr, sinkBroken, charged>>
    /\ UNCHANGED <<round, streamVars, searchCalls, expired, learnerVars,
                   meterVars>>

(* [DONE], with or without a last chunk before it. Tool calls cut by the   *)
(* token limit fail the round in CompleteStream; otherwise RunStream       *)
(* decides whether the turn is over.                                       *)
CompleteRound ==
    /\ stage = "streaming"
    /\ \/ finish = "length" /\ calls # << >> /\ FailRound(FALSE)
       \/ /\ ~(finish = "length" /\ calls # << >>)
          /\ result' = [result EXCEPT !.usage = @ + usage]
          /\ IF IsLastRound \/ calls = << >>
             THEN IF NoAnswer THEN Return(TRUE, FALSE)
                  ELSE /\ stage' = "done"
                       /\ UNCHANGED <<runErr, sinkBroken, charged>>
             ELSE stage' = "tools" /\ UNCHANGED <<runErr, sinkBroken, charged>>
    /\ UNCHANGED <<round, streamVars, searchCalls, expired, learnerVars,
                   meterVars>>

-----------------------------------------------------------------------------
(* The tool loop.                                                          *)

NextCall == calls' = Tail(calls) /\ stage' = "tools"

(* The "tool" event fails: RunStream returns with the emit error. *)
ToolUndeliverable ==
    /\ stage = "tools" /\ calls # << >> /\ Undeliverable
    /\ Return(TRUE, TRUE)
    /\ UNCHANGED <<round, streamVars, result, searchCalls, expired,
                   learnerVars, meterVars>>

(* A course tool's result or error, and the refusal of a tool that is not  *)
(* available, are text for the model.                                      *)
RunTool ==
    /\ stage = "tools" /\ calls # << >> /\ Delivered
    /\ Head(calls) # "web_search"
    /\ NextCall
    /\ UNCHANGED <<round, text, finish, usage, produced, resultVars,
                   searchCalls, expired, learnerVars, meterVars>>

(* Mutant: the call is counted where the answer comes back. *)
StartSearchUncounted ==
    /\ stage = "tools" /\ calls # << >> /\ Delivered
    /\ Head(calls) = "web_search"
    /\ \/ NextCall
       \/ /\ result.searches < MaxSearches
          /\ stage' = "searching" /\ UNCHANGED calls
    /\ UNCHANGED <<round, text, finish, usage, produced, resultVars,
                   searchCalls, expired, learnerVars, meterVars>>

(* web_search refuses arguments it cannot use and calls over the budget,   *)
(* and counts the call before it makes it.                                 *)
StartSearch ==
    /\ stage = "tools" /\ calls # << >> /\ Delivered
    /\ Head(calls) = "web_search"
    /\ \/ NextCall /\ UNCHANGED searchCalls
       \/ /\ searchCalls < MaxSearches
          /\ searchCalls' = searchCalls + 1
          /\ stage' = "searching" /\ UNCHANGED calls
    /\ UNCHANGED <<round, text, finish, usage, produced, resultVars, expired,
                   learnerVars, meterVars>>

(* Mutant: every call that reached the provider is surcharged. *)
FinishSearchAlwaysBilled ==
    /\ stage = "searching"
    /\ \/ ~expired /\ served' = served + 1
       \/ served' = served + 1
       \/ served' = served
    /\ result' = [result EXCEPT !.searches = @ + 1]
    /\ NextCall
    /\ UNCHANGED <<round, text, finish, usage, produced, runErr, sinkBroken,
                   charged, searchCalls, expired, learnerVars, burned,
                   reported>>

(* The search succeeds and is surcharged; or its answer is lost, to the    *)
(* deadline for one, after the provider served it; or it never served it.  *)
FinishSearch ==
    /\ stage = "searching"
    /\ \/ /\ ~expired
          /\ served' = served + 1
          /\ result' = [result EXCEPT !.searches = @ + 1]
       \/ served' \in {served, served + 1} /\ UNCHANGED result
    /\ NextCall
    /\ UNCHANGED <<round, text, finish, usage, produced, runErr, sinkBroken,
                   charged, searchCalls, expired, learnerVars, burned,
                   reported>>

(* Every call of the round has its answer: the next round. *)
NextRound ==
    /\ stage = "tools" /\ calls = << >>
    /\ round' = round + 1 /\ stage' = "asking"
    /\ UNCHANGED <<streamVars, resultVars, searchCalls, expired, learnerVars,
                   meterVars>>

-----------------------------------------------------------------------------
(* The end of the turn: "done", the charge, and the one error event.       *)

EmitDone ==
    /\ stage = "done"
    /\ \/ /\ Delivered
          /\ terminal' = Append(terminal, "done")
          /\ Return(FALSE, FALSE)
       \/ Undeliverable /\ Return(TRUE, TRUE) /\ UNCHANGED terminal
    /\ UNCHANGED <<round, streamVars, result, searchCalls, expired, client,
                   meterVars>>

(* ChargeTurn, on a context of its own, whatever runErr is. *)
Charge ==
    /\ stage = "charging"
    /\ charged' = result
    /\ stage' = "closing"
    /\ UNCHANGED <<round, streamVars, result, runErr, sinkBroken, searchCalls,
                   expired, learnerVars, meterVars>>

(* Mutant: an error event whenever there is no error to report either. *)
CloseLoudly ==
    /\ stage = "closing" /\ stage' = "over"
    /\ \/ (sinkBroken \/ Undeliverable) /\ UNCHANGED terminal
       \/ /\ ~sinkBroken /\ Delivered
          /\ terminal' = Append(terminal, "error")
    /\ UNCHANGED <<round, streamVars, resultVars, searchCalls, expired, client,
                   meterVars>>

(* The error event, unless the sink is known to be broken. *)
Close ==
    /\ stage = "closing" /\ stage' = "over"
    /\ \/ (~runErr \/ sinkBroken \/ Undeliverable) /\ UNCHANGED terminal
       \/ /\ runErr /\ ~sinkBroken /\ Delivered
          /\ terminal' = Append(terminal, "error")
    /\ UNCHANGED <<round, streamVars, resultVars, searchCalls, expired, client,
                   meterVars>>

-----------------------------------------------------------------------------
(* The world.                                                              *)

(* Mutant: the turn runs on a context without a deadline. *)
DeadlineNever == expired /\ UNCHANGED turnVars

(* context.WithTimeout(context.Background(), turnTimeout): the deadline of *)
(* RunStream alone.                                                        *)
DeadlinePasses ==
    /\ ~expired /\ stage \notin {"charging", "closing", "over"}
    /\ expired' = TRUE
    /\ UNCHANGED <<stage, round, streamVars, resultVars, searchCalls,
                   learnerVars, meterVars>>

ClientBecomes(state) ==
    /\ client' = state
    /\ UNCHANGED <<stage, round, streamVars, resultVars, searchCalls, expired,
                   terminal, meterVars>>

(* The learner's machine stops reading; reads on, or is found gone. *)
ClientStalls == client = "reading" /\ stage # "over" /\ ClientBecomes("stalled")
ClientResumes == client = "stalled" /\ ClientBecomes("reading")
ClientLeaves == client # "gone" /\ stage # "over" /\ ClientBecomes("gone")

(* What the server does by itself, the provider's chunks aside. *)
Serve ==
    \/ Ask \/ EmitDelta
    \/ ToolUndeliverable \/ RunTool \/ StartSearch \/ FinishSearch \/ NextRound
    \/ EmitDone \/ Charge \/ Close

(* What the provider's bytes, or their absence, make it do. *)
Stream ==
    \/ ReceiveText \/ ReceiveCall \/ ReceiveFinish \/ StreamBreaks
    \/ CompleteRound

TurnNext ==
    \/ Serve \/ Stream
    \/ DeadlinePasses \/ ClientStalls \/ ClientResumes \/ ClientLeaves

TurnSpec == InitTurn /\ [][TurnNext]_turnVars

(* The server's goroutine runs, the deadline's timer fires, and a read     *)
(* under a context that is over fails. The provider may send nothing.      *)
ServerFairness ==
    /\ SF_turnVars(Serve)
    /\ WF_turnVars(DeadlinePasses)
    /\ WF_turnVars(expired /\ StreamBreaks)

(* The learner may stop reading, and nothing but the network ends that. *)
TurnServerSpec == TurnSpec /\ ServerFairness

(* A stalled connection is read again or lost. *)
TurnFairSpec ==
    /\ TurnServerSpec
    /\ WF_turnVars(ClientResumes \/ (client = "stalled" /\ ClientLeaves))

-----------------------------------------------------------------------------
(* Properties.                                                             *)

Units == 0 .. MaxRounds * MaxChunks

(* The type invariant. *)
TurnTypeOK ==
    /\ stage \in {"asking", "streaming", "delta", "tools", "searching", "done",
               "charging", "closing", "over"}
    /\ round \in 1 .. MaxRounds
    /\ text \in BOOLEAN /\ calls \in Seq(Tools)
    /\ finish \in {"none", "stop", "length", "tool_calls"}
    /\ usage \in Units /\ produced \in 0 .. MaxChunks
    /\ result \in [usage : Units, searches : 0 .. MaxSearches]
    /\ runErr \in BOOLEAN /\ sinkBroken \in BOOLEAN
    /\ searchCalls \in 0 .. MaxSearches
    /\ charged \in [usage : Units, searches : 0 .. MaxSearches]
                   \union {NotCharged}
    /\ expired \in BOOLEAN
    /\ client \in {"reading", "stalled", "gone"}
    /\ terminal \in Seq({"done", "error"})
    /\ burned \in Units /\ reported \in Units
    /\ served \in 0 .. MaxSearches

(* The contract of Result.Usage: whatever ended the turn (an answer, a     *)
(* failed or cut round, a learner gone, an exhausted tool budget), it is   *)
(* charged for exactly the usage the provider reported, round by round.    *)
ReportedUsageCharged ==
    charged # NotCharged => charged.usage = reported

(* A search is surcharged only if the search provider served it: not one   *)
(* refused, not one that failed.                                           *)
SurchargeOnlyForServed == result.searches <= served

(* The search provider serves one turn at most MaxSearches times, however  *)
(* the calls are spread over rounds and however many of them fail.         *)
SearchBudgetHolds == served <= MaxSearches

(* No paid search in a round whose results no later request can carry.     *)
SearchIsRead == [][served' # served => round < MaxRounds]_turnVars

(* A learner who is still there when the turn is over was told how it      *)
(* ended, once, and rightly; no learner is told twice.                     *)
ToldOnce ==
    /\ Len(terminal) <= 1
    /\ stage = "over" /\ client = "reading" =>
           terminal = << IF runErr THEN "error" ELSE "done" >>

(* Every turn ends, charged, though the provider may fall silent.          *)
TurnEnds == <>(stage = "over" /\ charged # NotCharged)

(* chargeTimeout's comment: a turn cut off by the deadline "must still be  *)
(* billed for what it burned". Stated of a turn that fails within a round, *)
(* its deadline over and the round's last chunk still to come.             *)
CutOffTurnBilled ==
    charged # NotCharged /\ expired /\ runErr /\ finish = "none" =>
        charged.usage = burned

(* DefaultTurnTimeout's comment: "the ceiling on ONE TURN".                *)
TurnEndsByDeadline == expired ~> stage = "over"

=============================================================================
