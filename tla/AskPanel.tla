------------------------------ MODULE AskPanel ------------------------------
(***************************************************************************)
(* Asking about a chapter: the thread that ai/useAI.ts keeps and           *)
(* ai/AskPanel.tsx shows, over the streams ai/serverClient.ts reads. A     *)
(* question opens a call of its own and aborts the one before; what an     *)
(* aborted call still delivers must not reach the thread. A chunk of text  *)
(* is <<call, number>>; the wording of failures is left out, but for       *)
(* NoCredit, which hides the form.                                         *)
(***************************************************************************)
EXTENDS Naturals, Sequences

CONSTANTS
    MaxAsks,        \* bound: questions asked
    MaxTexts,       \* bound: chunks of one answer
    MaxWire,        \* MAX_WIRE_QUESTION_CHARS
    Separator       \* the length of WIRE_CONTEXT_SEPARATOR

ASSUME AskAssumption ==
    /\ MaxAsks \in Nat /\ MaxTexts \in Nat
    /\ Separator \in Nat /\ MaxWire \in Nat /\ MaxWire > Separator

VARIABLES
    turns,          \* the thread, oldest first
    state,          \* what the panel says of it
    current,        \* abortRef: the call that may be aborted, 0 for null
    calls,          \* the calls made, by the id of their turn
    asked           \* nextId

askVars == <<turns, state, current, calls, asked>>

Ids == 1 .. MaxAsks
Unasked == [at |-> "unasked", aborted |-> FALSE, sent |-> 0, read |-> 0, end |-> "open"]

InitAsk ==
    /\ turns = <<>> /\ state = "idle" /\ current = 0 /\ asked = 0
    /\ calls = [c \in Ids |-> Unasked]

-----------------------------------------------------------------------------
(* buildWireQuestion, on lengths: what is sent of a context and a prompt.  *)
Least(a, b) == IF a < b THEN a ELSE b

WireQuestion(context, prompt) ==
    LET p == Least(prompt, MaxWire)
        room == IF MaxWire > Separator + p THEN MaxWire - Separator - p ELSE 0
    IN  IF context = 0 \/ room = 0
        THEN [context |-> 0, prompt |-> p, length |-> p]
        ELSE [context |-> Least(context, room), prompt |-> p,
              length |-> Least(context, room) + Separator + p]

-----------------------------------------------------------------------------
Patch(id, text, failure) ==
    turns' = [i \in DOMAIN turns |->
                 IF turns[i].id # id THEN turns[i]
                 ELSE [turns[i] EXCEPT !.answer = @ \o text, !.failure = failure]]

AbortCurrent == IF current = 0 THEN calls ELSE [calls EXCEPT ![current].aborted = TRUE]

(* needsSetup: without credit there is nothing to ask with. *)
Blocked == turns # <<>> /\ turns[Len(turns)].failure = "NoCredit"

(* ask; the panel offers Stop while an answer comes, the hook allows it. *)
Ask ==
    /\ asked < MaxAsks /\ ~Blocked
    /\ asked' = asked + 1
    /\ calls' = [AbortCurrent EXCEPT ![asked + 1].at = "open"]
    /\ current' = asked + 1
    /\ turns' = Append(turns, [id |-> asked + 1, answer |-> <<>>, failure |-> "none"])
    /\ state' = "streaming"

(* cancel: what came of the answer stays. *)
Cancel ==
    /\ current # 0
    /\ calls' = AbortCurrent /\ current' = 0 /\ state' = "idle"
    /\ UNCHANGED <<turns, asked>>

(* reset; closing the panel aborts and forgets in the same way. *)
Reset ==
    /\ turns # <<>>
    /\ calls' = AbortCurrent /\ current' = 0 /\ state' = "idle" /\ turns' = <<>>
    /\ UNCHANGED asked

-----------------------------------------------------------------------------
(* The server, and the connection. *)

SendText(c) ==
    /\ calls[c].at = "open" /\ calls[c].end = "open" /\ calls[c].sent < MaxTexts
    /\ calls' = [calls EXCEPT ![c].sent = @ + 1]
    /\ UNCHANGED <<turns, state, current, asked>>

(* A done or error event, an answer of another status, a lost connection.  *)
(* Only before any text may the refusal be for lack of credit.             *)
EndAnswer(c, end) ==
    /\ calls[c].at = "open" /\ calls[c].end = "open"
    /\ end = "NoCredit" => calls[c].sent = 0
    /\ calls' = [calls EXCEPT ![c].end = end]
    /\ UNCHANGED <<turns, state, current, asked>>

-----------------------------------------------------------------------------
(* chat and what ask does with it. *)

(* A delta is read; onChunk drops it once the call is aborted. *)
ReadText(c) ==
    /\ calls[c].at = "open" /\ calls[c].read < calls[c].sent
    /\ calls' = [calls EXCEPT ![c].read = @ + 1]
    /\ IF calls[c].aborted THEN UNCHANGED turns
       ELSE Patch(c, <<<<c, calls[c].read + 1>>>>, "none")
    /\ UNCHANGED <<state, current, asked>>

(* Mutant: an aborted call settles like any other. *)
SettleRegardless(c) ==
    /\ calls[c].at = "open"
    /\ calls[c].aborted \/ (calls[c].read = calls[c].sent /\ calls[c].end # "open")
    /\ calls' = [calls EXCEPT ![c].at = "over"]
    /\ current' = IF current = c THEN 0 ELSE current
    /\ IF calls[c].end = "done" THEN state' = "done" /\ UNCHANGED turns
       ELSE /\ state' = "error"
            /\ Patch(c, <<>>, IF calls[c].end = "NoCredit" THEN "NoCredit" ELSE "other")
    /\ UNCHANGED asked

(* chat returns or throws: at its last event, or at once when aborted. *)
Settle(c) ==
    /\ calls[c].at = "open"
    /\ calls[c].aborted \/ (calls[c].read = calls[c].sent /\ calls[c].end # "open")
    /\ calls' = [calls EXCEPT ![c].at = "over"]
    /\ current' = IF current = c THEN 0 ELSE current
    /\ CASE calls[c].aborted -> UNCHANGED <<turns, state>>
         [] ~calls[c].aborted /\ calls[c].end = "done" -> state' = "done" /\ UNCHANGED turns
         [] OTHER ->
              /\ state' = "error"
              /\ Patch(c, <<>>, IF calls[c].end = "NoCredit" THEN "NoCredit" ELSE "other")
    /\ UNCHANGED asked

AskNext ==
    \/ Ask \/ Cancel \/ Reset
    \/ \E c \in Ids :
          \/ SendText(c) \/ ReadText(c) \/ Settle(c)
          \/ \E end \in {"done", "failed", "NoCredit"} : EndAnswer(c, end)

AskSpec == InitAsk /\ [][AskNext]_askVars

-----------------------------------------------------------------------------
Turn ==
    [id : Ids, answer : Seq(Ids \X (1 .. MaxTexts)), failure : {"none", "NoCredit", "other"}]

AskTypeOK ==
    /\ turns \in Seq(Turn) /\ Len(turns) <= MaxAsks
    /\ state \in {"idle", "streaming", "done", "error"}
    /\ current \in 0 .. MaxAsks /\ asked \in 0 .. MaxAsks
    /\ calls \in [Ids -> [at : {"unasked", "open", "over"}, aborted : BOOLEAN,
                          sent : 0 .. MaxTexts, read : 0 .. MaxTexts,
                          end : {"open", "done", "failed", "NoCredit"}]]

(* The thread tells how every question fared, whatever aborted calls still *)
(* delivered: an answer holds its own call's text, in order and without a  *)
(* gap; the panel waits exactly while the call of the last question is     *)
(* open and wanted; it says done only of a whole answer, and an answer     *)
(* that is not whole either was stopped by the learner or says it failed.  *)
ThreadIsTrue ==
    /\ \A i \in DOMAIN turns :
          LET t == turns[i] c == calls[turns[i].id] IN
          /\ \A j \in DOMAIN t.answer : t.answer[j] = <<t.id, j>>
          /\ ~c.aborted => Len(t.answer) = c.read
          /\ (c.at = "over" /\ ~c.aborted /\ t.failure = "none") =>
                c.end = "done" /\ Len(t.answer) = c.sent
    /\ state = "idle" <=> (current = 0 /\ (turns = <<>> \/ calls[turns[Len(turns)].id].aborted))
    /\ state = "streaming" <=> current # 0
    /\ current # 0 => /\ turns # <<>> /\ turns[Len(turns)].id = current
                      /\ calls[current].at = "open" /\ ~calls[current].aborted
    /\ state = "done" => calls[turns[Len(turns)].id].end = "done"
    /\ state = "error" <=> (turns # <<>> /\ turns[Len(turns)].failure # "none")

(* A question is sent whole unless it alone is too long; only the context  *)
(* gives way, and nothing is sent that the server would refuse as too long. *)
WireFits ==
    \A context, prompt \in 0 .. MaxWire + 2 :
        LET w == WireQuestion(context, prompt) IN
        /\ w.length <= MaxWire
        /\ w.prompt = Least(prompt, MaxWire)
        /\ context + Separator + prompt <= MaxWire => w.context = context

=============================================================================
