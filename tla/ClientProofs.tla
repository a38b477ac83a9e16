---------------------------- MODULE ClientProofs ----------------------------
(***************************************************************************)
(* What the client shows of the server's answers, whatever order they come *)
(* in: the thread of the Ask panel, for any number of questions and chunks;*)
(* the forms, for any texts, contents, policies and learners; the pages    *)
(* that keep what they were last told, for any years, courses, stories,    *)
(* scenes and messages; and the chapter on screen. Each part has an        *)
(* invariant of its own.                                                   *)
(***************************************************************************)
EXTENDS AskPanel, WebPages, ReaderPage, WellFoundedInduction, TLAPS
LOCAL INSTANCE Functions

ATurn == [id : Ids, answer : Seq(Ids \X Nat), failure : {"none", "NoCredit", "other"}]
ACall == [at : {"unasked", "open", "over"}, aborted : BOOLEAN, sent : Nat, read : Nat,
          end : {"open", "done", "failed", "NoCredit"}]

Shapes ==
    /\ turns \in Seq(ATurn)
    /\ state \in {"idle", "streaming", "done", "error"}
    /\ current \in 0 .. MaxAsks /\ asked \in 0 .. MaxAsks
    /\ calls \in [Ids -> ACall]

(* Each turn is of a question of its own, the last one of the last. *)
Ordered ==
    /\ \A i \in 1 .. Len(turns) : turns[i].id <= asked
    /\ \A i, j \in 1 .. Len(turns) : turns[i].id = turns[j].id => i = j
    /\ turns # <<>> => turns[Len(turns)].id = asked

(* The only call that is open and wanted is the current one, and the last. *)
Calls ==
    /\ \A c \in Ids :
          /\ c > asked => calls[c] = Unasked
          /\ c <= asked => calls[c].at # "unasked"
          /\ (calls[c].at = "open" /\ ~calls[c].aborted) => c = current
          /\ (calls[c].at = "over" /\ ~calls[c].aborted) =>
                calls[c].read = calls[c].sent /\ calls[c].end # "open"
    /\ current # 0 => /\ current = asked /\ turns # <<>>
                      /\ calls[current].at = "open" /\ ~calls[current].aborted

(* What a turn says of its call. *)
Tells(t, c) ==
    /\ \A j \in 1 .. Len(t.answer) : t.answer[j] = <<t.id, j>>
    /\ ~c.aborted => Len(t.answer) = c.read
    /\ (c.at = "over" /\ ~c.aborted /\ t.failure = "none") => c.end = "done"
    /\ t.failure # "none" => c.at = "over" /\ ~c.aborted

Answered == \A i \in 1 .. Len(turns) : Tells(turns[i], calls[turns[i].id])

(* What the panel says, of the last turn. *)
Says ==
    LET newest == turns[Len(turns)] IN
    /\ state = "streaming" <=> current # 0
    /\ state = "idle" => turns = <<>> \/ calls[newest.id].aborted
    /\ state = "done" => /\ turns # <<>> /\ newest.failure = "none"
                         /\ calls[newest.id].at = "over" /\ ~calls[newest.id].aborted
    /\ state = "error" => turns # <<>> /\ newest.failure # "none"

AskInv == Shapes /\ Ordered /\ Calls /\ Answered /\ Says

-----------------------------------------------------------------------------
LEMMA TurnShape ==
    ASSUME Shapes, NEW i \in 1 .. Len(turns)
    PROVE  /\ turns[i] \in ATurn
           /\ turns[i].id \in Ids /\ turns[i].id \in Nat
           /\ turns[i].answer \in Seq(Ids \X Nat)
           /\ Len(turns[i].answer) \in Nat
<1>1. turns[i] \in ATurn
  BY DEF Shapes
<1> QED BY <1>1, AskAssumption DEF ATurn, Ids

LEMMA LastTurn ==
    ASSUME Shapes
    PROVE  /\ Len(turns) \in Nat
           /\ turns # <<>> => Len(turns) \in 1 .. Len(turns)
  BY DEF Shapes

LEMMA OneMore ==
    ASSUME NEW S, NEW s \in Seq(S), NEW e \in S
    PROVE  /\ Len(s \o <<e>>) = Len(s) + 1
           /\ (s \o <<e>>)[Len(s) + 1] = e
           /\ \A j \in 1 .. Len(s) : (s \o <<e>>)[j] = s[j]
  OBVIOUS

(* A patch leaves every turn but the one of that id as it was. *)
LEMMA PatchOne ==
    ASSUME turns \in Seq(ATurn), NEW q, NEW s \in Seq(Ids \X Nat),
           NEW f \in {"none", "NoCredit", "other"}, Patch(q, s, f)
    PROVE  /\ turns' \in Seq(ATurn) /\ Len(turns') = Len(turns)
           /\ \A i \in 1 .. Len(turns) :
                 /\ turns'[i].id = turns[i].id
                 /\ turns[i].id # q => turns'[i] = turns[i]
                 /\ turns[i].id = q => /\ turns'[i].answer = turns[i].answer \o s
                                       /\ turns'[i].failure = f
<1>1. /\ DOMAIN turns = 1 .. Len(turns) /\ Len(turns) \in Nat
      /\ \A i \in 1 .. Len(turns) : turns[i] \in ATurn
  OBVIOUS
<1> DEFINE patched(i) == IF turns[i].id # q THEN turns[i]
                         ELSE [turns[i] EXCEPT !.answer = @ \o s, !.failure = f]
<1>2. turns' = [i \in 1 .. Len(turns) |-> patched(i)]
  BY <1>1 DEF Patch
<1>3. ASSUME NEW i \in 1 .. Len(turns)
      PROVE  /\ patched(i).id = turns[i].id
             /\ turns[i].id # q => patched(i) = turns[i]
             /\ turns[i].id = q => /\ patched(i).answer = turns[i].answer \o s
                                   /\ patched(i).failure = f
             /\ patched(i) \in ATurn
  <2>1. turns[i] \in ATurn
    BY <1>1
  <2>2. turns[i].answer \o s \in Seq(Ids \X Nat)
    BY <2>1 DEF ATurn
  <2>3. CASE turns[i].id # q
    BY <2>1, <2>3
  <2>4. CASE turns[i].id = q
    <3>1. patched(i) = [turns[i] EXCEPT !.answer = @ \o s, !.failure = f]
      BY <2>4
    <3> HIDE DEF patched
    <3> QED BY <2>1, <2>2, <2>4, <3>1 DEF ATurn
  <2> QED BY <2>3, <2>4
<1> HIDE DEF patched
<1>4. turns' \in Seq(ATurn) /\ Len(turns') = Len(turns)
  BY <1>1, <1>2, <1>3
<1>5. \A i \in 1 .. Len(turns) : turns'[i] = patched(i)
  BY <1>2
<1> QED BY <1>3, <1>4, <1>5

(* The calls once the current one, if any, is aborted. *)
LEMMA AbortOne ==
    ASSUME Shapes
    PROVE  /\ AbortCurrent \in [Ids -> ACall]
           /\ \A c \in Ids :
                 AbortCurrent[c] = IF c = current
                                   THEN [at |-> calls[c].at, aborted |-> TRUE,
                                         sent |-> calls[c].sent, read |-> calls[c].read,
                                         end |-> calls[c].end]
                                   ELSE calls[c]
<1>1. CASE current = 0
  <2>1. \A c \in Ids : c # current
    BY <1>1 DEF Ids
  <2> QED BY <1>1, <2>1 DEF AbortCurrent, Shapes
<1>2. CASE current # 0
  <2>1. AbortCurrent = [calls EXCEPT ![current].aborted = TRUE]
    BY <1>2 DEF AbortCurrent
  <2>2. calls \in [Ids -> ACall] /\ \A c \in Ids : calls[c] \in ACall
    BY DEF Shapes
  <2>3. ASSUME NEW c \in Ids, c = current
        PROVE  AbortCurrent[c] = [at |-> calls[c].at, aborted |-> TRUE,
                                  sent |-> calls[c].sent, read |-> calls[c].read,
                                  end |-> calls[c].end]
    <3>1. AbortCurrent[c] = [calls[c] EXCEPT !.aborted = TRUE]
      BY <2>1, <2>2, <2>3
    <3> QED BY <2>2, <3>1 DEF ACall
  <2>4. ASSUME NEW c \in Ids, c # current PROVE AbortCurrent[c] = calls[c]
    BY <2>1, <2>2, <2>4
  <2>5. ASSUME NEW c \in Ids PROVE AbortCurrent[c] \in ACall
    <3>1. CASE c = current
      <4>1. calls[c] \in ACall
        BY <2>2
      <4>2. [at |-> calls[c].at, aborted |-> TRUE, sent |-> calls[c].sent,
             read |-> calls[c].read, end |-> calls[c].end] \in ACall
        BY <4>1 DEF ACall
      <4> QED BY <2>3, <3>1, <4>2
    <3>2. CASE c # current
      BY <2>2, <2>4, <3>2
    <3> QED BY <3>1, <3>2
  <2>6. AbortCurrent = [c \in Ids |-> AbortCurrent[c]]
    BY <2>1, <2>2
  <2>7. AbortCurrent \in [Ids -> ACall]
    BY <2>5, <2>6
  <2> QED BY <2>3, <2>4, <2>7
<1> QED BY <1>1, <1>2

-----------------------------------------------------------------------------
LEMMA AskInit == InitAsk => AskInv
<1> SUFFICES ASSUME InitAsk PROVE AskInv
  OBVIOUS
<1>1. MaxAsks \in Nat /\ turns = <<>> /\ Len(turns) = 0
  BY AskAssumption DEF InitAsk
<1>2. Unasked \in ACall
  BY DEF Unasked, ACall
<1>3. Shapes
  BY <1>1, <1>2 DEF Shapes, InitAsk
<1>4. Calls
  BY <1>1 DEF Calls, InitAsk, Unasked, Ids
<1> QED BY <1>1, <1>3, <1>4 DEF AskInv, Ordered, Answered, Says, InitAsk

(* Asking: one question more, the call before aborted. *)
LEMMA AskKeeps == AskInv /\ Ask => AskInv'
<1> SUFFICES ASSUME AskInv, Ask PROVE AskInv'
  OBVIOUS
<1> DEFINE new == asked + 1
           turn == [id |-> new, answer |-> <<>>, failure |-> "none"]
<1>1. /\ new \in Ids /\ asked' = new /\ current' = new /\ state' = "streaming"
      /\ turns' = Append(turns, turn) /\ asked \in 0 .. MaxAsks /\ new # current
      /\ new \in 0 .. MaxAsks
  <2>1. /\ asked < MaxAsks /\ asked' = new /\ current' = new /\ state' = "streaming"
        /\ turns' = Append(turns, turn)
    BY DEF Ask
  <2>2. asked \in 0 .. MaxAsks /\ (current = 0 \/ current = asked)
    BY DEF AskInv, Shapes, Calls
  <2> HIDE DEF turn
  <2> QED BY <2>1, <2>2, AskAssumption DEF Ids
<1>2. calls' = [AbortCurrent EXCEPT ![new].at = "open"]
  BY DEF Ask
<1>3. /\ turn \in ATurn /\ turns \in Seq(ATurn) /\ Len(turns) \in Nat
      /\ Len(turns') = Len(turns) + 1 /\ turns' \in Seq(ATurn) /\ turns' # <<>>
      /\ turns'[Len(turns) + 1] = turn
      /\ \A i \in 1 .. Len(turns) : turns'[i] = turns[i]
  <2>1. turn \in ATurn BY <1>1 DEF ATurn
  <2>2. turns \in Seq(ATurn) /\ turns' = Append(turns, turn) BY <1>1 DEF AskInv, Shapes
  <2> HIDE DEF turn
  <2> QED BY <2>1, <2>2
<1>4. calls[new] = Unasked
  BY <1>1 DEF AskInv, Calls, Ids
<1>5. /\ calls' \in [Ids -> ACall]
      /\ calls'[new] = [at |-> "open", aborted |-> FALSE, sent |-> 0, read |-> 0,
                        end |-> "open"]
      /\ \A c \in Ids \ {new} : calls'[c] = AbortCurrent[c]
  <2>1. AbortCurrent \in [Ids -> ACall] /\ AbortCurrent[new] = Unasked
    BY <1>1, <1>4, AbortOne DEF AskInv
  <2>2. calls'[new] = [at |-> "open", aborted |-> FALSE, sent |-> 0, read |-> 0,
                       end |-> "open"]
    <3> HIDE DEF new
    <3>1. calls'[new] = [Unasked EXCEPT !.at = "open"]
      BY <1>1, <1>2, <2>1
    <3> QED BY <3>1 DEF Unasked
  <2>3. \A c \in Ids \ {new} : calls'[c] = AbortCurrent[c]
    BY <1>2, <2>1
  <2>4. calls'[new] \in ACall
    BY <2>2 DEF ACall
  <2> HIDE DEF new
  <2>5. calls' = [c \in Ids |-> calls'[c]]
    BY <1>2, <2>1
  <2>6. \A c \in Ids : calls'[c] \in ACall
    BY <2>1, <2>3, <2>4
  <2> QED BY <2>2, <2>3, <2>5, <2>6
<1>6. ASSUME NEW c \in Ids, c # new
      PROVE  /\ calls'[c].at = calls[c].at /\ calls'[c].sent = calls[c].sent
             /\ calls'[c].read = calls[c].read /\ calls'[c].end = calls[c].end
             /\ calls'[c].aborted <=> (calls[c].aborted \/ c = current)
             /\ c # current => calls'[c] = calls[c]
  <2>1. calls'[c] = AbortCurrent[c]
    BY <1>5, <1>6
  <2> HIDE DEF new
  <2> QED BY <2>1, AbortOne DEF AskInv
<1> HIDE DEF turn
<1>7. Shapes'
  BY <1>1, <1>3, <1>5 DEF Shapes
<1>8. Ordered'
  <2>1. \A i \in 1 .. Len(turns) : turns'[i].id <= asked /\ turns'[i].id # new
    <3> SUFFICES ASSUME NEW i \in 1 .. Len(turns)
                 PROVE  turns'[i].id <= asked /\ turns'[i].id # new
      OBVIOUS
    <3>1. turns[i].id \in Nat /\ turns[i].id <= asked /\ turns'[i] = turns[i]
      BY <1>3, TurnShape DEF AskInv, Ordered
    <3> QED BY <1>1, <3>1
  <2>2. turns'[Len(turns) + 1].id = new
    BY <1>3 DEF turn
  <2>3. \A i \in 1 .. Len(turns') : turns'[i].id <= new
    <3> SUFFICES ASSUME NEW i \in 1 .. Len(turns') PROVE turns'[i].id <= new
      OBVIOUS
    <3>1. CASE i \in 1 .. Len(turns)
      <4>1. turns[i].id \in Nat /\ turns'[i] = turns[i] /\ turns'[i].id <= asked
        BY <1>3, <2>1, <3>1, TurnShape DEF AskInv
      <4> QED BY <1>1, <4>1
    <3>2. CASE i = Len(turns) + 1
      BY <1>1, <2>2, <3>2
    <3> QED BY <1>3, <3>1, <3>2
  <2>4. \A i, j \in 1 .. Len(turns') : turns'[i].id = turns'[j].id => i = j
    <3> SUFFICES ASSUME NEW i \in 1 .. Len(turns'), NEW j \in 1 .. Len(turns'),
                        turns'[i].id = turns'[j].id
                 PROVE  i = j
      OBVIOUS
    <3> HIDE DEF new
    <3>1. CASE i \in 1 .. Len(turns) /\ j \in 1 .. Len(turns)
      BY <1>3, <3>1 DEF AskInv, Ordered
    <3>2. CASE i \notin 1 .. Len(turns) /\ j \notin 1 .. Len(turns)
      BY <1>3, <3>2
    <3>3. CASE i \in 1 .. Len(turns) /\ j \notin 1 .. Len(turns)
      BY <1>3, <2>1, <2>2, <3>3
    <3>4. CASE i \notin 1 .. Len(turns) /\ j \in 1 .. Len(turns)
      BY <1>3, <2>1, <2>2, <3>4
    <3> QED BY <3>1, <3>2, <3>3, <3>4
  <2> QED BY <1>1, <1>3, <2>2, <2>3, <2>4 DEF Ordered
<1>9. Calls'
  <2>1. ASSUME NEW c \in Ids
        PROVE  /\ c > asked' => calls'[c] = Unasked
               /\ c <= asked' => calls'[c].at # "unasked"
               /\ (calls'[c].at = "open" /\ ~calls'[c].aborted) => c = current'
               /\ (calls'[c].at = "over" /\ ~calls'[c].aborted) =>
                     calls'[c].read = calls'[c].sent /\ calls'[c].end # "open"
    <3>1. CASE c = new
      BY <1>1, <1>5, <3>1 DEF Ids
    <3>2. CASE c # new
      <4>1. /\ c > asked => calls[c] = Unasked
            /\ c <= asked => calls[c].at # "unasked"
            /\ (calls[c].at = "open" /\ ~calls[c].aborted) => c = current
            /\ (calls[c].at = "over" /\ ~calls[c].aborted) =>
                  calls[c].read = calls[c].sent /\ calls[c].end # "open"
        BY DEF AskInv, Calls
      <4>2. c > asked' => c > asked /\ c # current
        BY <1>1 DEF Ids, AskInv, Shapes, Calls
      <4>3. c <= asked' => c <= asked
        BY <1>1, <3>2 DEF Ids
      <4> HIDE DEF new
      <4> QED BY <1>6, <3>2, <4>1, <4>2, <4>3
    <3> QED BY <3>1, <3>2
  <2>2. current' = asked' /\ turns' # <<>> /\ calls'[current'].at = "open"
           /\ ~calls'[current'].aborted
    BY <1>1, <1>3, <1>5
  <2> QED BY <2>1, <2>2 DEF Calls
<1>10. Answered'
  <2>1. ASSUME NEW i \in 1 .. Len(turns) PROVE Tells(turns'[i], calls'[turns'[i].id])
    <3>1. /\ turns'[i] = turns[i] /\ turns[i].id \in Ids /\ turns[i].id # new
          /\ turns[i].id <= asked
      BY <1>1, <1>3, TurnShape DEF AskInv, Ordered
    <3>2. Tells(turns[i], calls[turns[i].id])
      BY DEF AskInv, Answered
    <3>3. turns[i].id = current => calls[turns[i].id].at = "open"
      <4>1. turns[i].id # 0
        BY <3>1 DEF Ids
      <4> QED BY <4>1 DEF AskInv, Calls
    <3> HIDE DEF new
    <3> QED BY <1>6, <3>1, <3>2, <3>3 DEF Tells
  <2>2. Tells(turns'[Len(turns) + 1], calls'[turns'[Len(turns) + 1].id])
    BY <1>3, <1>5 DEF Tells, turn
  <2>3. ASSUME NEW i \in 1 .. Len(turns') PROVE i \in 1 .. Len(turns) \/ i = Len(turns) + 1
    BY <1>3
  <2> QED BY <2>1, <2>2, <2>3 DEF Answered
<1>11. Says'
  BY <1>1 DEF Says, Ids
<1> QED BY <1>7, <1>8, <1>9, <1>10, <1>11 DEF AskInv

(* Stopping, and forgetting. *)
LEMMA StopKeeps == AskInv /\ (Cancel \/ Reset) => AskInv'
<1> SUFFICES ASSUME AskInv, Cancel \/ Reset PROVE AskInv'
  OBVIOUS
<1>1. /\ calls' = AbortCurrent /\ current' = 0 /\ state' = "idle" /\ asked' = asked
      /\ turns' = turns \/ turns' = <<>>
  BY DEF Cancel, Reset
<1>2. /\ calls' \in [Ids -> ACall]
      /\ \A c \in Ids :
            /\ calls'[c].at = calls[c].at /\ calls'[c].sent = calls[c].sent
            /\ calls'[c].read = calls[c].read /\ calls'[c].end = calls[c].end
            /\ calls'[c].aborted <=> (calls[c].aborted \/ c = current)
            /\ c # current => calls'[c] = calls[c]
  BY <1>1, AbortOne DEF AskInv
<1>3. Shapes'
  <2>1. turns' \in Seq(ATurn)
    <3>1. turns \in Seq(ATurn) /\ <<>> \in Seq(ATurn)
      BY DEF AskInv, Shapes
    <3> QED BY <1>1, <3>1
  <2>2. 0 \in 0 .. MaxAsks
    BY AskAssumption
  <2> QED BY <1>1, <1>2, <2>1, <2>2 DEF AskInv, Shapes
<1>4. Ordered'
  BY <1>1 DEF AskInv, Ordered
<1>5. Calls'
  <2>1. \A c \in Ids : c > asked => c # current
    BY DEF AskInv, Shapes, Calls, Ids
  <2> QED BY <1>1, <1>2, <2>1 DEF AskInv, Calls
<1>6. Answered'
  <2> SUFFICES ASSUME NEW i \in 1 .. Len(turns'), turns' = turns
               PROVE  Tells(turns[i], calls'[turns[i].id])
    BY <1>1 DEF Answered
  <2>1. turns[i].id \in Ids /\ Tells(turns[i], calls[turns[i].id])
    BY TurnShape DEF AskInv, Answered
  <2>2. turns[i].id = current => calls[turns[i].id].at = "open"
    <3>1. turns[i].id # 0
      BY <2>1 DEF Ids
    <3> QED BY <3>1 DEF AskInv, Calls
  <2> QED BY <1>2, <2>1, <2>2 DEF Tells
<1>7. Says'
  <2>1. ASSUME turns' # <<>> PROVE calls'[turns'[Len(turns')].id].aborted
    <3>1. turns' = turns /\ turns # <<>> /\ Cancel
      BY <1>1, <2>1 DEF Reset
    <3>2. current # 0 /\ current = asked /\ asked \in Ids /\ turns[Len(turns)].id = asked
      BY <3>1 DEF Cancel, AskInv, Calls, Ordered, Shapes, Ids
    <3> QED BY <1>2, <3>1, <3>2
  <2> QED BY <1>1, <2>1 DEF Says
<1> QED BY <1>3, <1>4, <1>5, <1>6, <1>7 DEF AskInv

(* The server writes, or ends, an answer. *)
LEMMA ServerKeeps ==
    ASSUME AskInv, NEW c \in Ids,
           SendText(c) \/ \E end \in {"done", "failed", "NoCredit"} : EndAnswer(c, end)
    PROVE  AskInv'
<1>1. turns' = turns /\ state' = state /\ current' = current /\ asked' = asked
  BY DEF SendText, EndAnswer
<1>2. calls[c].at = "open" /\ calls \in [Ids -> ACall] /\ calls[c] \in ACall
  BY DEF SendText, EndAnswer, AskInv, Shapes
<1>3. /\ calls' \in [Ids -> ACall]
      /\ \A d \in Ids : d # c => calls'[d] = calls[d]
      /\ calls'[c].at = calls[c].at /\ calls'[c].read = calls[c].read
      /\ calls'[c].aborted = calls[c].aborted
  <2>1. CASE SendText(c)
    <3>1. calls' = [calls EXCEPT ![c].sent = @ + 1]
      BY <2>1 DEF SendText
    <3>2. calls'[c] = [calls[c] EXCEPT !.sent = calls[c].sent + 1]
      BY <1>2, <3>1
    <3>3. calls[c].sent + 1 \in Nat
      BY <1>2 DEF ACall
    <3>4. calls'[c] \in ACall
      BY <1>2, <3>2, <3>3 DEF ACall
    <3>5. \A d \in Ids : d # c => calls'[d] = calls[d]
      BY <1>2, <3>1
    <3>6. calls' = [d \in Ids |-> calls'[d]]
      BY <1>2, <3>1
    <3>7. \A d \in Ids : calls'[d] \in ACall
      BY <1>2, <3>4, <3>5
    <3> QED BY <1>2, <3>2, <3>5, <3>6, <3>7 DEF ACall
  <2>2. CASE \E end \in {"done", "failed", "NoCredit"} : EndAnswer(c, end)
    <3> PICK end \in {"done", "failed", "NoCredit"} : EndAnswer(c, end)
      BY <2>2
    <3>1. calls' = [calls EXCEPT ![c].end = end]
      BY DEF EndAnswer
    <3>2. calls'[c] = [calls[c] EXCEPT !.end = end]
      BY <1>2, <3>1
    <3>3. calls'[c] \in ACall
      BY <1>2, <3>2 DEF ACall
    <3>4. \A d \in Ids : d # c => calls'[d] = calls[d]
      BY <1>2, <3>1
    <3>5. calls' = [d \in Ids |-> calls'[d]]
      BY <1>2, <3>1
    <3>6. \A d \in Ids : calls'[d] \in ACall
      BY <1>2, <3>3, <3>4
    <3> QED BY <1>2, <3>2, <3>4, <3>5, <3>6 DEF ACall
  <2> QED BY <2>1, <2>2
<1>4. Shapes' /\ Ordered'
  BY <1>1, <1>3 DEF AskInv, Shapes, Ordered
<1>5. Calls'
  <2>1. c <= asked
    BY <1>2 DEF AskInv, Calls, Unasked, Shapes, Ids
  <2>2. ASSUME NEW d \in Ids
        PROVE  /\ d > asked => calls'[d] = Unasked
               /\ d <= asked => calls'[d].at # "unasked"
               /\ (calls'[d].at = "open" /\ ~calls'[d].aborted) => d = current
               /\ (calls'[d].at = "over" /\ ~calls'[d].aborted) =>
                     calls'[d].read = calls'[d].sent /\ calls'[d].end # "open"
    <3>1. CASE d = c
      BY <1>2, <1>3, <2>1, <3>1 DEF AskInv, Calls, Shapes, Ids
    <3>2. CASE d # c
      BY <1>3, <3>2 DEF AskInv, Calls
    <3> QED BY <3>1, <3>2
  <2>3. current # 0 => current \in Ids
    BY DEF AskInv, Shapes, Ids
  <2>4. current # 0 => /\ current = asked /\ turns # <<>>
                       /\ calls'[current].at = "open" /\ ~calls'[current].aborted
    BY <1>3, <2>3 DEF AskInv, Calls
  <2> QED BY <1>1, <2>2, <2>4 DEF Calls
<1>6. Answered'
  <2> SUFFICES ASSUME NEW i \in 1 .. Len(turns)
               PROVE  Tells(turns[i], calls'[turns[i].id])
    BY <1>1 DEF Answered
  <2>1. turns[i].id \in Ids /\ Tells(turns[i], calls[turns[i].id])
    BY TurnShape DEF AskInv, Answered
  <2> QED BY <1>2, <1>3, <2>1 DEF Tells
<1>7. Says'
  <2>1. turns # <<>> => turns[Len(turns)].id \in Ids
    BY LastTurn, TurnShape DEF AskInv
  <2> QED BY <1>1, <1>3, <2>1 DEF AskInv, Says
<1> QED BY <1>4, <1>5, <1>6, <1>7 DEF AskInv

(* A chunk is read: into the thread, unless its call was aborted. *)
LEMMA ReadKeeps == ASSUME AskInv, NEW c \in Ids, ReadText(c) PROVE AskInv'
<1> DEFINE chunk == <<<<c, calls[c].read + 1>>>>
<1>1. state' = state /\ current' = current /\ asked' = asked
  BY DEF ReadText
<1>2. /\ calls[c].at = "open" /\ calls \in [Ids -> ACall] /\ calls[c] \in ACall
      /\ calls[c].read + 1 \in Nat
  BY DEF ReadText, AskInv, Shapes, ACall
<1>3. /\ calls' \in [Ids -> ACall]
      /\ \A d \in Ids : d # c => calls'[d] = calls[d]
      /\ calls'[c].at = calls[c].at /\ calls'[c].read = calls[c].read + 1
      /\ calls'[c].aborted = calls[c].aborted
  <2>1. calls' = [calls EXCEPT ![c].read = @ + 1]
    BY DEF ReadText
  <2>2. calls'[c] = [calls[c] EXCEPT !.read = calls[c].read + 1]
    BY <1>2, <2>1
  <2>3. calls'[c] \in ACall
    BY <1>2, <2>2 DEF ACall
  <2>4. \A d \in Ids : d # c => calls'[d] = calls[d]
    BY <1>2, <2>1
  <2>5. calls' = [d \in Ids |-> calls'[d]]
    BY <1>2, <2>1
  <2>6. \A d \in Ids : calls'[d] \in ACall
    BY <1>2, <2>3, <2>4
  <2> QED BY <1>2, <2>2, <2>4, <2>5, <2>6 DEF ACall
<1>4. /\ turns' \in Seq(ATurn) /\ Len(turns') = Len(turns)
      /\ \A i \in 1 .. Len(turns) :
            /\ turns'[i].id = turns[i].id
            /\ (turns[i].id # c \/ calls[c].aborted) => turns'[i] = turns[i]
            /\ (turns[i].id = c /\ ~calls[c].aborted) =>
                  /\ turns'[i].answer = turns[i].answer \o chunk
                  /\ turns'[i].failure = "none"
  <2>1. CASE calls[c].aborted
    BY <2>1 DEF ReadText, AskInv, Shapes
  <2>2. CASE ~calls[c].aborted
    <3>1. Patch(c, chunk, "none")
      BY <2>2 DEF ReadText
    <3>2. chunk \in Seq(Ids \X Nat)
      BY <1>2
    <3>3. turns \in Seq(ATurn)
      BY DEF AskInv, Shapes
    <3> HIDE DEF chunk
    <3>4. /\ turns' \in Seq(ATurn) /\ Len(turns') = Len(turns)
          /\ \A i \in 1 .. Len(turns) :
                /\ turns'[i].id = turns[i].id
                /\ turns[i].id # c => turns'[i] = turns[i]
                /\ turns[i].id = c => /\ turns'[i].answer = turns[i].answer \o chunk
                                      /\ turns'[i].failure = "none"
      BY <3>1, <3>2, <3>3, PatchOne
    <3> QED BY <2>2, <3>4
  <2> QED BY <2>1, <2>2
<1>5. Len(turns) \in Nat /\ (turns' = <<>> <=> turns = <<>>)
  BY <1>4 DEF AskInv, Shapes
<1>6. \A i \in 1 .. Len(turns) :
          /\ turns'[i].id = turns[i].id /\ turns[i].id \in Ids /\ turns[i] \in ATurn
          /\ turns'[i].failure = turns[i].failure
  <2> SUFFICES ASSUME NEW i \in 1 .. Len(turns)
               PROVE  /\ turns'[i].id = turns[i].id /\ turns[i].id \in Ids /\ turns[i] \in ATurn
                      /\ turns'[i].failure = turns[i].failure
    OBVIOUS
  <2>1. turns[i] \in ATurn /\ turns[i].id \in Ids
    BY TurnShape DEF AskInv
  <2>2. turns[i].id = c => turns[i].failure = "none"
    BY <1>2 DEF AskInv, Answered, Tells
  <2> QED BY <1>4, <2>1, <2>2
<1>7. Shapes'
  BY <1>1, <1>3, <1>4 DEF AskInv, Shapes
<1>8. Ordered'
  <2>1. turns # <<>> => Len(turns) \in 1 .. Len(turns)
    BY <1>5 DEF AskInv, Shapes
  <2> QED BY <1>1, <1>4, <1>5, <1>6, <2>1 DEF AskInv, Ordered
<1>9. Calls'
  <2>1. c <= asked
    BY <1>2 DEF AskInv, Calls, Unasked, Shapes, Ids
  <2>2. ASSUME NEW d \in Ids
        PROVE  /\ d > asked => calls'[d] = Unasked
               /\ d <= asked => calls'[d].at # "unasked"
               /\ (calls'[d].at = "open" /\ ~calls'[d].aborted) => d = current
               /\ (calls'[d].at = "over" /\ ~calls'[d].aborted) =>
                     calls'[d].read = calls'[d].sent /\ calls'[d].end # "open"
    <3>1. CASE d = c
      BY <1>2, <1>3, <2>1, <3>1 DEF AskInv, Calls, Shapes, Ids
    <3>2. CASE d # c
      BY <1>3, <3>2 DEF AskInv, Calls
    <3> QED BY <3>1, <3>2
  <2>3. current # 0 => current \in Ids
    BY DEF AskInv, Shapes, Ids
  <2>4. current # 0 => /\ current = asked /\ turns' # <<>>
                       /\ calls'[current].at = "open" /\ ~calls'[current].aborted
    BY <1>3, <1>5, <2>3 DEF AskInv, Calls
  <2> QED BY <1>1, <2>2, <2>4 DEF Calls
<1>10. Answered'
  <2> SUFFICES ASSUME NEW i \in 1 .. Len(turns)
               PROVE  Tells(turns'[i], calls'[turns[i].id])
    BY <1>4, <1>6 DEF Answered
  <2>1. Tells(turns[i], calls[turns[i].id])
    BY DEF AskInv, Answered
  <2>2. CASE turns[i].id # c
    BY <1>3, <1>4, <1>6, <2>1, <2>2
  <2>3. CASE turns[i].id = c /\ calls[c].aborted
    BY <1>2, <1>3, <1>4, <2>1, <2>3 DEF Tells
  <2>4. CASE turns[i].id = c /\ ~calls[c].aborted
    <3> DEFINE answer == turns[i].answer
    <3>1. /\ turns'[i].id = c /\ turns'[i].answer = turns[i].answer \o chunk
          /\ turns'[i].failure = "none"
      BY <1>4, <2>4
    <3>2. answer \in Seq(Ids \X Nat) /\ Len(answer) = calls[c].read
             /\ \A j \in 1 .. Len(answer) : answer[j] = <<c, j>>
      BY <1>6, <2>1, <2>4 DEF Tells, ATurn
    <3>0. turns'[i].answer = answer \o chunk
      BY <3>1
    <3> HIDE DEF answer
    <3>3. /\ Len(answer \o chunk) = Len(answer) + 1
          /\ (answer \o chunk)[Len(answer) + 1] = <<c, calls[c].read + 1>>
          /\ \A j \in 1 .. Len(answer) : (answer \o chunk)[j] = answer[j]
      <4> DEFINE text == <<c, calls[c].read + 1>>
      <4>1. text \in Ids \X Nat
        BY <1>2
      <4> HIDE DEF text
      <4>2. /\ Len(answer \o <<text>>) = Len(answer) + 1
            /\ (answer \o <<text>>)[Len(answer) + 1] = text
            /\ \A j \in 1 .. Len(answer) : (answer \o <<text>>)[j] = answer[j]
        <5> DEFINE S == Ids \X Nat
        <5>1. answer \in Seq(S) /\ text \in S
          BY <3>2, <4>1
        <5> HIDE DEF S
        <5> QED BY <5>1, OneMore
      <4> QED BY <4>2 DEF text
    <3>4. ASSUME NEW j \in 1 .. Len(answer \o chunk) PROVE (answer \o chunk)[j] = <<c, j>>
      <4>1. j \in 1 .. Len(answer) \/ j = Len(answer) + 1
        BY <3>2, <3>3
      <4> QED BY <3>2, <3>3, <4>1
    <3> HIDE DEF chunk
    <3> QED BY <1>2, <1>3, <2>4, <3>0, <3>1, <3>2, <3>3, <3>4 DEF Tells
  <2> QED BY <2>2, <2>3, <2>4
<1>11. Says'
  <2>1. turns # <<>> => Len(turns) \in 1 .. Len(turns)
    BY <1>5 DEF AskInv, Shapes
  <2>2. turns # <<>> => /\ turns[Len(turns)].id \in Ids
                        /\ turns'[Len(turns')].id = turns[Len(turns)].id
                        /\ turns'[Len(turns')].failure = turns[Len(turns)].failure
    BY <1>4, <1>6, <2>1
  <2>3. \A d \in Ids : calls'[d].at = calls[d].at /\ calls'[d].aborted = calls[d].aborted
    BY <1>3
  <2> HIDE DEF chunk
  <2> QED BY <1>1, <1>5, <2>2, <2>3 DEF AskInv, Says
<1> QED BY <1>7, <1>8, <1>9, <1>10, <1>11 DEF AskInv

(* A call settles: alone, or with the last word of its turn. *)
LEMMA SettleKeeps == ASSUME AskInv, NEW c \in Ids, Settle(c) PROVE AskInv'
<1> DEFINE gone == calls[c].aborted
           fails == ~gone /\ calls[c].end # "done"
           failure == IF calls[c].end = "NoCredit" THEN "NoCredit" ELSE "other"
<1>1. /\ asked' = asked /\ calls[c].at = "open"
      /\ current' = IF current = c THEN 0 ELSE current
      /\ gone \/ (calls[c].read = calls[c].sent /\ calls[c].end # "open")
      /\ gone => turns' = turns /\ state' = state
      /\ (~gone /\ ~fails) => turns' = turns /\ state' = "done"
      /\ fails => state' = "error" /\ Patch(c, <<>>, failure)
  <2>1. CASE gone
    BY <2>1 DEF Settle
  <2>2. CASE ~gone /\ ~fails
    BY <2>2 DEF Settle
  <2>3. CASE fails
    BY <2>3 DEF Settle
  <2> QED BY <2>1, <2>2, <2>3
<1>2. calls \in [Ids -> ACall] /\ calls[c] \in ACall /\ gone \in BOOLEAN
  BY DEF AskInv, Shapes, ACall
<1>3. /\ calls' \in [Ids -> ACall]
      /\ \A d \in Ids : d # c => calls'[d] = calls[d]
      /\ calls'[c].at = "over" /\ calls'[c].read = calls[c].read
      /\ calls'[c].sent = calls[c].sent /\ calls'[c].end = calls[c].end
      /\ calls'[c].aborted = calls[c].aborted
  <2>1. calls' = [calls EXCEPT ![c].at = "over"]
    BY DEF Settle
  <2>2. calls'[c] = [calls[c] EXCEPT !.at = "over"]
    BY <1>2, <2>1
  <2>3. calls'[c] \in ACall
    BY <1>2, <2>2 DEF ACall
  <2>4. \A d \in Ids : d # c => calls'[d] = calls[d]
    BY <1>2, <2>1
  <2>5. calls' = [d \in Ids |-> calls'[d]]
    BY <1>2, <2>1
  <2>6. \A d \in Ids : calls'[d] \in ACall
    BY <1>2, <2>3, <2>4
  <2> QED BY <1>2, <2>2, <2>4, <2>5, <2>6 DEF ACall
<1>4. /\ turns' \in Seq(ATurn) /\ Len(turns') = Len(turns)
      /\ \A i \in 1 .. Len(turns) :
            /\ turns'[i].id = turns[i].id
            /\ (turns[i].id # c \/ ~fails) => turns'[i] = turns[i]
            /\ (turns[i].id = c /\ fails) => /\ turns'[i].answer = turns[i].answer
                                             /\ turns'[i].failure = failure
  <2>1. CASE ~fails
    BY <1>1, <2>1 DEF AskInv, Shapes
  <2>2. CASE fails
    <3>1. Patch(c, <<>>, failure) /\ turns \in Seq(ATurn)
      BY <1>1, <2>2 DEF AskInv, Shapes
    <3>2. <<>> \in Seq(Ids \X Nat) /\ failure \in {"none", "NoCredit", "other"}
      OBVIOUS
    <3>3. /\ turns' \in Seq(ATurn) /\ Len(turns') = Len(turns)
          /\ \A i \in 1 .. Len(turns) :
                /\ turns'[i].id = turns[i].id
                /\ turns[i].id # c => turns'[i] = turns[i]
                /\ turns[i].id = c => /\ turns'[i].answer = turns[i].answer \o <<>>
                                      /\ turns'[i].failure = failure
      <4> DEFINE nothing == <<>>
      <4>1. Patch(c, nothing, failure) /\ nothing \in Seq(Ids \X Nat)
        BY <3>1, <3>2
      <4> HIDE DEF failure, fails, nothing
      <4>2. /\ turns' \in Seq(ATurn) /\ Len(turns') = Len(turns)
            /\ \A i \in 1 .. Len(turns) :
                  /\ turns'[i].id = turns[i].id
                  /\ turns[i].id # c => turns'[i] = turns[i]
                  /\ turns[i].id = c => /\ turns'[i].answer = turns[i].answer \o nothing
                                        /\ turns'[i].failure = failure
        BY ONLY <3>1, <3>2, <4>1, PatchOne, SMTT(30)
      <4> QED BY <4>2 DEF nothing
    <3>4. \A i \in 1 .. Len(turns) : turns[i].answer \in Seq(Ids \X Nat)
      BY TurnShape DEF AskInv
    <3>5. \A s \in Seq(Ids \X Nat) : s \o <<>> = s
      OBVIOUS
    <3> HIDE DEF failure, fails
    <3> QED BY <2>2, <3>3, <3>4, <3>5
  <2> QED BY <2>1, <2>2
<1>5. /\ Len(turns) \in Nat /\ (turns' = <<>> <=> turns = <<>>)
      /\ turns # <<>> => Len(turns) \in 1 .. Len(turns)
  BY <1>4 DEF AskInv, Shapes
<1>6. \A i \in 1 .. Len(turns) :
          /\ turns'[i].id = turns[i].id /\ turns[i].id \in Ids
          /\ turns'[i].answer = turns[i].answer
          /\ turns[i].id # c => turns'[i] = turns[i]
          /\ turns[i].id = c => turns'[i].failure = IF fails THEN failure ELSE "none"
  <2> SUFFICES ASSUME NEW i \in 1 .. Len(turns)
               PROVE  /\ turns'[i].id = turns[i].id /\ turns[i].id \in Ids
                      /\ turns'[i].answer = turns[i].answer
                      /\ turns[i].id # c => turns'[i] = turns[i]
                      /\ turns[i].id = c => turns'[i].failure = IF fails THEN failure ELSE "none"
    OBVIOUS
  <2>1. turns[i] \in ATurn /\ turns[i].id \in Ids
    BY TurnShape DEF AskInv
  <2>2. turns[i].id = c => turns[i].failure = "none"
    BY <1>1 DEF AskInv, Answered, Tells
  <2> HIDE DEF failure, fails
  <2> QED BY <1>4, <2>1, <2>2
<1>7. ~gone => c = current /\ c = asked /\ turns # <<>> /\ turns[Len(turns)].id = c
  BY <1>1 DEF AskInv, Calls, Ordered, Ids
<1>8. gone => c # current
  BY DEF AskInv, Calls, Ids
<1>9. Shapes'
  BY <1>1, <1>3, <1>4, AskAssumption DEF AskInv, Shapes
<1>10. Ordered'
  BY <1>1, <1>4, <1>5, <1>6 DEF AskInv, Ordered
<1>11. Calls'
  <2>1. c <= asked
    BY <1>1 DEF AskInv, Calls, Unasked, Shapes, Ids
  <2>2. ASSUME NEW d \in Ids
        PROVE  /\ d > asked => calls'[d] = Unasked
               /\ d <= asked => calls'[d].at # "unasked"
               /\ (calls'[d].at = "open" /\ ~calls'[d].aborted) => d = current'
               /\ (calls'[d].at = "over" /\ ~calls'[d].aborted) =>
                     calls'[d].read = calls'[d].sent /\ calls'[d].end # "open"
    <3>1. CASE d = c
      <4>1. ~(d > asked)
        BY <2>1, <3>1 DEF AskInv, Shapes, Ids
      <4> QED BY <1>1, <1>3, <3>1, <4>1
    <3>2. CASE d # c
      BY <1>1, <1>3, <3>2 DEF AskInv, Calls
    <3> QED BY <3>1, <3>2
  <2>3. current # 0 => current \in Ids
    BY DEF AskInv, Shapes, Ids
  <2>4. current' # 0 => /\ current' = asked /\ turns' # <<>>
                        /\ calls'[current'].at = "open" /\ ~calls'[current'].aborted
    BY <1>1, <1>3, <1>5, <2>3 DEF AskInv, Calls
  <2> QED BY <1>1, <2>2, <2>4 DEF Calls
<1>12. Answered'
  <2> SUFFICES ASSUME NEW i \in 1 .. Len(turns)
               PROVE  Tells(turns'[i], calls'[turns[i].id])
    BY <1>4, <1>6 DEF Answered
  <2>1. Tells(turns[i], calls[turns[i].id])
    BY DEF AskInv, Answered
  <2>2. CASE turns[i].id # c
    BY <1>3, <1>6, <2>1, <2>2
  <2>3. CASE turns[i].id = c
    BY <1>3, <1>6, <2>1, <2>3 DEF Tells
  <2> QED BY <2>2, <2>3
<1>13. Says'
  <2>1. CASE gone
    <3>1. turns' = turns /\ state' = state /\ current' = current
      BY <1>1, <1>8, <2>1
    <3>2. turns # <<>> => turns[Len(turns)].id \in Ids
      BY <1>5, <1>6
    <3>3. \A d \in Ids : calls'[d].aborted = calls[d].aborted
      BY <1>3
    <3>4. \A d \in Ids : ~calls[d].aborted => calls'[d] = calls[d]
      BY <1>3, <2>1
    <3> QED BY <3>1, <3>2, <3>3, <3>4 DEF AskInv, Says
  <2>2. CASE ~gone
    <3>1. /\ current' = 0 /\ turns' # <<>> /\ turns'[Len(turns')].id = c
          /\ turns'[Len(turns')].failure = IF fails THEN failure ELSE "none"
      BY <1>1, <1>4, <1>5, <1>6, <1>7, <2>2
    <3>2. failure # "none" /\ state' = IF fails THEN "error" ELSE "done"
      BY <1>1, <2>2
    <3> HIDE DEF failure, fails
    <3> QED BY <1>3, <2>2, <3>1, <3>2 DEF Says
  <2> QED BY <2>1, <2>2
<1> QED BY <1>9, <1>10, <1>11, <1>12, <1>13 DEF AskInv

-----------------------------------------------------------------------------
LEMMA ThreadKept == AskSpec => []AskInv
<1>1. AskInv /\ [AskNext]_askVars => AskInv'
  <2> SUFFICES ASSUME AskInv, [AskNext]_askVars PROVE AskInv'
    OBVIOUS
  <2>1. CASE Ask \/ Cancel \/ Reset
    BY <2>1, AskKeeps, StopKeeps
  <2>2. ASSUME NEW c \in Ids,
               \/ SendText(c) \/ ReadText(c) \/ Settle(c)
               \/ \E end \in {"done", "failed", "NoCredit"} : EndAnswer(c, end)
        PROVE  AskInv'
    BY <2>2, ServerKeeps, ReadKeeps, SettleKeeps
  <2>3. CASE UNCHANGED askVars
    BY <2>3 DEF askVars, AskInv, Shapes, Ordered, Calls, Answered, Says
  <2> QED BY <2>1, <2>2, <2>3 DEF AskNext
<1> QED BY <1>1, AskInit, PTL DEF AskSpec

(* useAI.ts: the thread tells how every question fared, whatever the calls *)
(* that were aborted still deliver, and the panel's word is the last       *)
(* turn's.                                                                 *)
THEOREM ThreadStaysTrue == AskSpec => []ThreadIsTrue
<1>1. AskInv => ThreadIsTrue
  <2> SUFFICES ASSUME AskInv PROVE ThreadIsTrue
    OBVIOUS
  <2>1. /\ DOMAIN turns = 1 .. Len(turns) /\ Len(turns) \in Nat
        /\ turns # <<>> => Len(turns) \in 1 .. Len(turns)
    BY DEF AskInv, Shapes
  <2>2. ASSUME NEW i \in DOMAIN turns
        PROVE  /\ \A j \in DOMAIN turns[i].answer : turns[i].answer[j] = <<turns[i].id, j>>
               /\ ~calls[turns[i].id].aborted =>
                     Len(turns[i].answer) = calls[turns[i].id].read
               /\ (/\ calls[turns[i].id].at = "over" /\ ~calls[turns[i].id].aborted
                   /\ turns[i].failure = "none") =>
                     /\ calls[turns[i].id].end = "done"
                     /\ Len(turns[i].answer) = calls[turns[i].id].sent
    <3>1. turns[i].id \in Ids /\ DOMAIN turns[i].answer = 1 .. Len(turns[i].answer)
      BY <2>1, TurnShape DEF AskInv
    <3>2. Tells(turns[i], calls[turns[i].id])
      BY <2>1 DEF AskInv, Answered
    <3> QED BY <3>1, <3>2 DEF Tells, AskInv, Calls
  <2> DEFINE newest == turns[Len(turns)]
  <2>3. turns # <<>> => /\ newest.id \in Ids /\ newest.id = asked
                        /\ Tells(newest, calls[newest.id])
    BY <2>1, TurnShape DEF AskInv, Ordered, Answered
  <2>4. current # 0 => /\ turns # <<>> /\ newest.id = current
                       /\ calls[current].at = "open" /\ ~calls[current].aborted
    BY <2>3 DEF AskInv, Calls
  <2> HIDE DEF newest
  <2>5. /\ state = "streaming" <=> current # 0
        /\ state = "idle" => turns = <<>> \/ calls[newest.id].aborted
        /\ state = "done" => /\ turns # <<>> /\ newest.failure = "none"
                             /\ calls[newest.id].at = "over" /\ ~calls[newest.id].aborted
        /\ state = "error" => turns # <<>> /\ newest.failure # "none"
        /\ state \in {"idle", "streaming", "done", "error"}
    BY DEF AskInv, Says, newest, Shapes
  <2>6. state = "idle" <=> (current = 0 /\ (turns = <<>> \/ calls[newest.id].aborted))
    BY <2>3, <2>4, <2>5 DEF Tells
  <2>7. state = "done" => calls[newest.id].end = "done"
    BY <2>3, <2>5 DEF Tells
  <2>8. state = "error" <=> (turns # <<>> /\ newest.failure # "none")
    BY <2>3, <2>4, <2>5 DEF Tells
  <2> QED BY <2>2, <2>4, <2>5, <2>6, <2>7, <2>8 DEF ThreadIsTrue, newest
<1> QED BY <1>1, ThreadKept, PTL

(* buildWireQuestion: for every limit and separator, and every length of   *)
(* the context and the question, what is sent fits, the question gives way *)
(* only when it alone is too long, and a context that fits is sent whole.  *)
THEOREM QuestionsFit == WireFits
<1> SUFFICES ASSUME NEW context \in 0 .. MaxWire + 2, NEW prompt \in 0 .. MaxWire + 2
             PROVE  LET w == WireQuestion(context, prompt) IN
                    /\ w.length <= MaxWire
                    /\ w.prompt = Least(prompt, MaxWire)
                    /\ context + Separator + prompt <= MaxWire => w.context = context
  BY DEF WireFits
<1>1. /\ Separator \in Nat /\ MaxWire \in Nat /\ MaxWire > Separator
      /\ context \in Nat /\ prompt \in Nat
  BY AskAssumption
<1> QED BY <1>1 DEF WireQuestion, Least

-----------------------------------------------------------------------------
(* The search box.                                                         *)

Answer == [hits : Answers \cup {NoAnswer}, error : BOOLEAN]

(* A query that stands and has no hits was last answered with none. *)
NoneReported ==
    \A t \in Wordings :
        answers[t].hits = <<>> /\ answers[t].hits # NoAnswer /\ ~answers[t].error =>
            reported[t] = "empty"

SearchInv ==
    /\ debounced \in Terms /\ term \in Terms
    /\ answers \in [Wordings -> Answer]
    /\ DOMAIN reported = Wordings
    /\ active # 0 => aimed = debounced
    /\ NoneReported

LEMMA InitSearchInv == InitSearch => SearchInv
<1> SUFFICES ASSUME InitSearch PROVE SearchInv OBVIOUS
<1>1. NothingTyped \in Terms BY DEF Terms
<1> QED BY <1>1, SearchAssumption DEF InitSearch, SearchInv, Answer, NoneReported

LEMMA SearchStep == SearchInv /\ [SearchNext]_searchVars => SearchInv'
<1> SUFFICES ASSUME SearchInv, [SearchNext]_searchVars PROVE SearchInv' OBVIOUS
<1> USE DEF SearchInv, boxVars, answerVars
<1>0. NothingTyped \in Terms BY DEF Terms
<1>1. CASE TypingStops BY <1>1 DEF TypingStops, NoneReported
<1>2. CASE OpenBox BY <1>2 DEF OpenBox, NoneReported
<1>3. CASE CloseBox BY <1>3 DEF CloseBox, NoneReported
<1>4. CASE Escape BY <1>0, <1>4 DEF Escape, NoneReported
<1>5. CASE EnterKey BY <1>0, <1>5 DEF EnterKey, Go, NoneReported
<1>6. CASE PickRow BY <1>0, <1>6 DEF PickRow, Go, NoneReported
<1>7. ASSUME NEW text \in Terms, TypeTerm(text) PROVE SearchInv'
  BY <1>7 DEF TypeTerm, NoneReported
<1>8. ASSUME NEW text \in Wordings, AskFor(text) PROVE SearchInv'
  <2> DEFINE err == answers[text].error /\ answers[text].hits # NoAnswer
  <2>1. answers' = [answers EXCEPT ![text] = [@ EXCEPT !.error = err]] BY <1>8 DEF AskFor
  <2>2. err \in BOOLEAN BY Zenon
  <2>3. answers[text].hits # NoAnswer /\ answers[text].error => err OBVIOUS
  <2> HIDE DEF err
  <2>4. answers' \in [Wordings -> Answer] BY <2>1, <2>2 DEF Answer
  <2>5. \A t \in Wordings :
            /\ answers'[t].hits = answers[t].hits
            /\ answers[t].hits # NoAnswer /\ answers[t].error => answers'[t].error
    <3> SUFFICES ASSUME NEW t \in Wordings
        PROVE  /\ answers'[t].hits = answers[t].hits
               /\ answers[t].hits # NoAnswer /\ answers[t].error => answers'[t].error
        OBVIOUS
    <3>1. answers[t] \in Answer OBVIOUS
    <3>2. CASE t = text BY <2>1, <2>3, <3>1, <3>2 DEF Answer
    <3>3. CASE t # text BY <2>1, <3>1, <3>3 DEF Answer
    <3> QED BY <3>2, <3>3
  <2> QED BY <1>8, <2>4, <2>5 DEF AskFor, NoneReported
<1>9. ASSUME NEW text \in Wordings, NEW hits \in Answers, AnswerWith(text, hits)
      PROVE  SearchInv'
  <2>1. answers' = [answers EXCEPT ![text] = [hits |-> hits, error |-> FALSE]]
        /\ reported' = [reported EXCEPT ![text] = IF hits = <<>> THEN "empty" ELSE "hits"]
    BY <1>9 DEF AnswerWith
  <2>2. answers' \in [Wordings -> Answer] /\ DOMAIN reported' = Wordings
    BY <2>1 DEF Answer
  <2>3. NoneReported' BY <2>1 DEF NoneReported
  <2> QED BY <1>9, <2>2, <2>3 DEF AnswerWith
<1>10. ASSUME NEW text \in Wordings, FailToAnswer(text) PROVE SearchInv'
  <2>1. answers' = [answers EXCEPT ![text] = [@ EXCEPT !.error = TRUE]]
        /\ reported' = [reported EXCEPT ![text] = "failure"]
    BY <1>10 DEF FailToAnswer
  <2>2. answers' \in [Wordings -> Answer] /\ DOMAIN reported' = Wordings
    BY <2>1 DEF Answer
  <2>3. NoneReported' BY <2>1 DEF NoneReported, Answer
  <2> QED BY <1>10, <2>2, <2>3 DEF FailToAnswer
<1>11. ASSUME NEW step \in {1, Len(Hits)}, Arrow(step) PROVE SearchInv'
  BY <1>11 DEF Arrow, NoneReported
<1>12. CASE UNCHANGED searchVars BY <1>12 DEF searchVars, NoneReported
<1> QED
  BY <1>1, <1>2, <1>3, <1>4, <1>5, <1>6, <1>7, <1>8, <1>9, <1>10, <1>11, <1>12
  DEF SearchNext

LEMMA SearchSpeaks == SearchInv => SearchSpeaksTrue
<1> SUFFICES ASSUME SearchInv, PanelOpen, Panel = "nothing found"
    PROVE  reported[debounced] = "empty"
    BY DEF SearchInv, SearchSpeaksTrue
<1>1. /\ ~TooLong(debounced) /\ ~answers[debounced].error
      /\ answers[debounced].hits # NoAnswer /\ answers[debounced].hits = <<>>
  <2> DEFINE long == TooLong(debounced)
             err == answers[debounced].error
             waits == answers[debounced].hits = NoAnswer
             none == answers[debounced].hits = <<>>
  <2>1. Panel = IF long THEN "too long" ELSE IF err THEN "error"
                ELSE IF waits THEN "loading" ELSE IF none THEN "nothing found" ELSE "hits"
    BY DEF Panel
  <2> HIDE DEF long, err, waits, none
  <2>2. ~long /\ ~err /\ ~waits /\ none BY <2>1
  <2> QED BY <2>2 DEF long, err, waits, none
<1>2. debounced \in Wordings
  BY <1>1 DEF SearchInv, Terms, TooLong, PanelOpen, LongEnough
<1> QED BY <1>1, <1>2 DEF SearchInv, NoneReported

-----------------------------------------------------------------------------
(* The settings of the operators.                                          *)

Get == [at : {"idle", "asked", "read"}, read : Policy \cup {Unseeded}]
Save == [at : {"none", "sent", "taken"}, prompt : Prompts \cup {Unsendable},
         grant : Grants \cup {LeaveAlone}, typed : BOOLEAN, moved : BOOLEAN,
         answer : Policy \cup {Unseeded}]

(* A draft whose grant was not typed in has the grant that it was seeded   *)
(* with; and a draft is there only after an answer.                        *)
Untouched == fields # Unseeded /\ ~touched => fields.grant = seed

SettingsInv ==
    /\ stored \in Policy /\ cached \in Policy \cup {Unseeded}
    /\ refetch \in Get /\ (refetch.at = "read" => refetch.read \in Policy)
    /\ fields \in Drafts \cup {Unseeded} /\ touched \in BOOLEAN
    /\ save \in Save
    /\ save.at = "sent" => save.prompt \in Prompts
    /\ save.at = "taken" => save.answer \in Policy
    /\ Untouched /\ GrantIntended

LEMMA InitSettingsInv == InitSettings => SettingsInv
<1> SUFFICES ASSUME InitSettings PROVE SettingsInv OBVIOUS
<1> QED
  BY SettingsAssumption
  DEF InitSettings, SettingsInv, Get, Save, NoSave, Untouched, GrantIntended, Drafts

LEMMA DraftsApart ==
    /\ Policy \subseteq Drafts /\ Unseeded \notin Drafts
    /\ \A p \in Policy : p.grant \in Grants /\ p.prompt \in Prompts
    /\ \A d \in Drafts : d.grant \in Grants \cup {Unsendable} /\ d.prompt \in Prompts \cup {Unsendable}
  BY SettingsAssumption DEF Policy, Drafts

LEMMA SettingsStep == SettingsInv /\ [SettingsNext]_settingsVars => SettingsInv'
<1> SUFFICES ASSUME SettingsInv, [SettingsNext]_settingsVars PROVE SettingsInv' OBVIOUS
<1> USE DEF SettingsInv
<1>0. Unseeded \notin Policy /\ Unseeded \notin Drafts /\ Policy \subseteq Drafts BY DraftsApart
<1>1. CASE RefocusSettings
  BY <1>1 DEF RefocusSettings, Get, Untouched, GrantIntended
<1>2. CASE ReadSettings
  BY <1>2 DEF ReadSettings, Get, Untouched, GrantIntended
<1>3. CASE AnswerSettings
  <2>1. /\ cached' = refetch.read /\ refetch.read \in Policy
        /\ refetch' = [at |-> "idle", read |-> Unseeded]
        /\ stored' = stored /\ touched' = touched /\ save' = save
    BY <1>3 DEF AnswerSettings
  <2>2. refetch' \in Get /\ refetch'.at # "read" BY <2>1 DEF Get
  <2>3. CASE fields = Unseeded
    <3>1. fields' = refetch.read /\ seed' = refetch.read.grant BY <1>3, <2>3 DEF AnswerSettings
    <3> QED BY <1>0, <2>1, <2>2, <3>1 DEF Untouched, GrantIntended
  <2>4. CASE fields # Unseeded
    <3>1. fields' = fields /\ seed' = seed BY <1>3, <2>4 DEF AnswerSettings
    <3> QED BY <2>1, <2>2, <3>1 DEF Untouched, GrantIntended
  <2> QED BY <2>3, <2>4
<1>4. ASSUME NEW text \in Prompts \cup {Unsendable}, TypePrompt(text) PROVE SettingsInv'
  <2>1. fields' = [fields EXCEPT !.prompt = text] /\ fields \in Drafts BY <1>4 DEF TypePrompt
  <2>2. fields' \in Drafts /\ fields'.grant = fields.grant BY <2>1 DEF Drafts
  <2>3. fields # Unseeded BY <1>4 DEF TypePrompt
  <2> QED BY <1>4, <2>2, <2>3 DEF TypePrompt, Untouched, GrantIntended
<1>5. ASSUME NEW text \in Grants \cup {Unsendable}, TypeGrant(text) PROVE SettingsInv'
  <2>1. /\ fields' = [fields EXCEPT !.grant = text] /\ fields \in Drafts
        /\ touched' = TRUE
    BY <1>5 DEF TypeGrant
  <2>2. fields' \in Drafts BY <2>1 DEF Drafts
  <2> QED BY <1>5, <2>1, <2>2 DEF TypeGrant, Untouched, GrantIntended
<1>6. CASE SubmitSettings
  <2> DEFINE sent == IF fields.grant # cached.grant THEN fields.grant ELSE LeaveAlone
             gone == cached.grant # seed
  <2>1. /\ fields \in Drafts /\ fields.prompt \in Prompts /\ fields.grant \in Grants
        /\ fields # Unseeded
    BY <1>6, DraftsApart DEF SubmitSettings
  <2>2. save' = [at |-> "sent", prompt |-> fields.prompt,
                 typed |-> touched, moved |-> gone,
                 grant |-> sent, answer |-> Unseeded]
    BY <1>6 DEF SubmitSettings, GrantMoved
  <2>3. gone \in BOOLEAN BY Zenon
  <2>4. sent \in Grants \cup {LeaveAlone} BY <2>1
  <2>5. sent # LeaveAlone => touched \/ gone
    <3> SUFFICES ASSUME sent # LeaveAlone, ~touched PROVE cached.grant # seed OBVIOUS
    <3>1. fields.grant # cached.grant OBVIOUS
    <3>2. fields.grant = seed BY <2>1 DEF Untouched
    <3> QED BY <3>1, <3>2
  <2> HIDE DEF sent, gone
  <2>6. /\ save' \in Save /\ save'.at = "sent" /\ save'.prompt \in Prompts
        /\ save'.grant # LeaveAlone => save'.typed \/ save'.moved
    BY <2>1, <2>2, <2>3, <2>4, <2>5 DEF Save
  <2> QED BY <1>6, <2>6 DEF SubmitSettings, Untouched, GrantIntended
<1>7. CASE TakeSave
  <2> DEFINE grant == IF save.grant = LeaveAlone THEN stored.grant ELSE save.grant
  <2>1. /\ stored' = [prompt |-> save.prompt, grant |-> grant]
        /\ save' = [save EXCEPT !.at = "taken", !.answer = stored']
        /\ save.prompt \in Prompts
    BY <1>7 DEF TakeSave
  <2>2. grant \in Grants BY DraftsApart DEF Save
  <2> HIDE DEF grant
  <2>3. stored' \in Policy BY <2>1, <2>2 DEF Policy
  <2>4. /\ save' \in Save /\ save'.answer \in Policy /\ save'.at = "taken"
        /\ save'.grant = save.grant /\ save'.typed = save.typed /\ save'.moved = save.moved
    BY <2>1, <2>3 DEF Save
  <2> QED BY <1>7, <2>3, <2>4 DEF TakeSave, Untouched, GrantIntended
<1>8. CASE AnswerSave
  <2>1. /\ fields' = save.answer /\ save.answer \in Policy /\ seed' = save.answer.grant
        /\ touched' = FALSE /\ save' = NoSave
        /\ refetch' = [at |-> "asked", read |-> Unseeded]
    BY <1>8 DEF AnswerSave
  <2>2. refetch' \in Get /\ refetch'.at # "read" BY <2>1 DEF Get
  <2>3. save' \in Save /\ save'.at = "none" /\ save'.grant = LeaveAlone BY <2>1 DEF Save, NoSave
  <2> QED BY <1>0, <1>8, <2>1, <2>2, <2>3 DEF AnswerSave, Untouched, GrantIntended
<1>9. CASE FailSave
  <2>1. save' \in Save /\ save'.at = "none" /\ save'.grant = LeaveAlone BY <1>9 DEF FailSave, Save, NoSave
  <2> QED BY <1>9, <2>1 DEF FailSave, Untouched, GrantIntended
<1>10. ASSUME NEW policy \in Policy, Elsewhere(policy) PROVE SettingsInv'
  BY <1>10 DEF Elsewhere, Untouched, GrantIntended
<1>11. CASE UNCHANGED settingsVars
  BY <1>11 DEF settingsVars, Untouched, GrantIntended
<1> QED
  BY <1>1, <1>2, <1>3, <1>4, <1>5, <1>6, <1>7, <1>8, <1>9, <1>10, <1>11 DEF SettingsNext

-----------------------------------------------------------------------------
(* The drafts.                                                             *)

ReadBack == [at : {"idle", "asked", "read"}, value : Contents \cup {Unread}, awaited : BOOLEAN]
PutT == [at : {"none", "sent", "taken", "reading", "success", "error"},
         value : Contents \cup {Unread}]

(* Since the server took the save, what it keeps is one of what it kept    *)
(* since; and a save that reads is waited for by a reading, which, unless  *)
(* it was under way before, is of since then.                              *)
SinceTaken ==
    /\ put.at \in {"taken", "reading", "success"} => kept \in since
    /\ put.at = "taken" => put.value \in since
    /\ get.awaited <=> put.at = "reading"
    /\ get.awaited => get.at # "idle"
    /\ put.at = "reading" /\ get.at = "read" /\ ~early => get.value \in since

DraftInv ==
    /\ which \in {"agent", "price"} /\ kept \in Contents
    /\ get \in ReadBack /\ (get.at = "read" => get.value \in Contents)
    /\ entered \in Contents \cup {Invalid, Unread}
    /\ put \in PutT
    /\ edited \in BOOLEAN /\ early \in BOOLEAN
    /\ put.at = "sent" => put.value \in Contents
    /\ put.at = "taken" => put.value \in Contents
    /\ put.at # "none" => entered # Unread
    /\ put.at = "reading" => which = "agent"
    /\ SinceTaken /\ SavedIsShown

LEMMA InitDraftInv == InitDrafts => DraftInv
<1> SUFFICES ASSUME InitDrafts PROVE DraftInv OBVIOUS
<1>1. get = [at |-> "asked", value |-> Unread, awaited |-> FALSE]
  BY DEF InitDrafts, Getting, NoGet
<1>2. get \in ReadBack /\ get.at = "asked" /\ get.awaited = FALSE BY <1>1 DEF ReadBack
<1>3. put = [at |-> "none", value |-> Unread] BY DEF InitDrafts, NoPut
<1>4. put \in PutT /\ put.at = "none" BY <1>3 DEF PutT
<1> QED BY <1>2, <1>4 DEF InitDrafts, DraftInv, SinceTaken, SavedIsShown

LEMMA DraftStep == DraftInv /\ [DraftNext]_draftVars => DraftInv'
<1> SUFFICES ASSUME DraftInv, [DraftNext]_draftVars PROVE DraftInv' OBVIOUS
<1> USE DraftAssumption DEF DraftInv
<1>0. /\ Getting \in ReadBack /\ Getting.at = "asked" /\ ~Getting.awaited
      /\ NoGet \in ReadBack /\ NoGet.at = "idle" /\ ~NoGet.awaited
  <2>1. NoGet = [at |-> "idle", value |-> Unread, awaited |-> FALSE] BY DEF NoGet
  <2>2. NoGet \in ReadBack /\ NoGet.at = "idle" /\ ~NoGet.awaited BY <2>1 DEF ReadBack
  <2>3. Getting = [NoGet EXCEPT !.at = "asked"] BY DEF Getting
  <2>4. Getting \in ReadBack /\ Getting.at = "asked" /\ Getting.awaited = NoGet.awaited
    BY <2>2, <2>3 DEF ReadBack
  <2> QED BY <2>2, <2>4
<1>1. CASE LoadDraft BY <1>0, <1>1 DEF LoadDraft, SinceTaken, SavedIsShown
<1>2. CASE ReadDraft
  <2>1. get' = [get EXCEPT !.at = "read", !.value = kept] BY <1>2 DEF ReadDraft
  <2>2. get' \in ReadBack /\ get'.at = "read" /\ get'.value = kept /\ get'.awaited = get.awaited
    BY <2>1 DEF ReadBack
  <2> QED BY <1>2, <2>2 DEF ReadDraft, SinceTaken, SavedIsShown
<1>3. CASE AnswerDraft
  <2>1. get' = NoGet /\ get.at = "read" /\ get.value \in Contents
    BY <1>3 DEF AnswerDraft
  <2>2. CASE get.awaited
    <3>1. put' = [put EXCEPT !.at = "success"] /\ entered' = get.value
      BY <1>3, <2>2 DEF AnswerDraft
    <3>2. put' \in PutT /\ put'.at = "success" BY <3>1 DEF PutT
    <3>3. put.at = "reading" BY <2>2 DEF SinceTaken
    <3>4. ~early => get.value \in since BY <2>1, <3>3 DEF SinceTaken
    <3>5. entered' \in since' \/ early' BY <1>3, <3>1, <3>4 DEF AnswerDraft
    <3>6. SavedIsShown' /\ SinceTaken'
      BY <1>0, <1>3, <2>1, <3>2, <3>3, <3>5 DEF AnswerDraft, SavedIsShown, SinceTaken
    <3>7. edited' = FALSE BY <1>3, <2>2 DEF AnswerDraft
    <3> QED BY <1>0, <1>3, <2>1, <3>1, <3>2, <3>6, <3>7 DEF AnswerDraft
  <2>3. CASE ~get.awaited /\ entered = Unread
    <3>1. put' = put /\ entered' = get.value /\ edited' = FALSE
      BY <1>3, <2>3 DEF AnswerDraft
    <3>2. put.at = "none" BY <2>3
    <3> QED BY <1>0, <1>3, <2>1, <3>1, <3>2 DEF AnswerDraft, SavedIsShown, SinceTaken
  <2>4. CASE ~get.awaited /\ entered # Unread
    <3>1. put' = put /\ entered' = entered /\ edited' = edited
      BY <1>3, <2>4 DEF AnswerDraft
    <3> QED BY <1>0, <1>3, <2>1, <2>4, <3>1 DEF AnswerDraft, SavedIsShown, SinceTaken
  <2> QED BY <2>2, <2>3, <2>4
<1>4. CASE FailDraft
  <2>1. get' = NoGet /\ get.at # "idle" BY <1>4 DEF FailDraft
  <2>2. CASE which = "price"
    <3>1. entered' = Unread /\ edited' = FALSE /\ put' = NoPut BY <1>4, <2>2 DEF FailDraft
    <3>2. put' \in PutT /\ put'.at = "none" BY <3>1 DEF NoPut, PutT
    <3> QED BY <1>0, <1>4, <2>1, <3>1, <3>2 DEF FailDraft, SavedIsShown, SinceTaken
  <2>3. CASE which = "agent" /\ get.awaited
    <3>1. /\ put' = [put EXCEPT !.at = "error"]
          /\ entered' = entered /\ edited' = edited
      BY <1>4, <2>3 DEF FailDraft
    <3>2. put' \in PutT /\ put'.at = "error" BY <3>1 DEF PutT
    <3>3. put.at = "reading" BY <2>3 DEF SinceTaken
    <3> QED BY <1>0, <1>4, <2>1, <3>1, <3>2, <3>3 DEF FailDraft, SavedIsShown, SinceTaken
  <2>4. CASE which = "agent" /\ ~get.awaited
    <3>1. put' = put /\ entered' = entered /\ edited' = edited
      BY <1>4, <2>4 DEF FailDraft
    <3> QED BY <1>0, <1>4, <2>1, <2>4, <3>1 DEF FailDraft, SavedIsShown, SinceTaken
  <2> QED BY <2>2, <2>3, <2>4
<1>5. ASSUME NEW body \in Contents \cup {Invalid}, TypeDraft(body) PROVE DraftInv'
  BY <1>5 DEF TypeDraft, SavedIsShown, SinceTaken
<1>6. CASE SaveDraft
  <2>1. put' = [at |-> "sent", value |-> entered] /\ entered \in Contents
    BY <1>6 DEF SaveDraft
  <2>2. put' \in PutT /\ put'.at = "sent" /\ put'.value \in Contents BY <2>1 DEF PutT
  <2>3. put.at # "reading" /\ entered # Unread BY <1>6 DEF SaveDraft, Saving
  <2> QED BY <1>6, <2>2, <2>3 DEF SaveDraft, SavedIsShown, SinceTaken
<1>7. CASE TakeDraft
  <2>1. /\ kept' = Canon[put.value] /\ since' = {kept'} /\ put.at = "sent"
        /\ put' = [at |-> "taken", value |-> kept']
    BY <1>7 DEF TakeDraft
  <2>2. kept' \in Contents BY <2>1
  <2>3. put' \in PutT /\ put'.at = "taken" /\ put'.value = kept' BY <2>1, <2>2 DEF PutT
  <2>4. kept' \in since' BY <2>1
  <2> QED BY <1>7, <2>1, <2>2, <2>3, <2>4 DEF TakeDraft, SavedIsShown, SinceTaken
<1>8. CASE AnswerPut
  <2>1. put.at = "taken" /\ put.value \in Contents /\ put.value \in since /\ kept \in since
        /\ ~get.awaited /\ entered # Unread
    BY <1>8 DEF AnswerPut, SinceTaken
  <2>2. CASE which = "price"
    <3>1. /\ put' = [put EXCEPT !.at = "success"] /\ entered' = put.value /\ edited' = FALSE
          /\ get' = get /\ early' = early
      BY <1>8, <2>2 DEF AnswerPut
    <3>2. put' \in PutT /\ put'.at = "success" BY <3>1 DEF PutT
    <3> QED BY <1>8, <2>1, <3>1, <3>2 DEF AnswerPut, SavedIsShown, SinceTaken
  <2>3. CASE which = "agent"
    <3> DEFINE base == IF get.at = "idle" THEN Getting ELSE get
    <3>1. /\ put' = [put EXCEPT !.at = "reading"] /\ early' = (get.at = "read")
          /\ get' = [base EXCEPT !.awaited = TRUE]
          /\ entered' = entered /\ edited' = edited
      BY <1>8, <2>3 DEF AnswerPut
    <3>2. put' \in PutT /\ put'.at = "reading" BY <3>1 DEF PutT
    <3>3. /\ base \in ReadBack /\ base.at # "idle"
          /\ base.at = "read" <=> get.at = "read"
          /\ base.at = "read" => base.value = get.value
      BY <1>0
    <3> HIDE DEF base
    <3>4. /\ get' \in ReadBack /\ get'.at = base.at /\ get'.value = base.value /\ get'.awaited
      BY <3>1, <3>3 DEF ReadBack
    <3>5. early' \in BOOLEAN /\ (get'.at = "read" => early') BY <3>1, <3>3, <3>4
    <3> QED
      BY <1>8, <2>1, <2>3, <3>1, <3>2, <3>3, <3>4, <3>5
      DEF AnswerPut, SavedIsShown, SinceTaken
  <2> QED BY <2>2, <2>3
<1>9. CASE FailPut
  <2>1. put' = [put EXCEPT !.at = "error"] /\ put.at \in {"sent", "taken"}
    BY <1>9 DEF FailPut
  <2>2. put' \in PutT /\ put'.at = "error" BY <2>1 DEF PutT
  <2> QED BY <1>9, <2>1, <2>2 DEF FailPut, SavedIsShown, SinceTaken
<1>10. ASSUME NEW body \in Contents, SavedElsewhere(body) PROVE DraftInv'
  <2>1. kept' \in Contents /\ kept' \in since' /\ since \subseteq since'
    BY <1>10 DEF SavedElsewhere
  <2> QED BY <1>10, <2>1 DEF SavedElsewhere, SavedIsShown, SinceTaken
<1>11. CASE UNCHANGED draftVars BY <1>11 DEF draftVars, SavedIsShown, SinceTaken
<1> QED
  BY <1>1, <1>2, <1>3, <1>4, <1>5, <1>6, <1>7, <1>8, <1>9, <1>10, <1>11 DEF DraftNext

-----------------------------------------------------------------------------
(* The operators' desk.                                                    *)

(* Every answer that is to come, or that came and is on the page, was read *)
(* after the changes that the page must know of, or was passed by one.     *)
FreshEnough(k) ==
    /\ due[k] <= taken[k]
    /\ loading[k].at = "idle" => loading[k] = NoLoad
    /\ k \notin passed /\ loading[k].at = "read" => loading[k].seen >= due[k]
    /\ k \notin passed /\ held[k].good /\ loading[k].at = "idle" /\ OnPage(k)
            => held[k].seen >= due[k]

(* A filling that met no error moves the credit when its job is taken. *)
OneMove ==
    /\ form.errors # 1 /\ job.at # "taken" => form.kept = 0
    /\ OneMovePerFilling

DeskInv ==
    /\ taken \in [Keys -> Nat]
    /\ held \in [Keys -> [has : BOOLEAN, good : BOOLEAN, seen : Nat]]
    /\ loading \in [Keys -> [at : {"idle", "asked", "read"}, seen : Nat]]
    /\ due \in [Keys -> Nat]
    /\ form \in [filled : BOOLEAN, kept : Nat, errors : 0 .. 1]
    /\ job \in [at : {"none", "sent", "taken", "success", "error"}, of : Keys]
    /\ inspected \in Learners \cup {Nobody} /\ (desk # "credits" => inspected = Nobody)
    /\ \A k \in Keys : FreshEnough(k)
    /\ OneMove

LEMMA InitDeskInv == InitDesk => DeskInv
<1> SUFFICES ASSUME InitDesk PROVE DeskInv OBVIOUS
<1> USE DEF InitDesk
<1>1. /\ taken \in [Keys -> Nat] /\ due \in [Keys -> Nat]
      /\ \A k \in Keys : taken[k] = 0 /\ due[k] = 0
  OBVIOUS
<1>2. held \in [Keys -> [has : BOOLEAN, good : BOOLEAN, seen : Nat]]
      /\ \A k \in Keys : ~held[k].good
  OBVIOUS
<1>3. loading \in [Keys -> [at : {"idle", "asked", "read"}, seen : Nat]]
      /\ \A k \in Keys : (loading[k] = NoLoad \/ loading[k].at = "asked")
      /\ NoLoad.at = "idle"
  BY DEF Sent, NoLoad
<1>4. form = [filled |-> FALSE, kept |-> 0, errors |-> 0] BY DEF EmptyForm
<1>5. form \in [filled : BOOLEAN, kept : Nat, errors : 0 .. 1] /\ form.kept = 0 BY <1>4
<1>6. job = [at |-> "none", of |-> List] /\ List \in Keys BY DEF NoJob, Keys
<1>7. job \in [at : {"none", "sent", "taken", "success", "error"}, of : Keys] BY <1>6
<1>8. \A k \in Keys : FreshEnough(k) BY <1>1, <1>2, <1>3 DEF FreshEnough
<1> QED
  BY <1>1, <1>2, <1>3, <1>5, <1>7, <1>8 DEF DeskInv, OneMove, OneMovePerFilling

(* What is asked for again is read after every change made so far; and of  *)
(* the learner changed, if another one is inspected, nothing is on the page. *)
LEMMA AskedAgain ==
    ASSUME DeskInv, AskAgain(Evidence), NoteDue, UNCHANGED <<taken, held, inspected, desk>>
    PROVE  /\ loading' \in [Keys -> [at : {"idle", "asked", "read"}, seen : Nat]]
           /\ due' \in [Keys -> Nat]
           /\ \A k \in Keys : FreshEnough(k)'
<1> USE DEF DeskInv
<1>1. loading' = [k \in Keys |-> IF k \in Evidence THEN Sent ELSE loading[k]]
  BY DEF AskAgain
<1>2. due' = [k \in Keys |-> IF k \in Evidence \cup {job.of} THEN taken[k] ELSE due[k]]
  BY DEF NoteDue
<1>3. Sent = [at |-> "asked", seen |-> 0] BY DEF Sent
<1>4. Sent \in [at : {"idle", "asked", "read"}, seen : Nat] /\ Sent.at = "asked" BY <1>3
<1>5. ASSUME NEW k \in Keys PROVE FreshEnough(k)'
  <2>1. FreshEnough(k) /\ taken[k] \in Nat /\ due[k] \in Nat OBVIOUS
  <2>2. CASE k \in Evidence
    <3>1. loading'[k].at = "asked" /\ due'[k] = taken[k] BY <1>1, <1>2, <1>4, <2>2
    <3> QED BY <2>1, <3>1 DEF FreshEnough
  <2>3. CASE k \notin Evidence /\ k = job.of
    <3>1. loading'[k] = loading[k] /\ due'[k] = taken[k] BY <1>1, <1>2, <2>3
    <3>2. k \notin passed' => loading[k].at # "read" \/ loading[k].seen >= taken[k]
      <4>1. Behind(k) => k \in passed' BY <2>3 DEF NoteDue
      <4>2. loading[k].seen \in Nat OBVIOUS
      <4> QED BY <2>1, <4>1, <4>2 DEF Behind
    <3>3. ~OnPage(k)'
      <4>1. ~OnPage(k) \/ desk # "credits" \/ k = Nobody BY <2>3 DEF Evidence, OnPage
      <4>2. desk # "credits" => k # List BY <2>3 DEF Evidence
      <4>3. ~OnPage(k)
        <5>1. k # Nobody BY DeskAssumption DEF Keys
        <5>2. CASE desk = "credits" BY <4>1, <5>1, <5>2
        <5>3. CASE desk # "credits"
          <6>1. inspected = Nobody BY <5>3
          <6> QED BY <4>2, <5>1, <5>3, <6>1 DEF OnPage
        <5> QED BY <5>2, <5>3
      <4> QED BY <4>3 DEF OnPage
    <3> QED BY <2>1, <3>1, <3>2, <3>3 DEF FreshEnough
  <2>4. CASE k \notin Evidence /\ k # job.of
    <3>1. loading'[k] = loading[k] /\ due'[k] = due[k] BY <1>1, <1>2, <2>4
    <3>2. k \in passed' <=> k \in passed BY <2>4 DEF NoteDue
    <3>3. OnPage(k)' <=> OnPage(k) BY DEF OnPage
    <3> QED BY <2>1, <3>1, <3>2, <3>3 DEF FreshEnough
  <2> QED BY <2>2, <2>3, <2>4
<1>6. loading' \in [Keys -> [at : {"idle", "asked", "read"}, seen : Nat]]
  BY <1>1, <1>4
<1>7. due' \in [Keys -> Nat] BY <1>2
<1> QED BY <1>5, <1>6, <1>7

(* A change leaves what the page must know of, what is on it and what is   *)
(* on its way to it as they are.                                           *)
LEMMA ChangedMeanwhile ==
    ASSUME DeskInv, NEW l \in Keys, MakeChange(l),
           UNCHANGED <<held, loading, inspected, due, passed>>
    PROVE  /\ taken' \in [Keys -> Nat]
           /\ \A k \in Keys : FreshEnough(k)'
<1> USE DEF DeskInv
<1>1. taken' = [k \in Keys |-> taken[k] + IF k \in {l, List} THEN 1 ELSE 0]
  BY DEF MakeChange
<1>2. taken' \in [Keys -> Nat] /\ \A k \in Keys : taken[k] <= taken'[k] BY <1>1
<1>3. ASSUME NEW q \in Keys PROVE FreshEnough(q)'
  <2>1. FreshEnough(q) /\ due[q] \in Nat /\ taken[q] \in Nat /\ taken'[q] \in Nat
        /\ taken[q] <= taken'[q]
    BY <1>2
  <2>2. OnPage(q)' <=> OnPage(q) BY DEF OnPage
  <2> QED BY <2>1, <2>2 DEF FreshEnough
<1> QED BY <1>2, <1>3

LEMMA DeskStep == DeskInv /\ [DeskNext]_deskVars => DeskInv'
<1> SUFFICES ASSUME DeskInv, [DeskNext]_deskVars PROVE DeskInv' OBVIOUS
<1> USE DEF DeskInv
<1> DEFINE Loads == [at : {"idle", "asked", "read"}, seen : Nat]
           Helds == [has : BOOLEAN, good : BOOLEAN, seen : Nat]
           Forms == [filled : BOOLEAN, kept : Nat, errors : 0 .. 1]
           Jobs == [at : {"none", "sent", "taken", "success", "error"}, of : Keys]
<1>0. /\ NoLoad \in Loads /\ NoLoad.at = "idle" /\ Sent \in Loads /\ Sent.at = "asked"
      /\ EmptyForm \in Forms /\ EmptyForm.kept = 0
      /\ inspected \in Keys \cup {Nobody}
  <2>1. NoLoad = [at |-> "idle", seen |-> 0] /\ Sent = [at |-> "asked", seen |-> 0]
    BY DEF NoLoad, Sent
  <2>2. EmptyForm = [filled |-> FALSE, kept |-> 0, errors |-> 0] BY DEF EmptyForm
  <2>3. EmptyForm \in Forms /\ EmptyForm.kept = 0 BY <2>2
  <2> QED BY <2>1, <2>3 DEF Keys
<1>1. ASSUME NEW k \in Keys, Refocus(k) PROVE DeskInv'
  <2>1. loading' = [loading EXCEPT ![k] = Sent] BY <1>1 DEF Refocus
  <2>2. loading' \in [Keys -> Loads] BY <1>0, <2>1
  <2>3. ASSUME NEW q \in Keys PROVE FreshEnough(q)'
    <3>1. FreshEnough(q) /\ (loading'[q] = loading[q] \/ loading'[q].at = "asked")
      BY <1>0, <2>1
    <3>2. q # k => (q \in passed' <=> q \in passed) BY <1>1 DEF Refocus
    <3>3. q = k => loading'[q].at = "asked" BY <1>0, <2>1
    <3>4. OnPage(q)' <=> OnPage(q) BY <1>1 DEF OnPage, Refocus
    <3>5. UNCHANGED <<due, taken, held>> BY <1>1 DEF Refocus
    <3> QED BY <3>1, <3>2, <3>3, <3>4, <3>5 DEF FreshEnough
  <2> QED BY <1>1, <2>2, <2>3 DEF Refocus, OneMove, OneMovePerFilling
<1>2. ASSUME NEW k \in Keys, ServeEntry(k) PROVE DeskInv'
  <2> DEFINE e == [at |-> "read", seen |-> taken[k]]
  <2>1. loading' = [loading EXCEPT ![k] = e] BY <1>2 DEF ServeEntry
  <2>2. e \in Loads /\ e.at = "read" /\ e.seen = taken[k] OBVIOUS
  <2> HIDE DEF e
  <2>3. loading' \in [Keys -> Loads] BY <2>1, <2>2
  <2>4. ASSUME NEW q \in Keys PROVE FreshEnough(q)'
    <3>1. FreshEnough(q) /\ due[q] \in Nat /\ taken[q] \in Nat OBVIOUS
    <3>2. \/ loading'[q] = loading[q]
          \/ loading'[q].at = "read" /\ loading'[q].seen = taken[q]
      BY <2>1, <2>2
    <3> QED BY <1>2, <3>1, <3>2 DEF FreshEnough, ServeEntry, OnPage, owed
  <2> QED BY <1>2, <2>3, <2>4 DEF ServeEntry, OneMove, OneMovePerFilling, owed
<1>3. ASSUME NEW k \in Keys, AnswerEntry(k) PROVE DeskInv'
  <2> DEFINE e == [has |-> TRUE, good |-> TRUE, seen |-> loading[k].seen]
  <2>1. /\ held' = [held EXCEPT ![k] = e] /\ loading[k].at = "read"
        /\ loading' = [loading EXCEPT ![k] = NoLoad]
    BY <1>3 DEF AnswerEntry
  <2>2. e \in Helds /\ e.seen = loading[k].seen OBVIOUS
  <2> HIDE DEF e
  <2>3. loading' \in [Keys -> Loads] /\ held' \in [Keys -> Helds] BY <1>0, <2>1, <2>2
  <2>4. ASSUME NEW q \in Keys PROVE FreshEnough(q)'
    <3>1. FreshEnough(q) OBVIOUS
    <3>2. CASE q = k
      <4>1. held'[q].seen = loading[q].seen /\ loading'[q] = NoLoad /\ loading'[q].at = "idle"
        BY <1>0, <2>1, <2>2, <3>2
      <4> QED BY <1>3, <2>1, <3>1, <3>2, <4>1 DEF FreshEnough, AnswerEntry, OnPage, owed
    <3>3. CASE q # k
      <4>1. held'[q] = held[q] /\ loading'[q] = loading[q] BY <2>1, <3>3
      <4> QED BY <1>3, <3>1, <4>1 DEF FreshEnough, AnswerEntry, OnPage, owed
    <3> QED BY <3>2, <3>3
  <2> QED BY <1>3, <2>3, <2>4 DEF AnswerEntry, OneMove, OneMovePerFilling, owed
<1>4. ASSUME NEW k \in Keys, FailEntry(k) PROVE DeskInv'
  <2> DEFINE e == [held[k] EXCEPT !.good = FALSE]
  <2>1. /\ held' = [held EXCEPT ![k] = e] /\ loading' = [loading EXCEPT ![k] = NoLoad]
    BY <1>4 DEF FailEntry
  <2>2. e \in Helds /\ e.good = FALSE OBVIOUS
  <2> HIDE DEF e
  <2>3. loading' \in [Keys -> Loads] /\ held' \in [Keys -> Helds] BY <1>0, <2>1, <2>2
  <2>4. ASSUME NEW q \in Keys PROVE FreshEnough(q)'
    <3>1. FreshEnough(q) OBVIOUS
    <3>2. CASE q = k
      <4>1. held'[q].good = FALSE /\ loading'[q] = NoLoad /\ loading'[q].at = "idle" BY <1>0, <2>1, <2>2, <3>2
      <4> QED BY <1>4, <3>1, <4>1 DEF FreshEnough, FailEntry, OnPage, owed
    <3>3. CASE q # k
      <4>1. held'[q] = held[q] /\ loading'[q] = loading[q] BY <2>1, <3>3
      <4> QED BY <1>4, <3>1, <4>1 DEF FreshEnough, FailEntry, OnPage, owed
    <3> QED BY <3>2, <3>3
  <2> QED BY <1>4, <2>3, <2>4 DEF FailEntry, OneMove, OneMovePerFilling, owed
<1>5. ASSUME NEW l \in Learners, Inspect(l) PROVE DeskInv'
  <2> DEFINE e == IF loading[l] = NoLoad THEN Sent ELSE loading[l]
  <2>1. loading' = [loading EXCEPT ![l] = e] /\ inspected' = l BY <1>5 DEF Inspect
  <2>2. l \in Keys BY DEF Keys
  <2>3. e \in Loads /\ (e = loading[l] \/ e.at = "asked") BY <1>0, <2>2
  <2> HIDE DEF e
  <2>4. loading' \in [Keys -> Loads] BY <2>1, <2>3
  <2>5. ASSUME NEW q \in Keys PROVE FreshEnough(q)'
    <3>1. FreshEnough(q) /\ (loading'[q] = loading[q] \/ loading'[q].at = "asked")
      BY <2>1, <2>2, <2>3
    <3>2. UNCHANGED <<due, taken, held>> BY <1>5 DEF Inspect
    <3>3. CASE q = l
      <4>1. \/ /\ loading'[q] = loading[q] /\ loading[q] # NoLoad
               /\ q \in passed' <=> q \in passed
            \/ loading'[q].at = "asked"
        BY <1>0, <1>5, <2>1, <2>2, <3>3 DEF Inspect, e
      <4>2. CASE loading'[q].at = "asked" BY <3>1, <3>2, <4>2 DEF FreshEnough
      <4>3. CASE /\ loading'[q] = loading[q] /\ loading[q] # NoLoad
                 /\ (q \in passed' <=> q \in passed)
        BY <3>1, <3>2, <4>3 DEF FreshEnough
      <4> QED BY <4>1, <4>2, <4>3
    <3>4. CASE q # l
      <4>1. q \in passed' <=> q \in passed BY <1>5, <3>4 DEF Inspect
      <4>2. OnPage(q)' => OnPage(q) BY <2>1, <3>4 DEF OnPage
      <4>3. loading'[q] = loading[q] BY <2>1, <3>4
      <4> QED BY <3>1, <3>2, <4>1, <4>2, <4>3 DEF FreshEnough
    <3> QED BY <3>3, <3>4
  <2> QED BY <1>5, <2>1, <2>4, <2>5 DEF Inspect, OneMove, OneMovePerFilling
<1>6. CASE Fill
  <2>1. form' = [EmptyForm EXCEPT !.filled = TRUE] BY <1>6 DEF Fill
  <2>2. form' \in Forms /\ form'.kept = 0 BY <1>0, <2>1
  <2> QED BY <1>6, <2>2 DEF Fill, FreshEnough, OneMove, OneMovePerFilling, OnPage, owed
<1>7. CASE Submit
  <2>1. job' = [at |-> "sent", of |-> inspected] /\ job.at # "taken" /\ inspected \in Keys
    BY <1>0, <1>7 DEF Submit, Underway
  <2>2. job' \in Jobs /\ job'.at = "sent" BY <2>1
  <2> QED BY <1>7, <2>1, <2>2 DEF Submit, FreshEnough, OneMove, OneMovePerFilling, OnPage, owed
<1>8. CASE Change
  <2>1. job' = [at |-> "sent", of |-> List] /\ job.at # "taken" /\ List \in Keys
    BY <1>8 DEF Change, Underway, Keys
  <2>2. job' \in Jobs /\ job'.at = "sent" BY <2>1
  <2> QED BY <1>8, <2>1, <2>2 DEF Change, FreshEnough, OneMove, OneMovePerFilling, OnPage, owed
<1>9. CASE Take
  <2>1. /\ job' = [job EXCEPT !.at = "taken"] /\ job.at = "sent"
        /\ MakeChange(job.of) /\ UNCHANGED <<desk, held, loading, inspected, due, passed>>
        /\ form' = form \/ form' = [form EXCEPT !.kept = @ + 1]
    BY <1>9 DEF Take, owed
  <2>2. job' \in Jobs /\ job'.at = "taken" BY <2>1
  <2>3. taken' \in [Keys -> Nat] /\ \A k \in Keys : FreshEnough(k)'
    BY <2>1, ChangedMeanwhile
  <2>4. form' \in Forms /\ form'.errors = form.errors /\ form'.kept <= form.kept + 1 BY <2>1
  <2>5. form.errors # 1 => form.kept = 0 BY <2>1 DEF OneMove
  <2>6. OneMove' BY <2>2, <2>4, <2>5 DEF OneMove, OneMovePerFilling
  <2> QED BY <2>1, <2>2, <2>3, <2>4, <2>6
<1>10. CASE Succeed
  <2>1. /\ job' = [job EXCEPT !.at = "success"] /\ form' = EmptyForm
        /\ AskAgain(Evidence) /\ NoteDue /\ UNCHANGED <<taken, held, inspected, desk>>
    BY <1>10 DEF Succeed
  <2>2. job' \in Jobs BY <2>1
  <2>3. OneMove' BY <1>0, <2>1 DEF OneMove, OneMovePerFilling
  <2>4. loading' \in [Keys -> Loads] /\ due' \in [Keys -> Nat]
        /\ \A k \in Keys : FreshEnough(k)'
    BY <2>1, AskedAgain
  <2> QED BY <1>0, <2>1, <2>2, <2>3, <2>4
<1>11. CASE Fail
  <2>1. /\ job' = [job EXCEPT !.at = "error"] /\ form' = [form EXCEPT !.errors = 1]
        /\ (AskAgain(Evidence) /\ NoteDue) \/ UNCHANGED <<loading, due, passed>>
        /\ UNCHANGED <<taken, held, inspected, desk>>
    BY <1>11 DEF Fail, owed
  <2>2. job' \in Jobs BY <2>1
  <2>3. form' \in Forms /\ form'.errors = 1 BY <2>1
  <2>4. OneMove' BY <2>3 DEF OneMove, OneMovePerFilling
  <2>5. CASE AskAgain(Evidence) /\ NoteDue
    <3>1. loading' \in [Keys -> Loads] /\ due' \in [Keys -> Nat]
          /\ \A k \in Keys : FreshEnough(k)'
      BY <2>1, <2>5, AskedAgain
    <3> QED BY <2>1, <2>2, <2>3, <2>4, <3>1
  <2>6. CASE UNCHANGED <<loading, due, passed>>
    BY <2>1, <2>2, <2>3, <2>4, <2>6 DEF FreshEnough, OnPage
  <2> QED BY <2>1, <2>5, <2>6
<1>12. ASSUME NEW k \in Keys, TakeLate(k) PROVE DeskInv'
  <2>1. /\ MakeChange(k) /\ UNCHANGED <<desk, held, loading, inspected, job, due, passed>>
        /\ form' = form \/ (form.errors = 1 /\ form' = [form EXCEPT !.kept = @ + 1])
    BY <1>12 DEF TakeLate, owed
  <2>2. taken' \in [Keys -> Nat] /\ \A q \in Keys : FreshEnough(q)'
    BY <2>1, ChangedMeanwhile
  <2>3. form' \in Forms /\ (form' = form \/ form'.errors = 1) BY <2>1
  <2>4. OneMove' BY <2>1, <2>3 DEF OneMove, OneMovePerFilling
  <2> QED BY <2>1, <2>2, <2>3, <2>4
<1>13. CASE UNCHANGED deskVars
  BY <1>13 DEF deskVars, FreshEnough, OneMove, OneMovePerFilling, OnPage, owed
<1> QED
  BY <1>1, <1>2, <1>3, <1>4, <1>5, <1>6, <1>7, <1>8, <1>9, <1>10, <1>11, <1>12, <1>13
  DEF DeskNext

(* The forms of the client stand (FormsHold), with the exceptions that its *)
(* parts name: by the invariants of the four forms, over any texts,        *)
(* contents, policies, learners and bounds.                                *)
THEOREM FormsStand ==
    SearchSpec /\ DraftSpec /\ SettingsSpec /\ DeskSpec => []FormsHold
<1>1. DeskInv => EvidenceFresh /\ OneMovePerFilling
  <2> SUFFICES ASSUME DeskInv, NEW k \in Keys \ passed, Shown(k), loading[k] = NoLoad
               PROVE  held[k].seen >= due[k]
    BY DEF DeskInv, OneMove, EvidenceFresh
  <2> QED BY DEF DeskInv, FreshEnough, Shown, NoLoad
<1>2. SearchInv /\ SettingsInv /\ DraftInv /\ DeskInv => FormsHold
  BY <1>1, SearchSpeaks DEF FormsHold, SettingsInv, DraftInv
<1>3. SearchSpec => []SearchInv BY InitSearchInv, SearchStep, PTL DEF SearchSpec
<1>4. DraftSpec => []DraftInv BY InitDraftInv, DraftStep, PTL DEF DraftSpec
<1>5. SettingsSpec => []SettingsInv BY InitSettingsInv, SettingsStep, PTL DEF SettingsSpec
<1>6. DeskSpec => []DeskInv BY InitDeskInv, DeskStep, PTL DEF DeskSpec
<1> QED BY <1>2, <1>3, <1>4, <1>5, <1>6, PTL

-----------------------------------------------------------------------------
(***************************************************************************)
(* The years of the reader's studies.                                      *)
(***************************************************************************)
(* An answer kept or on its way is of its year, which it names if it names *)
(* any; the years asked for, like the one on show, were studied or are     *)
(* this one.                                                               *)
Known == studied \cup {ThisYear}
OfItsYear(answer, y) == answer.days = y /\ (answer.years = {} \/ y \in answer.years)
AnswersOfYear == [days : Years, years : SUBSET Years]

YearInv ==
    /\ studied \subseteq Years /\ year \in Known /\ requested \subseteq Known
    /\ keptYears \in [Years -> AnswersOfYear \cup {NoStats}]
    /\ said \in [Years -> AnswersOfYear \cup {NoStats}]
    /\ \A y \in Years :
          /\ keptYears[y] # NoStats =>
                OfItsYear(keptYears[y], y) /\ keptYears[y].years \subseteq Known
          /\ said[y] # NoStats => OfItsYear(said[y], y) /\ said[y].years \subseteq Known

LEMMA InitYearInv == InitYears => YearInv
BY YearsAssumption DEF InitYears, YearInv, Known

LEMMA AskedYear ==
    ASSUME YearInv, NEW y \in Known, AskForYear(y)
    PROVE  requested' \subseteq Known /\ said' = said
BY DEF AskForYear, YearInv, StatsQueryKey

LEMMA YearStep == YearInv /\ [YearNext]_yearVars => YearInv'
<1> SUFFICES ASSUME YearInv, [YearNext]_yearVars PROVE YearInv' OBVIOUS
<1>0. Known \subseteq Years BY YearsAssumption DEF YearInv, Known
<1>1. ASSUME NEW y \in Years, ChooseYear(y) PROVE YearInv'
  <2>1. year \in Years /\ y \in Known
    BY <1>0, <1>1 DEF ChooseYear, OfferedYears, YearQuery, StatsQueryKey, YearInv
  <2>2. requested' \subseteq Known /\ said' = said BY <1>1, <2>1, AskedYear DEF ChooseYear
  <2> QED BY <1>1, <2>1, <2>2 DEF ChooseYear, YearInv, Known, OfItsYear
<1>2. CASE FocusYear
  <2>1. requested' \subseteq Known /\ said' = said
    BY <1>2, AskedYear DEF FocusYear, YearInv
  <2> QED BY <1>2, <2>1 DEF FocusYear, YearInv, Known, OfItsYear
<1>3. ASSUME NEW y \in Years, ServeYear(y) PROVE YearInv'
  <2>1. /\ y \in Known /\ requested' \subseteq requested
        /\ said' = [said EXCEPT ![y] = StatsOf(y)]
        /\ UNCHANGED <<year, keptYears, studied>>
    BY <1>3 DEF ServeYear, YearInv
  <2>2. /\ StatsOf(y) \in AnswersOfYear /\ OfItsYear(StatsOf(y), y)
        /\ StatsOf(y).years \subseteq Known
    BY <1>0, <2>1 DEF StatsOf, AnswersOfYear, OfItsYear, Known
  <2> QED BY <2>1, <2>2 DEF YearInv, Known
<1>4. ASSUME NEW y \in Years, AnswerYear(y) PROVE YearInv'
  <2>1. PICK years \in {said[y].years, {}} :
            keptYears' = [keptYears EXCEPT ![y] = [said[y] EXCEPT !.years = years]]
    BY <1>4 DEF AnswerYear
  <2>2. /\ said[y] \in AnswersOfYear /\ OfItsYear(said[y], y) /\ said[y].years \subseteq Known
        /\ said' = [said EXCEPT ![y] = NoStats]
        /\ UNCHANGED <<year, requested, studied>>
    BY <1>4 DEF AnswerYear, YearInv
  <2> DEFINE answer == [said[y] EXCEPT !.years = years]
  <2>3. /\ answer \in AnswersOfYear /\ OfItsYear(answer, y) /\ answer.years \subseteq Known
    BY <2>1, <2>2 DEF AnswersOfYear, OfItsYear
  <2> HIDE DEF answer
  <2>4. keptYears' = [keptYears EXCEPT ![y] = answer] BY <2>1 DEF answer
  <2> QED BY <2>2, <2>3, <2>4 DEF YearInv, Known
<1>5. ASSUME NEW y \in Years, FailYear(y) PROVE YearInv'
  BY <1>5 DEF FailYear, YearInv, Known, OfItsYear
<1>6. CASE StudyElsewhere
  BY <1>6 DEF StudyElsewhere, YearInv, Known, OfItsYear
<1>7. CASE UNCHANGED yearVars BY <1>7 DEF yearVars, YearInv, Known, OfItsYear
<1> QED BY <1>1, <1>2, <1>3, <1>4, <1>5, <1>6, <1>7 DEF YearNext

LEMMA YearsFollow == YearInv => YearsHold
<1> SUFFICES ASSUME YearInv PROVE YearsHold OBVIOUS
<1>1. year \in Years BY YearsAssumption DEF YearInv, Known
<1> QED BY <1>1 DEF YearInv, YearsHold, OfferedYears, YearQuery, StatsQueryKey, OfItsYear

-----------------------------------------------------------------------------
(* The list of enrolments: with nothing asked, nothing said and no change  *)
(* that the server has taken under way, it is what the server has; so is   *)
(* what is said.                                                           *)
Job == [stage : {"asked", "taken"}, verb : {"enroll", "unenroll"}, course : Courses,
        here : BOOLEAN]
Taken == {j \in jobs : j.stage = "taken"}
Told ==
    Taken = {} /\ ~unsure /\ ~listAsked =>
        /\ listSaid \subseteq {enrolled}
        /\ listSaid = {} /\ ~listFailed => list = enrolled

ListInv == jobs \subseteq Job /\ Told

LEMMA JobsAre ==
    /\ \A j \in Job : /\ [j EXCEPT !.here = FALSE] \in Job
                     /\ [j EXCEPT !.here = FALSE].stage = j.stage
                     /\ [j EXCEPT !.stage = "taken"] \in Job
                     /\ [j EXCEPT !.stage = "taken"].stage = "taken"
    /\ \A verb \in {"enroll", "unenroll"}, c \in Courses :
          [stage |-> "asked", verb |-> verb, course |-> c, here |-> TRUE] \in Job
BY DEF Job

LEMMA InitListInv == InitHome => ListInv
BY DEF InitHome, ListInv, Told

LEMMA ListStep == ListInv /\ [HomeNext]_homeVars => ListInv'
<1> SUFFICES ASSUME ListInv, [HomeNext]_homeVars PROVE ListInv' OBVIOUS
<1> USE JobsAre DEF ListInv, Told, Taken
<1>1. ASSUME NEW to \in Pages, Visit(to) PROVE ListInv'
  <2>1. /\ listAsked' = (listAsked \/ listSaid = {}) /\ listSaid' = listSaid
        /\ UNCHANGED <<enrolled, list, unsure>>
    BY <1>1 DEF Visit, FetchList
  <2>2. \A j \in Taken : \E k \in jobs' : k.stage = "taken"
    <3> SUFFICES ASSUME NEW j \in Taken PROVE \E k \in jobs' : k.stage = "taken" OBVIOUS
    <3>1. j \in jobs' \/ [j EXCEPT !.here = FALSE] \in jobs' BY <1>1 DEF Visit, Moved
    <3> QED BY <3>1
  <2>3. jobs' \subseteq Job BY <1>1 DEF Visit, Moved
  <2> QED BY <2>1, <2>2, <2>3
<1>2. ASSUME NEW verb \in {"enroll", "unenroll"}, AskEnrolment(verb) PROVE ListInv'
  BY <1>2 DEF AskEnrolment
<1>3. CASE ServeList BY <1>3 DEF ServeList
<1>4. CASE AnswerList BY <1>4 DEF AnswerList
<1>5. CASE FailList BY <1>5 DEF FailList
<1>6. CASE AnswerProgress BY <1>6 DEF AnswerProgress
<1>7. CASE AnswerStats BY <1>7 DEF AnswerStats
<1>8. ASSUME NEW j \in jobs, TakeEnrolment(j) PROVE ListInv'
  <2>1. [j EXCEPT !.stage = "taken"] \in jobs' /\ jobs' \subseteq Job
    BY <1>8 DEF TakeEnrolment
  <2> QED BY <2>1
<1>9. ASSUME NEW j \in jobs, EnrolmentDone(j) PROVE ListInv'
  <2>1. jobs' = {[k EXCEPT !.here = FALSE] : k \in jobs \ {j}} \/ jobs' = jobs \ {j}
    BY <1>9 DEF EnrolmentDone
  <2>2. {[k EXCEPT !.here = FALSE] : k \in jobs \ {j}} \subseteq Job OBVIOUS
  <2>3. jobs' \subseteq Job BY <2>1, <2>2
  <2> QED BY <1>9, <2>3 DEF EnrolmentDone, InvalidateList
<1>10. ASSUME NEW j \in jobs, EnrolmentFails(j) PROVE ListInv'
  BY <1>10 DEF EnrolmentFails
<1>11. CASE UNCHANGED homeVars BY <1>11 DEF homeVars
<1> QED
  BY <1>1, <1>2, <1>3, <1>4, <1>5, <1>6, <1>7, <1>8, <1>9, <1>10, <1>11 DEF HomeNext

LEMMA ListFollows == ListInv => ListIsCurrent
BY DEF ListInv, Told, Taken, ListIsCurrent

-----------------------------------------------------------------------------
(* A set of numbers that is not empty has a least one. *)
LEMMA LeastOf ==
    ASSUME NEW S, S \subseteq Nat, S # {}
    PROVE  \E m \in S : \A i \in S : m <= i
<1>1. PICK m \in S : \A i \in S : ~ (<<i, m>> \in OpToRel(<, Nat))
  BY NatLessThanWellFounded, WFMin
<1>2. \A i \in S : i \in Nat /\ m \in Nat OBVIOUS
<1>3. \A i \in S : ~(i < m) BY <1>1, <1>2 DEF OpToRel
<1> QED BY <1>2, <1>3

(* Induction: a set that has 0 and, with a number, the next one, has all. *)
LEMMA Induction ==
    ASSUME NEW S, S \subseteq Nat, 0 \in S, \A n \in S : n + 1 \in S
    PROVE  S = Nat
<1> DEFINE missing == Nat \ S
<1>1. SUFFICES ASSUME missing # {} PROVE FALSE OBVIOUS
<1>2. PICK m \in missing : \A i \in missing : m <= i
  <2> HIDE DEF missing
  <2>1. missing \subseteq Nat BY DEF missing
  <2> QED BY <1>1, <2>1, LeastOf
<1>3. m \in Nat /\ m # 0 OBVIOUS
<1>4. m - 1 \in Nat /\ ~(m <= m - 1) BY <1>3
<1>5. m - 1 \in S BY <1>2, <1>4
<1>6. (m - 1) + 1 = m BY <1>3
<1> QED BY <1>3, <1>5, <1>6

-----------------------------------------------------------------------------
(* The lists of courses have each course once.                             *)
Lists == {ids \in Seq(Courses) : \A i, j \in DOMAIN ids : ids[i] = ids[j] => i = j}
ListsKept ==
    enrolled \in Lists /\ listSaid \subseteq Lists /\ (list # NoList => list \in Lists)

(* What is kept of the first courses. *)
KeptOf(ids, course, n, prefix) ==
    prefix = [i \in 0 .. n |->
               IF i = 0 THEN <<>>
               ELSE IF ids[i] = course THEN prefix[i - 1] ELSE Append(prefix[i - 1], ids[i])]

LEMMA KeptExists ==
    ASSUME NEW ids, NEW course, NEW n \in Nat
    PROVE  \E prefix : KeptOf(ids, course, n, prefix)
<1> DEFINE next(so, i) == IF ids[i] = course THEN so ELSE Append(so, ids[i])
           S == {m \in Nat : \E prefix : KeptOf(ids, course, m, prefix)}
<1>0. \A prefix, m : KeptOf(ids, course, m, prefix) <=>
                prefix = [i \in 0 .. m |-> IF i = 0 THEN <<>> ELSE next(prefix[i - 1], i)]
  BY DEF KeptOf
<1> HIDE DEF next
<1>1. 0 \in S
  <2> DEFINE first == [i \in 0 .. 0 |-> <<>>]
  <2>1. first = [i \in 0 .. 0 |-> IF i = 0 THEN <<>> ELSE next(first[i - 1], i)] OBVIOUS
  <2>2. KeptOf(ids, course, 0, first) BY <1>0, <2>1
  <2> QED BY <2>2
<1>2. ASSUME NEW m \in S PROVE m + 1 \in S
  <2>1. PICK h : KeptOf(ids, course, m, h) OBVIOUS
  <2> DEFINE g == [i \in 0 .. m + 1 |-> IF i = m + 1 THEN next(h[m], i) ELSE h[i]]
  <2>2. m \in Nat OBVIOUS
  <2>3. \A i \in 0 .. m : g[i] = h[i] BY <2>2
  <2>4. h = [i \in 0 .. m |-> IF i = 0 THEN <<>> ELSE next(h[i - 1], i)] BY <1>0, <2>1
  <2>5. \A i \in 0 .. m + 1 : g[i] = IF i = 0 THEN <<>> ELSE next(g[i - 1], i)
    <3> SUFFICES ASSUME NEW i \in 0 .. m + 1
                 PROVE  g[i] = IF i = 0 THEN <<>> ELSE next(g[i - 1], i)
      OBVIOUS
    <3>1. CASE i = m + 1
      <4>1. g[i - 1] = h[m] BY <2>2, <2>3, <3>1
      <4> QED BY <2>2, <3>1, <4>1
    <3>2. CASE i # m + 1
      <4>1. i \in 0 .. m /\ g[i] = h[i] BY <2>2, <3>2
      <4>2. i # 0 => g[i - 1] = h[i - 1] BY <2>2, <2>3, <4>1
      <4>3. h[i] = IF i = 0 THEN <<>> ELSE next(h[i - 1], i)
        <5> HIDE DEF g
        <5> QED BY <2>4, <4>1
      <4> QED BY <4>1, <4>2, <4>3
    <3> QED BY <3>1, <3>2
  <2>6. g = [i \in 0 .. m + 1 |-> IF i = 0 THEN <<>> ELSE next(g[i - 1], i)] BY <2>5
  <2>7. KeptOf(ids, course, m + 1, g)
    <3> HIDE DEF g
    <3> QED BY <1>0, <2>6
  <2> QED BY <2>2, <2>7
<1>3. S \subseteq Nat OBVIOUS
<1>4. S = Nat
  <2> HIDE DEF S
  <2> QED BY <1>1, <1>2, <1>3, Induction
<1> QED BY <1>4

(* Without leaves the other courses of a list, and one fewer. *)
LEMMA WithoutOne ==
    ASSUME NEW ids \in Lists, NEW course
    PROVE  /\ Without(ids, course) \in Lists
           /\ Range(Without(ids, course)) = Range(ids) \ {course}
           /\ course \in Range(ids) => Len(Without(ids, course)) + 1 = Len(ids)
<1> DEFINE n == Len(ids)
           K == CHOOSE prefix : KeptOf(ids, course, n, prefix)
<1>1. /\ n \in Nat /\ DOMAIN ids = 1 .. n /\ \A i \in 1 .. n : ids[i] \in Courses
      /\ \A i, j \in 1 .. n : ids[i] = ids[j] => i = j
  BY DEF Lists
<1>2. Without(ids, course) = K[n] BY DEF Without, KeptOf
<1>3. KeptOf(ids, course, n, K) BY <1>1, KeptExists
<1> HIDE DEF n, K
<1>4. /\ K[0] = <<>>
      /\ \A i \in 1 .. n : K[i] = IF ids[i] = course THEN K[i - 1] ELSE Append(K[i - 1], ids[i])
  <2>1. K = [i \in 0 .. n |->
               IF i = 0 THEN <<>>
               ELSE IF ids[i] = course THEN K[i - 1] ELSE Append(K[i - 1], ids[i])]
    BY <1>3 DEF KeptOf
  <2>2. 0 \in 0 .. n /\ \A i \in 1 .. n : i \in 0 .. n /\ i # 0 BY <1>1
  <2> QED BY <2>1, <2>2
<1> DEFINE Good(i) == /\ K[i] \in Seq(Courses)
                      /\ \A a, b \in DOMAIN K[i] : K[i][a] = K[i][b] => a = b
                      /\ \A a \in DOMAIN K[i] : \E j \in 1 .. i : K[i][a] = ids[j] /\ ids[j] # course
                      /\ \A j \in 1 .. i : ids[j] # course => \E a \in DOMAIN K[i] : K[i][a] = ids[j]
                      /\ (\A j \in 1 .. i : ids[j] # course) => Len(K[i]) = i
                      /\ (\E j \in 1 .. i : ids[j] = course) => Len(K[i]) + 1 = i
           S == {i \in Nat : i <= n => Good(i)}
<1>5. 0 \in S
  <2>1. K[0] \in Seq(Courses) /\ DOMAIN K[0] = {} /\ Len(K[0]) = 0 BY <1>4
  <2>2. \A j \in 1 .. 0 : FALSE OBVIOUS
  <2>3. Good(0) BY <2>1, <2>2
  <2> QED BY <2>3
<1>6. ASSUME NEW i \in S PROVE i + 1 \in S
  <2>1. SUFFICES ASSUME i + 1 <= n PROVE Good(i + 1) OBVIOUS
  <2>2. i \in Nat /\ Good(i) /\ i + 1 \in 1 .. n /\ (i + 1) - 1 = i BY <1>1, <2>1
  <2>3. \A j \in 1 .. i + 1 : j \in 1 .. n /\ (j \in 1 .. i \/ j = i + 1) BY <1>1, <2>2
  <2>4. \A j \in 1 .. i : j \in 1 .. i + 1 /\ j # i + 1 BY <2>2
  <2> DEFINE before == K[i]
  <2>5. CASE ids[i + 1] = course
    <3>1. K[i + 1] = K[i] BY <1>4, <2>2, <2>5
    <3>2. \A j \in 1 .. i : ids[j] # course BY <1>1, <2>2, <2>3, <2>4, <2>5
    <3>3. i + 1 \in 1 .. i + 1 BY <2>2
    <3>4. /\ before \in Seq(Courses)
          /\ \A a, b \in DOMAIN before : before[a] = before[b] => a = b
          /\ \A a \in DOMAIN before : \E j \in 1 .. i : before[a] = ids[j] /\ ids[j] # course
          /\ \A j \in 1 .. i : ids[j] # course => \E a \in DOMAIN before : before[a] = ids[j]
          /\ Len(before) = i
      BY <2>2, <3>2
    <3>5. K[i + 1] = before BY <3>1
    <3> HIDE DEF before
    <3>6. \A a \in DOMAIN before : \E j \in 1 .. i + 1 : before[a] = ids[j] /\ ids[j] # course
      BY <2>4, <3>4
    <3>7. \A j \in 1 .. i + 1 : ids[j] # course => \E a \in DOMAIN before : before[a] = ids[j]
      BY <2>3, <2>5, <3>4
    <3>8. ~ \A j \in 1 .. i + 1 : ids[j] # course BY <2>5, <3>3
    <3> QED BY <3>4, <3>5, <3>6, <3>7, <3>8
  <2>6. CASE ids[i + 1] # course
    <3>1. K[i + 1] = Append(before, ids[i + 1]) BY <1>4, <2>2, <2>6
    <3>2. ids[i + 1] \in Courses BY <1>1, <2>2
    <3>3. /\ before \in Seq(Courses) /\ Len(before) \in Nat /\ DOMAIN before = 1 .. Len(before)
          /\ \A a, b \in DOMAIN before : before[a] = before[b] => a = b
          /\ \A a \in DOMAIN before : \E j \in 1 .. i : before[a] = ids[j] /\ ids[j] # course
          /\ \A j \in 1 .. i : ids[j] # course => \E a \in DOMAIN before : before[a] = ids[j]
          /\ (\A j \in 1 .. i : ids[j] # course) => Len(before) = i
          /\ (\E j \in 1 .. i : ids[j] = course) => Len(before) + 1 = i
      BY <2>2
    <3>4. \A a \in DOMAIN before : before[a] # ids[i + 1]
      BY <1>1, <2>2, <2>3, <2>4, <3>3
    <3> HIDE DEF before
    <3> DEFINE now == Append(before, ids[i + 1])
    <3>5. /\ now \in Seq(Courses) /\ Len(now) = Len(before) + 1
          /\ DOMAIN now = 1 .. Len(before) + 1
          /\ now[Len(before) + 1] = ids[i + 1]
          /\ \A a \in DOMAIN before : a \in DOMAIN now /\ now[a] = before[a]
          /\ \A a \in DOMAIN now : a \in DOMAIN before \/ a = Len(before) + 1
          /\ Len(before) + 1 \in DOMAIN now
      BY <3>2, <3>3
    <3> HIDE DEF now
    <3>6. \A a, b \in DOMAIN now : now[a] = now[b] => a = b
      <4> SUFFICES ASSUME NEW a \in DOMAIN now, NEW b \in DOMAIN now, now[a] = now[b]
                   PROVE  a = b
        OBVIOUS
      <4>1. CASE a \in DOMAIN before /\ b \in DOMAIN before BY <3>3, <3>5, <4>1
      <4>2. CASE a \in DOMAIN before /\ b = Len(before) + 1 BY <3>4, <3>5, <4>2
      <4>3. CASE a = Len(before) + 1 /\ b \in DOMAIN before BY <3>4, <3>5, <4>3
      <4>4. CASE a = Len(before) + 1 /\ b = Len(before) + 1 BY <4>4
      <4> QED BY <3>5, <4>1, <4>2, <4>3, <4>4
    <3>7. \A a \in DOMAIN now : \E j \in 1 .. i + 1 : now[a] = ids[j] /\ ids[j] # course
      <4> SUFFICES ASSUME NEW a \in DOMAIN now
                   PROVE  \E j \in 1 .. i + 1 : now[a] = ids[j] /\ ids[j] # course
        OBVIOUS
      <4>1. CASE a \in DOMAIN before
        <5>1. now[a] = before[a] BY <3>5, <4>1
        <5>2. PICK j \in 1 .. i : before[a] = ids[j] /\ ids[j] # course BY <3>3, <4>1
        <5> QED BY <2>4, <5>1, <5>2
      <4>2. CASE a = Len(before) + 1
        <5>1. i + 1 \in 1 .. i + 1 BY <2>2
        <5> QED BY <2>6, <3>5, <4>2, <5>1
      <4> QED BY <3>5, <4>1, <4>2
    <3>8. \A j \in 1 .. i + 1 : ids[j] # course => \E a \in DOMAIN now : now[a] = ids[j]
      <4> SUFFICES ASSUME NEW j \in 1 .. i + 1, ids[j] # course
                   PROVE  \E a \in DOMAIN now : now[a] = ids[j]
        OBVIOUS
      <4>1. CASE j \in 1 .. i
        <5>1. PICK a \in DOMAIN before : before[a] = ids[j] BY <3>3, <4>1
        <5>2. a \in DOMAIN now /\ now[a] = before[a] BY <3>5
        <5> QED BY <5>1, <5>2
      <4>2. CASE j = i + 1 BY <3>5, <4>2
      <4> QED BY <2>3, <4>1, <4>2
    <3>9. (\A j \in 1 .. i + 1 : ids[j] # course) => Len(now) = i + 1
      BY <2>4, <3>3, <3>5
    <3>10. (\E j \in 1 .. i + 1 : ids[j] = course) => Len(now) + 1 = i + 1
      <4>1. (\E j \in 1 .. i + 1 : ids[j] = course) => \E j \in 1 .. i : ids[j] = course
        BY <2>3, <2>6
      <4> QED BY <2>2, <3>3, <3>5, <4>1
    <3>11. K[i + 1] = now BY <3>1 DEF now
    <3> QED BY <3>5, <3>6, <3>7, <3>8, <3>9, <3>10, <3>11
  <2> QED BY <2>5, <2>6
<1>7. S \subseteq Nat OBVIOUS
<1>8. S = Nat
  <2> HIDE DEF S
  <2> QED BY <1>5, <1>6, <1>7, Induction
<1>9. Good(n)
  <2>1. n \in S BY <1>1, <1>8
  <2>2. n <= n BY <1>1
  <2> HIDE DEF Good
  <2> QED BY <2>1, <2>2
<1>10. K[n] \in Lists BY <1>9 DEF Lists
<1>11. Range(K[n]) = Range(ids) \ {course} BY <1>1, <1>9 DEF Range
<1>12. course \in Range(ids) => Len(K[n]) + 1 = n BY <1>1, <1>9 DEF Range
<1> QED BY <1>2, <1>10, <1>11, <1>12 DEF n

LEMMA InitListsKept == InitHome => ListsKept
<1> SUFFICES ASSUME InitHome PROVE ListsKept OBVIOUS
<1>1. \A c \in Courses : <<c>> \in Lists BY DEF Lists
<1>2. <<>> \in Lists BY DEF Lists
<1> QED BY <1>1, <1>2 DEF InitHome, ListsKept

LEMMA ListsStep == ListInv /\ ListsKept /\ [HomeNext]_homeVars => ListsKept'
<1> SUFFICES ASSUME ListInv, ListsKept, [HomeNext]_homeVars PROVE ListsKept' OBVIOUS
<1> USE DEF ListsKept
<1>1. ASSUME NEW to \in Pages, Visit(to) PROVE ListsKept' BY <1>1 DEF Visit, FetchList
<1>2. ASSUME NEW verb \in {"enroll", "unenroll"}, AskEnrolment(verb) PROVE ListsKept'
  BY <1>2 DEF AskEnrolment
<1>3. CASE ServeList BY <1>3 DEF ServeList
<1>4. CASE AnswerList BY <1>4 DEF AnswerList
<1>5. CASE FailList BY <1>5 DEF FailList
<1>6. CASE AnswerProgress BY <1>6 DEF AnswerProgress
<1>7. CASE AnswerStats BY <1>7 DEF AnswerStats
<1>8. ASSUME NEW j \in jobs, TakeEnrolment(j) PROVE ListsKept'
  <2>1. j.course \in Courses /\ j.verb \in {"enroll", "unenroll"} BY DEF ListInv, Job
  <2>2. Without(enrolled, j.course) \in Lists BY WithoutOne
  <2>3. j.course \notin Range(enrolled) => Append(enrolled, j.course) \in Lists
    <3> SUFFICES ASSUME j.course \notin Range(enrolled)
                 PROVE  Append(enrolled, j.course) \in Lists
      OBVIOUS
    <3> DEFINE now == Append(enrolled, j.course)
    <3>1. /\ enrolled \in Seq(Courses) /\ Len(enrolled) \in Nat
          /\ DOMAIN enrolled = 1 .. Len(enrolled)
          /\ \A a, b \in DOMAIN enrolled : enrolled[a] = enrolled[b] => a = b
      BY DEF Lists
    <3>2. \A a \in DOMAIN enrolled : enrolled[a] # j.course BY DEF Range
    <3>3. /\ now \in Seq(Courses) /\ DOMAIN now = 1 .. Len(enrolled) + 1
          /\ now[Len(enrolled) + 1] = j.course
          /\ \A a \in DOMAIN enrolled : now[a] = enrolled[a]
          /\ \A a \in DOMAIN now : a \in DOMAIN enrolled \/ a = Len(enrolled) + 1
      BY <2>1, <3>1
    <3> HIDE DEF now
    <3>4. \A a, b \in DOMAIN now : now[a] = now[b] => a = b
      <4> SUFFICES ASSUME NEW a \in DOMAIN now, NEW b \in DOMAIN now, now[a] = now[b]
                   PROVE  a = b
        OBVIOUS
      <4>1. CASE a \in DOMAIN enrolled /\ b \in DOMAIN enrolled BY <3>1, <3>3, <4>1
      <4>2. CASE a \in DOMAIN enrolled /\ b = Len(enrolled) + 1 BY <3>2, <3>3, <4>2
      <4>3. CASE a = Len(enrolled) + 1 /\ b \in DOMAIN enrolled BY <3>2, <3>3, <4>3
      <4>4. CASE a = Len(enrolled) + 1 /\ b = Len(enrolled) + 1 BY <4>4
      <4> QED BY <3>3, <4>1, <4>2, <4>3, <4>4
    <3>5. now \in Lists BY <3>3, <3>4 DEF Lists
    <3> QED BY <3>5 DEF now
  <2>4. enrolled' \in Lists BY <1>8, <2>1, <2>2, <2>3 DEF TakeEnrolment
  <2> QED BY <1>8, <2>4 DEF TakeEnrolment
<1>9. ASSUME NEW j \in jobs, EnrolmentDone(j) PROVE ListsKept'
  BY <1>9 DEF EnrolmentDone, InvalidateList
<1>10. ASSUME NEW j \in jobs, EnrolmentFails(j) PROVE ListsKept'
  BY <1>10 DEF EnrolmentFails
<1>11. CASE UNCHANGED homeVars BY <1>11 DEF homeVars
<1> QED
  BY <1>1, <1>2, <1>3, <1>4, <1>5, <1>6, <1>7, <1>8, <1>9, <1>10, <1>11 DEF HomeNext

LEMMA ListsFollow == ListsKept => HomeSpeaksTrue
<1> SUFFICES ASSUME ListsKept PROVE HomeSpeaksTrue OBVIOUS
<1>1. EnrolledIds \in Lists
  <2>1. <<>> \in Lists BY DEF Lists
  <2> QED BY <2>1 DEF EnrolledIds, ListsKept
<1>2. /\ DOMAIN EnrolledIds = 1 .. Len(EnrolledIds) /\ Len(EnrolledIds) \in Nat
      /\ \A i \in DOMAIN EnrolledIds : EnrolledIds[i] \in Courses
  BY <1>1 DEF Lists
<1>3. EnrolledIds # <<>> => Head(EnrolledIds) \in Range(EnrolledIds)
  <2>1. EnrolledIds \in Seq(Courses) BY <1>1 DEF Lists
  <2> HIDE DEF EnrolledIds
  <2> QED BY <2>1 DEF Range
<1>4. Range(EnrolledIds) \subseteq Courses BY <1>2 DEF Range
<1>5. /\ FocusCourse # NoCourse => FocusCourse \in Range(EnrolledIds)
      /\ FocusCourse = NoCourse => EnrolledIds = <<>>
      /\ LastStudied \in Range(EnrolledIds) => FocusCourse = LastStudied
  BY <1>3, <1>4, NoCourseAssumption DEF FocusCourse, PickFocusCourse
<1>6. "empty" \in HomeParts => list = <<>>
  <2> SUFFICES ASSUME "empty" \in HomeParts PROVE list = <<>> OBVIOUS
  <2>1. FocusCourse = NoCourse /\ HomeSettled /\ ~listFailed BY DEF HomeParts
  <2>2. list # NoList BY <2>1 DEF HomeSettled, ListIsPending
  <2> QED BY <1>5, <2>1, <2>2 DEF EnrolledIds
<1>7. HomeSettled => \E part \in HomeParts : HomeParts = {part}
  <2> SUFFICES ASSUME HomeSettled PROVE \E part \in HomeParts : HomeParts = {part} OBVIOUS
  <2>1. CASE FocusCourse # NoCourse
    <3>1. HomeParts = {"continue"} BY <2>1 DEF HomeParts
    <3> QED BY <3>1
  <2>2. CASE FocusCourse = NoCourse /\ listFailed
    <3>1. HomeParts = {"error"} BY <2>2 DEF HomeParts
    <3> QED BY <3>1
  <2>3. CASE FocusCourse = NoCourse /\ ~listFailed
    <3>1. HomeParts = {"empty"} BY <2>3 DEF HomeParts
    <3> QED BY <3>1
  <2> QED BY <2>1, <2>2, <2>3
<1>8. FocusCourse # NoCourse =>
          /\ Range(MyCourses) \cup {FocusCourse} = Range(EnrolledIds)
          /\ Len(MyCourses) + 1 = Len(EnrolledIds)
  <2> SUFFICES ASSUME FocusCourse # NoCourse
               PROVE  /\ Range(MyCourses) \cup {FocusCourse} = Range(EnrolledIds)
                      /\ Len(MyCourses) + 1 = Len(EnrolledIds)
    OBVIOUS
  <2>1. /\ Range(MyCourses) = Range(EnrolledIds) \ {FocusCourse}
        /\ FocusCourse \in Range(EnrolledIds) => Len(MyCourses) + 1 = Len(EnrolledIds)
    BY <1>1, WithoutOne DEF MyCourses
  <2> QED BY <1>5, <2>1
<1> QED BY <1>5, <1>6, <1>7, <1>8 DEF HomeSpeaksTrue

-----------------------------------------------------------------------------
(* The page of a story: what it knows is of this route and attempt, it     *)
(* waits only for that, and the document has lent what the story that is   *)
(* shown put over it, and nothing otherwise.                               *)
RouteInv ==
    /\ page.slug = route /\ page.attempt = attempt
    /\ page.status = "ready" => page = Status(route, attempt, "ready")
    /\ imports \subseteq {<<route, attempt>>}
    /\ VisibleStatus = "loading" => imports = {<<route, attempt>>}
    /\ imports # {} => page.status = "loading"
    /\ IF page = Status(route, attempt, "ready")
       THEN /\ title = [of |-> route, in |-> spoken] /\ docTongue = spoken
            /\ \E b \in borrowed : borrowed = {b} /\ b.title = PlainTitle
       ELSE title = PlainTitle /\ borrowed = {}

LEMMA InitRouteInv == InitRoute => RouteInv
<1> SUFFICES ASSUME InitRoute PROVE RouteInv OBVIOUS
<1>1. page.slug = route /\ page.attempt = attempt /\ page.status \in {"loading", "not-found"}
  BY DEF InitRoute, Status
<1>2. page # Status(route, attempt, "ready") BY <1>1 DEF Status
<1> QED BY <1>1, <1>2 DEF InitRoute, RouteInv, VisibleStatus, Status

(* What loading leaves of the page. *)
LEMMA Loaded ==
    ASSUME NEW slug, NEW n, Load(slug, n)
    PROVE  /\ page'.slug = slug /\ page'.attempt = n
           /\ page'.status \in {"loading", "not-found"}
           /\ page'.status = "loading" <=> slug \in Editions
           /\ page' # Status(slug, n, "ready")
           /\ imports' = IF slug \in Editions THEN {<<slug, n>>} ELSE {}
<1>1. /\ page'.slug = slug /\ page'.attempt = n
      /\ page'.status = IF slug \in Editions THEN "loading" ELSE "not-found"
  BY DEF Load, Status
<1>2. page' # Status(slug, n, "ready") BY <1>1 DEF Status
<1> QED BY <1>1, <1>2 DEF Load

LEMMA RouteStep == RouteInv /\ [RouteNext]_routeVars => RouteInv'
<1> SUFFICES ASSUME RouteInv, [RouteNext]_routeVars PROVE RouteInv' OBVIOUS
<1>1. ASSUME NEW slug \in StorySlugs \cup {OtherPage}, GoTo(slug) PROVE RouteInv'
  <2>1. Load(route', attempt') /\ Lend(FALSE, slug, spoken) BY <1>1 DEF GoTo
  <2>2. title' = PlainTitle /\ borrowed' = {}
    BY <2>1 DEF RouteInv, Lend
  <2> QED BY <2>1, <2>2, Loaded DEF RouteInv, VisibleStatus
<1>2. CASE Retry
  <2>1. Load(route', attempt') /\ page.status = "error"
    BY <1>2 DEF Retry, VisibleStatus, RouteInv
  <2>2. page # Status(route, attempt, "ready") BY <2>1 DEF Status
  <2>3. title' = PlainTitle /\ borrowed' = {} BY <1>2, <2>2 DEF Retry, RouteInv
  <2> QED BY <2>1, <2>3, Loaded DEF RouteInv, VisibleStatus
<1>3. CASE EditionLoads
  <2>1. /\ imports = {<<route, attempt>>} /\ imports' = {}
        /\ page' = Status(route, attempt, "ready")
        /\ Lend(IsReady(page', route, attempt), route, spoken)
        /\ UNCHANGED <<route, attempt, spoken>>
    BY <1>3 DEF EditionLoads, RouteInv
  <2>2. page # Status(route, attempt, "ready") BY <2>1 DEF Status, RouteInv
  <2>3. IsReady(page', route, attempt) BY <2>1 DEF IsReady
  <2>4. /\ title' = [of |-> route, in |-> spoken] /\ docTongue' = spoken
        /\ borrowed' = {[title |-> PlainTitle, tongue |-> docTongue]}
    BY <2>1, <2>2, <2>3 DEF RouteInv, Lend
  <2>5. [title |-> PlainTitle, tongue |-> docTongue].title = PlainTitle OBVIOUS
  <2>6. page'.slug = route' /\ page'.attempt = attempt' /\ page'.status = "ready"
    BY <2>1 DEF Status
  <2> QED BY <2>1, <2>4, <2>5, <2>6 DEF RouteInv, VisibleStatus
<1>4. CASE EditionFails
  <2>1. /\ imports = {<<route, attempt>>} /\ imports' = {}
        /\ page' = Status(route, attempt, "error")
        /\ UNCHANGED <<route, attempt, spoken, title, docTongue, borrowed>>
    BY <1>4 DEF EditionFails, RouteInv
  <2>2. page # Status(route, attempt, "ready") BY <2>1 DEF Status, RouteInv
  <2>3. /\ page'.slug = route' /\ page'.attempt = attempt' /\ page'.status = "error"
        /\ page' # Status(route', attempt', "ready")
    BY <2>1 DEF Status
  <2> QED BY <2>1, <2>2, <2>3 DEF RouteInv, VisibleStatus
<1>5. ASSUME NEW tongue \in Tongues, SetLang(tongue) PROVE RouteInv'
  <2>0. UNCHANGED <<route, attempt, page, imports>> /\ spoken' = tongue BY <1>5 DEF SetLang
  <2>1. CASE page = Status(route, attempt, "ready")
    <3>1. PICK b \in borrowed : borrowed = {b} /\ b.title = PlainTitle BY <2>1 DEF RouteInv
    <3>2. (CHOOSE c \in borrowed : TRUE) = b BY <3>1
    <3>3. /\ borrowed' = {b} /\ title' = [of |-> route, in |-> tongue] /\ docTongue' = tongue
      BY <1>5, <3>1, <3>2 DEF SetLang, Lend
    <3> QED BY <2>0, <2>1, <3>1, <3>3 DEF RouteInv, VisibleStatus
  <2>2. CASE page # Status(route, attempt, "ready")
    BY <1>5, <2>0, <2>2 DEF RouteInv, VisibleStatus, SetLang
  <2> QED BY <2>1, <2>2
<1>6. CASE UNCHANGED routeVars BY <1>6 DEF routeVars, RouteInv, VisibleStatus
<1> QED BY <1>1, <1>2, <1>3, <1>4, <1>5, <1>6 DEF RouteNext

LEMMA RouteFollows == RouteInv => RouteHolds
<1> SUFFICES ASSUME RouteInv PROVE RouteHolds OBVIOUS
<1>1. VisibleStatus = page.status BY DEF RouteInv, VisibleStatus
<1>2. page = Status(route, attempt, "ready") => page.status = "ready" BY DEF Status
<1> QED BY <1>1, <1>2 DEF RouteInv, RouteHolds

-----------------------------------------------------------------------------
(***************************************************************************)
(* The scenes of a story: of a nonempty set of numbers one is the least,   *)
(* so the scene that is selected is one of those reported.                 *)
(***************************************************************************)
SceneTypes ==
    /\ pos \in Int /\ activeScene \in Scenes
    /\ pendingHash \in Scenes \cup {Off} /\ hash \in Scenes \cup {Off}
    /\ intersections \in Seq(Scenes) /\ named \in BOOLEAN
    /\ arrival \in {"decoding", "framed", "done"}
    /\ arrival # "done" => target \in Scenes
    /\ lab \in Scenes \cup {Off}

(* Whatever the browser reported last: a report names an active scene, and *)
(* so does the reader who lets go of the scene of the address; only the    *)
(* reader may name another (named).                                        *)
ActiveKept ==
    /\ pendingHash # Off => activeScene = pendingHash
    /\ hash # Off => hash = activeScene
    /\ pendingHash = Off /\ ~named /\ intersections # <<>> =>
          activeScene \in Range(intersections)
    /\ lab # Off /\ ~openedInline => lab = activeScene

(* A plate that fades out has the other layer and a timer of its own. *)
PlatesKept ==
    /\ plate \in Plates /\ retiring \in Plates \cup {Off} /\ timer \in Scenes \cup {Off}
    /\ retiring # Off => retiring.layer # plate.layer /\ timer = retiring.scene

SceneInv == SceneTypes /\ ActiveKept /\ PlatesKept

LEMMA FirstScene == Head(SceneOrder) \in Scenes
BY ScenesAssumption

LEMMA ClosestIsReported ==
    ASSUME pos \in Int, NEW told \in Seq(Scenes), told # <<>>
    PROVE  Closest(told) \in Scenes /\ Closest(told) \in Range(told)
<1> DEFINE near == {i \in DOMAIN told :
                      \A j \in DOMAIN told : FromLine(told[i]) <= FromLine(told[j])}
           ways == {FromLine(told[i]) : i \in DOMAIN told}
<1>1. DOMAIN told = 1 .. Len(told) /\ Len(told) \in Nat /\ 1 \in DOMAIN told
      /\ \A i \in DOMAIN told : told[i] \in Scenes
  OBVIOUS
<1>2. \A s \in Scenes : FromLine(s) \in Nat
  <2> SUFFICES ASSUME NEW s \in Scenes PROVE FromLine(s) \in Nat OBVIOUS
  <2>1. TopOf[s] \in Int BY ScenesAssumption
  <2> QED BY <2>1 DEF FromLine
<1>3. near # {}
  <2>1. ways \subseteq Nat /\ ways # {} BY <1>1, <1>2
  <2>2. PICK w \in ways : \A v \in ways : w <= v
    <3> HIDE DEF ways
    <3> QED BY <2>1, LeastOf
  <2>4. PICK i \in DOMAIN told : w = FromLine(told[i]) BY <2>2
  <2>5. \A j \in DOMAIN told : FromLine(told[i]) <= FromLine(told[j])
    BY <2>2, <2>4
  <2> QED BY <2>5
<1>4. PICK i \in near : \A j \in near : i <= j
  <2>1. near \subseteq Nat BY <1>1
  <2> HIDE DEF near
  <2> QED BY <1>3, <2>1, LeastOf
<1> DEFINE first == CHOOSE k \in near : \A j \in near : k <= j
<1>5. first \in near BY <1>4
<1>6. Closest(told) = told[first] BY DEF Closest
<1>7. first \in DOMAIN told BY <1>5
<1> HIDE DEF first
<1> QED BY <1>1, <1>6, <1>7 DEF Range

(* What a change of the active scene leaves: the scene of the address is   *)
(* still the active one, or was given up.                                  *)
Chosen(id, pending) ==
    /\ activeScene' = id /\ hash' = id
    /\ pendingHash' \in {Off, pending} /\ (pendingHash' # Off => pendingHash' = id)

LEMMA Choosing ==
    ASSUME NEW id, NEW pending, SetActiveSceneId(id, pending)
    PROVE  Chosen(id, pending)
BY DEF SetActiveSceneId, Chosen

LEMMA Selecting ==
    ASSUME SceneInv, NEW told \in Seq(Scenes), NEW pending \in {Off, pendingHash},
           SelectFromIntersections(told, pending)
    PROVE  /\ activeScene' \in Scenes /\ hash' \in Scenes \cup {Off}
           /\ hash' # Off => hash' = activeScene'
           /\ pendingHash' = pending
           /\ pending # Off => activeScene' = pending
           /\ pending = Off /\ told # <<>> => activeScene' \in Range(told)
<1>1. CASE pending = Off /\ told # <<>>
  <2>1. SetActiveSceneId(Closest(told), Off)
    BY <1>1 DEF SelectFromIntersections
  <2>2. Closest(told) \in Scenes /\ Closest(told) \in Range(told)
    BY <1>1, ClosestIsReported DEF SceneInv, SceneTypes
  <2> QED BY <1>1, <2>1, <2>2, Choosing DEF Chosen
<1>2. CASE pending # Off /\ pending \in Range(told)
  <2>1. SetActiveSceneId(pending, pending)
    BY <1>2 DEF SelectFromIntersections
  <2> QED BY <1>2, <2>1 DEF SetActiveSceneId, SceneInv, SceneTypes, ActiveKept
<1>3. CASE ~(pending = Off /\ told # <<>>) /\ ~(pending # Off /\ pending \in Range(told))
  <2>1. UNCHANGED <<activeScene, hash>> /\ pendingHash' = pending
    BY <1>3 DEF SelectFromIntersections
  <2> QED BY <1>3, <2>1 DEF SceneInv, SceneTypes, ActiveKept
<1> QED BY <1>1, <1>2, <1>3

LEMMA InitSceneInv == InitStory => SceneInv
<1> SUFFICES ASSUME InitStory PROVE SceneInv OBVIOUS
<1>1. Head(SceneOrder) \in Scenes /\ TopOf[Head(SceneOrder)] \in Int
  BY FirstScene, ScenesAssumption
<1>2. SceneTypes
  <2>1. pos \in Int /\ activeScene \in Scenes BY <1>1 DEF InitStory
  <2>2. arrival \in {"decoding", "framed", "done"} /\ (arrival # "done" => target \in Scenes)
    BY DEF InitStory
  <2>3. intersections \in Seq(Scenes) BY DEF InitStory
  <2> QED BY <2>1, <2>2, <2>3 DEF InitStory, SceneTypes
<1>3. ActiveKept BY DEF InitStory, ActiveKept
<1>4. StageScene \in Scenes BY <1>1 DEF InitStory, StageScene
<1>5. plate \in Plates BY <1>4 DEF InitStory, FirstPlate, Plate, Plates
<1>6. PlatesKept BY <1>5 DEF InitStory, PlatesKept
<1> QED BY <1>2, <1>3, <1>6 DEF SceneInv

LEMMA SceneStep == SceneInv /\ [StoryNext]_storyVars => SceneInv'
<1> SUFFICES ASSUME SceneInv, [StoryNext]_storyVars PROVE SceneInv' OBVIOUS
<1> USE DEF SceneInv
<1>0. /\ \A s \in Scenes : Center(s) \in Int
      /\ \A p \in Positions : p \in Int
  <2>1. \A s \in Scenes : TopOf[s] \in Int /\ BottomOf[s] \in Int BY ScenesAssumption
  <2> QED BY <2>1 DEF Center, Positions
<1>a. UNCHANGED stageVars => PlatesKept' BY DEF stageVars, PlatesKept
<1>1. CASE Report
  <2>1. PICK n \in 0 .. Cardinality(Scenes) :
            \E scenes \in [1 .. n -> Scenes] :
                /\ intersections' = scenes /\ SelectFromIntersections(scenes, pendingHash)
    BY <1>1 DEF Report
  <2>2. PICK told \in [1 .. n -> Scenes] :
            intersections' = told /\ SelectFromIntersections(told, pendingHash)
    BY <2>1
  <2>3. told \in Seq(Scenes) BY <2>1
  <2>4. SceneTypes' BY <1>1, <2>2, <2>3, Selecting DEF Report, SceneTypes, KeepLab
  <2>5. ActiveKept'
    BY <1>1, <2>2, <2>3, Selecting DEF Report, ActiveKept, KeepLab
  <2> QED BY <1>1, <1>a, <2>4, <2>5 DEF Report
<1>2. CASE Decoded BY <1>2, <1>a DEF Decoded, SceneTypes, ActiveKept
<1>3. CASE Arrive BY <1>0, <1>3, <1>a DEF Arrive, SceneTypes, ActiveKept
<1>4. ASSUME NEW p \in Positions, ReaderScroll(p) PROVE SceneInv'
  <2>1. CASE pendingHash # Off
    <3>1. SelectFromIntersections(intersections, Off) BY <1>4, <2>1 DEF ReaderScroll
    <3>2. intersections \in Seq(Scenes) BY DEF SceneTypes
    <3>3. SceneTypes'
      BY <1>0, <1>4, <3>1, <3>2, Selecting DEF ReaderScroll, SceneTypes, KeepLab
    <3>4. ActiveKept'
      BY <1>4, <3>1, <3>2, Selecting DEF ReaderScroll, ActiveKept, KeepLab
    <3> QED BY <1>4, <1>a, <3>3, <3>4 DEF ReaderScroll
  <2>2. CASE pendingHash = Off
    BY <1>0, <1>4, <1>a, <2>2 DEF ReaderScroll, SceneTypes, ActiveKept, KeepLab
  <2> QED BY <2>1, <2>2
<1>5. ASSUME NEW p \in Positions, DragScrollbar(p) PROVE SceneInv'
  BY <1>0, <1>5, <1>a DEF DragScrollbar, SceneTypes, ActiveKept
<1>6. ASSUME NEW s \in Scenes, ActivateScene(s) PROVE SceneInv'
  <2>1. Chosen(s, pendingHash) BY <1>6, Choosing DEF ActivateScene
  <2>2. SceneTypes' BY <1>0, <1>6, <2>1 DEF ActivateScene, SceneTypes, KeepLab, Chosen
  <2>3. ActiveKept' BY <1>6, <2>1 DEF ActivateScene, ActiveKept, KeepLab, Chosen
  <2> QED BY <1>6, <1>a, <2>2, <2>3 DEF ActivateScene
<1>7. ASSUME NEW s \in Scenes, ToggleLab(s) PROVE SceneInv'
  <2>0. PlatesKept' BY <1>7, <1>a DEF ToggleLab
  <2>1. CASE lab = s BY <1>7, <2>0, <2>1 DEF ToggleLab, SceneTypes, ActiveKept
  <2>2. CASE lab # s /\ ~mobile /\ s # activeScene
    <3>1. /\ Chosen(s, pendingHash) /\ pos' = Center(s) /\ named' = TRUE /\ lab' = s
          /\ UNCHANGED <<intersections, arrival, target>>
      BY <1>7, <2>2, Choosing DEF ToggleLab
    <3> QED BY <1>0, <2>0, <3>1 DEF SceneTypes, ActiveKept, Chosen
  <2>3. CASE lab # s /\ ~(~mobile /\ s # activeScene)
    BY <1>7, <2>0, <2>3 DEF ToggleLab, SceneTypes, ActiveKept
  <2> QED BY <2>1, <2>2, <2>3
<1>8. CASE SwitchLayout
  <2>1. SceneTypes' /\ ActiveKept'
    BY <1>8 DEF SwitchLayout, trackVars, SceneTypes, ActiveKept
  <2>2. CASE mobile
    <3> DEFINE request == IF lab # Off THEN lab ELSE activeScene
    <3>1. request \in Scenes BY DEF SceneTypes
    <3> HIDE DEF request
    <3>2. plate' = FirstPlate(request, failedScenes) /\ retiring' = Off /\ timer' = Off
      BY <1>8, <2>2 DEF SwitchLayout, MountStage, request
    <3>3. plate' \in Plates BY <3>1, <3>2 DEF FirstPlate, Plate, Plates
    <3> QED BY <2>1, <3>2, <3>3 DEF PlatesKept
  <2>3. CASE ~mobile BY <1>8, <1>a, <2>1, <2>3 DEF SwitchLayout
  <2> QED BY <2>2, <2>3
<1>9. CASE SwitchMotion BY <1>9, <1>a DEF SwitchMotion, trackVars, SceneTypes, ActiveKept
<1>10. CASE UNCHANGED <<trackVars, lab, openedInline>> /\
            (AcceptPending(StageScene, failedScenes, reduced) \/ RejectActive \/ FadeEnds)
  <2>1. SceneTypes' /\ ActiveKept' BY <1>10 DEF trackVars, SceneTypes, ActiveKept
  <2>2. CASE AcceptPending(StageScene, failedScenes, reduced)
    <3>1. StageScene \in Scenes BY DEF StageScene, SceneTypes
    <3> DEFINE next == PendingPlate(StageScene, failedScenes)
    <3>2. /\ next # Off
          /\ next = Plate(StageScene, 1 - plate.layer, StageScene \in failedScenes)
      BY <2>2 DEF AcceptPending, PendingPlate
    <3>3. plate \in Plates /\ plate.layer \in {0, 1} /\ 1 - plate.layer \in {0, 1}
          /\ plate.scene \in Scenes
      BY DEF PlatesKept, Plates
    <3>4. next \in Plates /\ next.layer = 1 - plate.layer
      BY <3>1, <3>2, <3>3 DEF Plate, Plates
    <3> HIDE DEF next
    <3>5. PICK fault \in BOOLEAN : plate' = [next EXCEPT !.failed = fault]
      BY <2>2 DEF AcceptPending, next
    <3>6. plate' \in Plates /\ plate'.layer = next.layer BY <3>4, <3>5 DEF Plates
    <3>7. \/ retiring' = Off /\ timer' = Off
          \/ retiring' = plate /\ timer' = plate.scene
      BY <2>2 DEF AcceptPending
    <3> QED BY <2>1, <3>3, <3>4, <3>6, <3>7 DEF PlatesKept
  <2>3. CASE RejectActive
    <3>1. plate' = [plate EXCEPT !.failed = TRUE] /\ plate \in Plates
      BY <2>3 DEF RejectActive, PlatesKept
    <3>2. plate' \in Plates /\ plate'.layer = plate.layer BY <3>1 DEF Plates
    <3> QED BY <2>1, <2>3, <3>2 DEF RejectActive, PlatesKept
  <2>4. CASE FadeEnds BY <2>1, <2>4 DEF FadeEnds, PlatesKept
  <2> QED BY <1>10, <2>2, <2>3, <2>4
<1>11. CASE UNCHANGED storyVars
  BY <1>11, <1>a DEF storyVars, trackVars, SceneTypes, ActiveKept
<1> QED
  BY <1>1, <1>2, <1>3, <1>4, <1>5, <1>6, <1>7, <1>8, <1>9, <1>10, <1>11
  DEF StoryNext, OnStage

LEMMA ScenesFollow == SceneInv => ScenesHold
<1> SUFFICES ASSUME SceneInv PROVE ScenesHold OBVIOUS
<1>1. StageScene \in Scenes BY DEF SceneInv, StageScene, SceneTypes
<1>2. StageShows(StageScene, failedScenes)
  <2> DEFINE other == Plate(StageScene, 1 - plate.layer, StageScene \in failedScenes)
  <2>1. plate \in Plates /\ 1 - plate.layer \in {0, 1} BY DEF SceneInv, PlatesKept, Plates
  <2>2. other # Off
    <3>1. other \in Plates BY <1>1, <2>1 DEF Plate, Plates
    <3> QED BY <3>1, StageAssumption
  <2>3. retiring # Off => retiring.layer # plate.layer /\ timer # Off
    BY StageAssumption DEF SceneInv, PlatesKept, Plates
  <2> HIDE DEF other
  <2> QED BY <2>2, <2>3 DEF StageShows, PendingPlate, other
<1> QED BY <1>2 DEF SceneInv, ActiveKept, ScenesHold

-----------------------------------------------------------------------------
(***************************************************************************)
(* The message that goes through the labs, and what they keep of it.       *)
(***************************************************************************)
(* A result that says the truth about the message: none, one of an earlier *)
(* revision, or one of the message in use.                                 *)
Truthful(r, latest, text) ==
    \/ r = Absent
    \/ r.revision \in Nat /\ r.revision <= latest /\ (r.revision = latest => r.source = text)

JourneyTypes ==
    /\ lang \in Languages /\ message \in Texts /\ revision \in Nat /\ renewed \in Nat
    /\ budget \in LabState \cup {Absent} /\ receipt \in Delivery \cup {Absent}
    /\ observed = [s \in Recorders |-> observed[s]]

ResultsTrue ==
    /\ Truthful(receipt, revision, message)
    /\ Truthful(State.batch, revision, message)
    /\ Truthful(State.failure, revision, message)
    /\ Truthful(State.previous, revision, message)

SnapshotsTrue ==
    \A s \in Recorders :
        observed[s] # Absent => Truthful(observed[s].snapshot, revision, message)

(* The comparison under way is of the message in use, and writes over what *)
(* the lab still keeps.                                                    *)
ComparisonCurrent ==
    comparison # Absent =>
        /\ comparison.revision = revision /\ comparison.source = message
        /\ comparison.config \in [noise : Noises] /\ comparison.base = State

JourneyInv ==
    /\ JourneyTypes /\ ResultsTrue /\ SnapshotsTrue /\ ComparisonCurrent
    /\ State.config = chosen

LEMMA LabStateKept == JourneyTypes => State \in LabState
<1> SUFFICES ASSUME JourneyTypes PROVE State \in LabState OBVIOUS
<1>1. InitialBudget \in LabState BY JourneyAssumption DEF InitialBudget, LabState
<1>2. CASE budget = Absent BY <1>1, <1>2 DEF State
<1>3. CASE budget # Absent BY <1>3 DEF State, JourneyTypes
<1> QED BY <1>2, <1>3

LEMMA StillTruthful ==
    ASSUME NEW r, NEW n \in Nat, NEW text, NEW other, Truthful(r, n, text)
    PROVE  Truthful(r, n + 1, other)
BY DEF Truthful

(* A new session has no results.                                           *)
LEMMA NoResults ==
    ASSUME budget = Absent, receipt = Absent, NEW n, NEW text
    PROVE  /\ Truthful(receipt, n, text) /\ Truthful(State.batch, n, text)
           /\ Truthful(State.failure, n, text) /\ Truthful(State.previous, n, text)
           /\ State.config = First
BY DEF State, InitialBudget, Truthful

(* The message stays, or another takes its place at the next revision.     *)
MessageMoves ==
    \/ UNCHANGED <<message, revision>>
    \/ revision' = revision + 1 /\ message' \in Texts

LEMMA ResultsStay ==
    ASSUME JourneyInv, MessageMoves, UNCHANGED <<budget, receipt>>
    PROVE  ResultsTrue'
<1>1. UNCHANGED State BY DEF State
<1>2. CASE UNCHANGED <<message, revision>>
  BY <1>1, <1>2 DEF JourneyInv, ResultsTrue
<1>3. CASE revision' = revision + 1
  <2>1. revision \in Nat BY DEF JourneyInv, JourneyTypes
  <2> QED BY <1>1, <1>3, <2>1, StillTruthful DEF JourneyInv, ResultsTrue
<1> QED BY <1>2, <1>3 DEF MessageMoves

LEMMA SnapshotsStay ==
    ASSUME JourneyInv, MessageMoves, UNCHANGED observed
    PROVE  SnapshotsTrue'
<1>1. CASE UNCHANGED <<message, revision>>
  BY <1>1 DEF JourneyInv, SnapshotsTrue
<1>2. CASE revision' = revision + 1
  <2>1. revision \in Nat BY DEF JourneyInv, JourneyTypes
  <2> SUFFICES ASSUME NEW s \in Recorders, observed[s] # Absent
               PROVE  Truthful(observed[s].snapshot, revision', message')
    BY DEF SnapshotsTrue
  <2>2. Truthful(observed[s].snapshot, revision, message) BY DEF JourneyInv, SnapshotsTrue
  <2> QED BY <1>2, <2>1, <2>2, StillTruthful
<1> QED BY <1>1, <1>2 DEF MessageMoves

(* A comparison goes on only while the effect sees no change.              *)
LEMMA ComparisonGoesOn ==
    ASSUME JourneyInv, MessageMoves, AbortOnChange, UNCHANGED budget
    PROVE  ComparisonCurrent'
<1> SUFFICES ASSUME comparison' # Absent PROVE ComparisonCurrent' BY DEF ComparisonCurrent
<1>1. comparison' = comparison /\ Context' = Context BY DEF AbortOnChange
<1>2. revision' = revision BY <1>1 DEF Context
<1>3. UNCHANGED <<message, revision>>
  BY <1>2 DEF MessageMoves, JourneyInv, JourneyTypes
<1>4. UNCHANGED State BY DEF State
<1> QED BY <1>1, <1>3, <1>4 DEF JourneyInv, ComparisonCurrent

LEMMA ReplacedAborts ==
    ASSUME JourneyInv, Replaced, AbortOnChange
    PROVE  renewed' \in Nat /\ comparison' = Absent
<1>1. renewed \in Nat BY DEF JourneyInv, JourneyTypes
<1>2. renewed' = renewed + 1 /\ renewed' # renewed BY <1>1 DEF Replaced
<1>3. Context' # Context BY <1>2 DEF Context
<1> QED BY <1>1, <1>2, <1>3 DEF AbortOnChange

LEMMA RenewedIsNat ==
    ASSUME JourneyInv, Rendered \/ Replaced
    PROVE  renewed' \in Nat
<1>1. renewed \in Nat BY DEF JourneyInv, JourneyTypes
<1> QED BY <1>1 DEF Rendered, Replaced

(* What the editor does, in any lab: the labs keep what they have.         *)
LEMMA EditingKeeps ==
    ASSUME JourneyInv, MessageMoves, AbortOnChange, Rendered \/ Replaced,
           lang' \in Languages, UNCHANGED <<budget, receipt, observed, chosen>>
    PROVE  JourneyInv'
<1>1. renewed' \in Nat BY RenewedIsNat
<1>2. JourneyTypes'
  BY <1>1 DEF JourneyInv, JourneyTypes, MessageMoves
<1>3. UNCHANGED State BY DEF State
<1> QED BY <1>2, <1>3, ResultsStay, SnapshotsStay, ComparisonGoesOn DEF JourneyInv

LEMMA InitJourneyInv == InitJourney => JourneyInv
<1> SUFFICES ASSUME InitJourney PROVE JourneyInv OBVIOUS
<1>1. message \in Texts BY JourneyAssumption DEF InitJourney
<1>2. JourneyTypes BY <1>1 DEF InitJourney, JourneyTypes
<1>3. ResultsTrue /\ State.config = chosen BY NoResults DEF InitJourney, ResultsTrue
<1>4. SnapshotsTrue /\ ComparisonCurrent
  BY DEF InitJourney, SnapshotsTrue, ComparisonCurrent
<1> QED BY <1>2, <1>3, <1>4 DEF JourneyInv

LEMMA JourneyStep == JourneyInv /\ [JourneyNext]_journeyVars => JourneyInv'
<1> SUFFICES ASSUME JourneyInv, [JourneyNext]_journeyVars PROVE JourneyInv' OBVIOUS
<1>0. /\ lang \in Languages /\ message \in Texts /\ revision \in Nat
      /\ State \in LabState /\ State.config = chosen
  BY LabStateKept DEF JourneyInv, JourneyTypes
<1>1. ASSUME NEW scene, OpenLab(scene) PROVE JourneyInv'
  <2>1. MessageMoves /\ renewed' \in Nat BY <1>1, RenewedIsNat DEF OpenLab, MessageMoves
  <2>2. JourneyTypes' BY <1>1, <2>1 DEF OpenLab, JourneyInv, JourneyTypes
  <2>3. ComparisonCurrent' BY <1>1 DEF OpenLab, ComparisonCurrent
  <2>4. UNCHANGED <<budget, receipt, observed, chosen>> BY <1>1 DEF OpenLab
  <2>5. UNCHANGED State BY <2>4 DEF State
  <2> QED BY <1>0, <2>1, <2>2, <2>3, <2>4, <2>5, ResultsStay, SnapshotsStay DEF JourneyInv
<1>2. CASE CloseLab BY <1>1, <1>2 DEF CloseLab
<1>3. ASSUME NEW text, Commit(text) PROVE JourneyInv'
  <2>1. MessageMoves BY <1>3, JourneyAssumption DEF Commit, MessageMoves
  <2> QED BY <1>0, <1>3, <2>1, EditingKeeps DEF Commit
<1>4. CASE EditMessage
  <2>1. ASSUME NEW l \in Languages, SetLanguage(l) PROVE JourneyInv'
    BY <2>1, EditingKeeps DEF SetLanguage, MessageMoves
  <2>2. ASSUME NEW text \in Texts, Draft(text) PROVE JourneyInv'
    BY <1>0, <2>2, EditingKeeps DEF Draft, MessageMoves
  <2>3. ASSUME NEW text \in Texts, Shorten(text) PROVE JourneyInv'
    BY <1>0, <2>3, EditingKeeps DEF Shorten, MessageMoves
  <2>4. CASE CommitDraft BY <1>3, <2>4 DEF CommitDraft
  <2>5. CASE UseExample BY <1>3, <2>5 DEF UseExample
  <2>6. CASE ResetShorter BY <1>0, <2>6, EditingKeeps DEF ResetShorter, MessageMoves
  <2>7. CASE ResetSession
    <3>1. comparison' = Absent /\ renewed' \in Nat
      BY <2>7, ReplacedAborts DEF ResetSession
    <3>2. /\ message' = Example[lang] /\ revision' = 0 /\ receipt' = Absent
          /\ observed' = [s \in Recorders |-> Absent] /\ budget' = Absent
          /\ chosen' = First /\ lang' = lang
      BY <2>7 DEF ResetSession, CreateSession
    <3>3. message' \in Texts BY <1>0, <3>2, JourneyAssumption
    <3>4. JourneyTypes' BY <1>0, <3>1, <3>2, <3>3 DEF JourneyTypes
    <3>5. ResultsTrue' /\ State'.config = First
      <4>1. State' = InitialBudget BY <3>2 DEF State
      <4> QED BY <3>2, <4>1 DEF ResultsTrue, Truthful, InitialBudget
    <3>6. SnapshotsTrue' /\ ComparisonCurrent'
      BY <3>1, <3>2 DEF SnapshotsTrue, ComparisonCurrent
    <3> QED BY <3>2, <3>4, <3>5, <3>6 DEF JourneyInv
  <2> QED BY <1>4, <2>1, <2>2, <2>3, <2>4, <2>5, <2>6, <2>7 DEF EditMessage
<1>5. ASSUME NEW scene \in Recorders, NEW next, Replaced, Recorded(scene, next),
             next # Absent => Truthful(next.snapshot, revision, message)
      PROVE  JourneyInv'
  <2>1. /\ observed' = [observed EXCEPT ![scene] = next]
        /\ UNCHANGED <<lang, message, revision, receipt, budget, chosen>> /\ AbortOnChange
    BY <1>5 DEF Recorded
  <2>2. comparison' = Absent /\ renewed' \in Nat BY <1>5, <2>1, ReplacedAborts
  <2>3. DOMAIN observed = Recorders BY DEF JourneyInv, JourneyTypes
  <2>4. JourneyTypes' BY <1>0, <2>1, <2>2, <2>3 DEF JourneyInv, JourneyTypes
  <2>5. SnapshotsTrue'
    <3> SUFFICES ASSUME NEW s \in Recorders, observed'[s] # Absent
                 PROVE  Truthful(observed'[s].snapshot, revision, message)
      BY <2>1 DEF SnapshotsTrue
    <3>1. CASE s = scene
      <4>1. observed'[s] = next BY <2>1, <2>3, <3>1
      <4> QED BY <1>5, <4>1
    <3>2. CASE s # scene
      <4>1. observed'[s] = observed[s] BY <2>1, <2>3, <3>2
      <4> QED BY <4>1 DEF JourneyInv, SnapshotsTrue
    <3> QED BY <3>1, <3>2
  <2>6. ResultsTrue' BY <2>1, ResultsStay DEF MessageMoves
  <2>7. UNCHANGED State BY <2>1 DEF State
  <2>8. ComparisonCurrent' BY <2>2 DEF ComparisonCurrent
  <2> QED BY <1>0, <2>1, <2>4, <2>5, <2>6, <2>7, <2>8 DEF JourneyInv
<1>6. ASSUME NEW scene \in Recorders, NEW setting \in Settings, SetUp(scene, setting)
      PROVE  JourneyInv'
  <2> DEFINE next == [setting |-> setting,
                      snapshot |-> IF observed[scene] = Absent THEN Absent
                                   ELSE observed[scene].snapshot]
  <2>1. Replaced /\ Recorded(scene, next) BY <1>6 DEF SetUp, Recording
  <2>2. Truthful(next.snapshot, revision, message)
    <3>1. CASE observed[scene] = Absent BY <3>1 DEF Truthful
    <3>2. CASE observed[scene] # Absent BY <3>2 DEF JourneyInv, SnapshotsTrue
    <3> QED BY <3>1, <3>2
  <2> HIDE DEF next
  <2> QED BY <1>5, <2>1, <2>2
<1>7. ASSUME NEW scene \in Recorders, NEW setting \in Settings, Record(scene, setting)
      PROVE  JourneyInv'
  <2> DEFINE snap == [revision |-> revision, source |-> message, setting |-> setting]
             next == [setting |-> setting, snapshot |-> snap]
  <2>1. Replaced /\ Recorded(scene, next) BY <1>7 DEF Record, Recording
  <2>2. Truthful(next.snapshot, revision, message) BY <1>0 DEF Truthful
  <2> HIDE DEF next
  <2> QED BY <1>5, <2>1, <2>2
<1>8. ASSUME NEW scene \in Recorders, ResetRecorder(scene) PROVE JourneyInv'
  BY <1>5, <1>8 DEF ResetRecorder, Recording
<1>9. ASSUME NEW config \in ChannelConfig, Choose(config) PROVE JourneyInv'
  <2> DEFINE was == State
             now == [was EXCEPT !.config = config]
  <2>1. /\ budget' = now /\ comparison' = Absent /\ chosen' = config
        /\ UNCHANGED <<lang, message, revision, receipt, observed>> /\ Replaced
    BY <1>9 DEF Choose
  <2>2. was \in LabState BY <1>0
  <2> HIDE DEF was
  <2>3. /\ now \in LabState /\ now.config = config /\ now.batch = was.batch
        /\ now.failure = was.failure /\ now.previous = was.previous
    BY <2>2 DEF LabState
  <2> HIDE DEF now
  <2>4. State' = now BY <2>1, <2>3, JourneyAssumption DEF State
  <2>5. renewed' \in Nat BY <2>1, RenewedIsNat
  <2>6. JourneyTypes' BY <1>0, <2>1, <2>3, <2>5 DEF JourneyInv, JourneyTypes
  <2>7. ResultsTrue' BY <2>1, <2>3, <2>4 DEF JourneyInv, ResultsTrue, was
  <2>8. SnapshotsTrue' BY <2>1, SnapshotsStay DEF MessageMoves
  <2>9. ComparisonCurrent' BY <2>1 DEF ComparisonCurrent
  <2> QED BY <2>1, <2>3, <2>4, <2>6, <2>7, <2>8, <2>9 DEF JourneyInv
<1>10. CASE Transmit
  <2> DEFINE was == State
             about == About(was.config)
             sent == [was EXCEPT !.failure = Absent, !.previous = Absent]
             prior == IF receipt = Absent THEN was.previous ELSE receipt
             stuck == [was EXCEPT !.failure = about, !.previous = prior]
  <2>1. /\ UNCHANGED <<lang, message, revision, observed, chosen>>
        /\ Replaced /\ AbortOnChange
        /\ \/ budget' = sent /\ receipt' = about
           \/ budget' = stuck /\ receipt' = Absent
    BY <1>10 DEF Transmit
  <2>2. was \in LabState BY <1>0
  <2>3. about \in Delivery /\ Truthful(about, revision, message)
    BY <1>0 DEF About, Delivery, LabState, Truthful
  <2>4. prior \in Delivery \cup {Absent} /\ Truthful(prior, revision, message)
    BY <2>2 DEF LabState, JourneyInv, JourneyTypes, ResultsTrue
  <2>5. Truthful(was.batch, revision, message) /\ Truthful(Absent, revision, message)
    BY DEF JourneyInv, ResultsTrue, Truthful
  <2>6. comparison' = Absent /\ renewed' \in Nat BY <2>1, ReplacedAborts
  <2>7. was.config = chosen BY <1>0
  <2> HIDE DEF was, about, prior
  <2>8. /\ sent \in LabState /\ sent.config = was.config /\ sent.batch = was.batch
        /\ sent.failure = Absent /\ sent.previous = Absent
    BY <2>2 DEF LabState
  <2>9. /\ stuck \in LabState /\ stuck.config = was.config /\ stuck.batch = was.batch
        /\ stuck.failure = about /\ stuck.previous = prior
    BY <2>2, <2>3, <2>4 DEF LabState
  <2> HIDE DEF sent, stuck
  <2>10. SnapshotsTrue' BY <2>1, SnapshotsStay DEF MessageMoves
  <2>11. ComparisonCurrent' BY <2>6 DEF ComparisonCurrent
  <2>12. CASE budget' = sent /\ receipt' = about
    <3>1. State' = sent BY <2>8, <2>12, JourneyAssumption DEF State
    <3>2. JourneyTypes' BY <1>0, <2>1, <2>3, <2>6, <2>8, <2>12 DEF JourneyInv, JourneyTypes
    <3>3. ResultsTrue' BY <2>1, <2>3, <2>5, <2>8, <2>12, <3>1 DEF ResultsTrue
    <3> QED BY <2>1, <2>7, <2>8, <2>10, <2>11, <3>1, <3>2, <3>3 DEF JourneyInv
  <2>13. CASE budget' = stuck /\ receipt' = Absent
    <3>1. State' = stuck BY <2>9, <2>13, JourneyAssumption DEF State
    <3>2. JourneyTypes' BY <1>0, <2>1, <2>6, <2>9, <2>13 DEF JourneyInv, JourneyTypes
    <3>3. ResultsTrue' BY <2>1, <2>3, <2>4, <2>5, <2>9, <2>13, <3>1 DEF ResultsTrue
    <3> QED BY <2>1, <2>7, <2>9, <2>10, <2>11, <3>1, <3>2, <3>3 DEF JourneyInv
  <2> QED BY <2>1, <2>12, <2>13
<1>11. CASE Compare
  <2> DEFINE wanted == [noise |-> State.config.noise]
             begun == [revision |-> revision, source |-> message,
                       config |-> wanted, base |-> State]
  <2>1. /\ comparison' = begun
        /\ UNCHANGED <<lang, message, revision, receipt, labVars, chosen>>
    BY <1>11 DEF Compare
  <2>2. UNCHANGED State BY <2>1 DEF State, labVars
  <2>3. wanted \in [noise : Noises] BY <1>0 DEF LabState, ChannelConfig
  <2>4. JourneyTypes' BY <2>1 DEF JourneyInv, JourneyTypes, labVars
  <2>5. ResultsTrue' /\ SnapshotsTrue'
    BY <2>1, ResultsStay, SnapshotsStay DEF MessageMoves, labVars
  <2> HIDE DEF wanted
  <2>6. begun.revision = revision /\ begun.source = message /\ begun.config = wanted
        /\ begun.base = State
    OBVIOUS
  <2> HIDE DEF begun
  <2>7. ComparisonCurrent' BY <2>1, <2>2, <2>3, <2>6 DEF ComparisonCurrent
  <2> QED BY <1>0, <2>1, <2>2, <2>4, <2>5, <2>7 DEF JourneyInv
<1>12. CASE FinishComparison
  <2> DEFINE was == State
             batch == [revision |-> comparison.revision, source |-> comparison.source,
                       config |-> comparison.config]
             done == [was EXCEPT !.batch = batch]
  <2>1. comparison.base = was /\ comparison.revision = revision
        /\ comparison.source = message /\ comparison.config \in [noise : Noises]
    BY <1>12 DEF FinishComparison, JourneyInv, ComparisonCurrent
  <2>2. /\ budget' = done /\ comparison' = Absent /\ Replaced
        /\ UNCHANGED <<lang, message, revision, receipt, observed, chosen>>
    BY <1>12, <2>1 DEF FinishComparison
  <2>3. batch \in Compared /\ Truthful(batch, revision, message)
    BY <1>0, <2>1 DEF Compared, Truthful
  <2>4. was \in LabState /\ was.config = chosen BY <1>0
  <2> HIDE DEF was, batch
  <2>5. /\ done \in LabState /\ done.config = was.config /\ done.batch = batch
        /\ done.failure = was.failure /\ done.previous = was.previous
    BY <2>3, <2>4 DEF LabState
  <2> HIDE DEF done
  <2>6. State' = done BY <2>2, <2>5, JourneyAssumption DEF State
  <2>7. renewed' \in Nat BY <2>2, RenewedIsNat
  <2>8. JourneyTypes' BY <1>0, <2>2, <2>5, <2>7 DEF JourneyInv, JourneyTypes
  <2>9. ResultsTrue' BY <2>2, <2>3, <2>5, <2>6 DEF JourneyInv, ResultsTrue, was
  <2>10. SnapshotsTrue' BY <2>2, SnapshotsStay DEF MessageMoves
  <2>11. ComparisonCurrent' BY <2>2 DEF ComparisonCurrent
  <2> QED BY <2>2, <2>4, <2>5, <2>6, <2>8, <2>9, <2>10, <2>11 DEF JourneyInv
<1>13. CASE CancelComparison
  <2>1. comparison' = Absent
        /\ UNCHANGED <<lang, message, revision, receipt, observed, budget, renewed, chosen>>
    BY <1>13 DEF CancelComparison, labVars
  <2>2. UNCHANGED State BY <2>1 DEF State
  <2>3. JourneyTypes' BY <2>1 DEF JourneyInv, JourneyTypes
  <2>4. ResultsTrue' /\ SnapshotsTrue' BY <2>1, ResultsStay, SnapshotsStay DEF MessageMoves
  <2> QED BY <1>0, <2>1, <2>2, <2>3, <2>4 DEF JourneyInv, ComparisonCurrent
<1>14. CASE ResetBudget
  <2>1. /\ budget' = Absent /\ receipt' = Absent /\ comparison' = Absent
        /\ chosen' = First /\ Replaced /\ UNCHANGED <<lang, message, revision, observed>>
    BY <1>14 DEF ResetBudget
  <2>2. renewed' \in Nat BY <2>1, RenewedIsNat
  <2>3. JourneyTypes' BY <1>0, <2>1, <2>2 DEF JourneyInv, JourneyTypes
  <2>4. State' = InitialBudget BY <2>1 DEF State
  <2>5. ResultsTrue' /\ State'.config = First
    BY <2>1, <2>4 DEF ResultsTrue, Truthful, InitialBudget
  <2>6. SnapshotsTrue' BY <2>1, SnapshotsStay DEF MessageMoves
  <2> QED BY <2>1, <2>3, <2>5, <2>6 DEF JourneyInv, ComparisonCurrent
<1>15. CASE UNCHANGED journeyVars
  <2>1. UNCHANGED <<lang, message, revision, receipt, observed, budget, renewed,
                    comparison, chosen>>
    BY <1>15 DEF journeyVars, labVars
  <2>2. UNCHANGED State BY <2>1 DEF State
  <2>3. JourneyTypes' BY <2>1 DEF JourneyInv, JourneyTypes
  <2>4. ResultsTrue' /\ SnapshotsTrue' BY <2>1, ResultsStay, SnapshotsStay DEF MessageMoves
  <2>5. ComparisonCurrent' BY <2>1, <2>2 DEF JourneyInv, ComparisonCurrent
  <2> QED BY <1>0, <2>1, <2>2, <2>3, <2>4, <2>5 DEF JourneyInv
<1> QED
  BY <1>1, <1>2, <1>4, <1>6, <1>7, <1>8, <1>9, <1>10, <1>11, <1>12, <1>13, <1>14, <1>15
  DEF JourneyNext

LEMMA JourneyFollows == JourneyInv => ResultsSpeakTrue /\ SettingsKept
<1> SUFFICES ASSUME JourneyInv PROVE ResultsSpeakTrue /\ SettingsKept OBVIOUS
<1>1. ASSUME NEW r \in Results
      PROVE  r.revision <= revision /\ (r.revision = revision => r.source = message)
  <2>1. r # Absent /\ Truthful(r, revision, message)
    BY DEF Results, JourneyInv, ResultsTrue, SnapshotsTrue
  <2> QED BY <2>1 DEF Truthful
<1> QED BY <1>1 DEF ResultsSpeakTrue, SettingsKept, JourneyInv

-----------------------------------------------------------------------------
(* The text of a page. It stands, whatever is painted: it has edges (Ends) *)
(* between its leaves, each leaf reads as the page did at first, and what   *)
(* notes it has is told by the spans. Cutting adds edges, joining takes     *)
(* them away, wrapping a note needs them where its span begins and ends.    *)

(* Steps from a first value, each within a set, have their values. *)
StepsIn(g, A) == g \in [Nat -> [A -> A]]
RunOf(f, A, a, g, n) ==
    f \in [0 .. n -> A] /\ f[0] = a /\ \A i \in 1 .. n : f[i] = g[i][f[i - 1]]

LEMMA RunExists ==
    ASSUME NEW A, NEW a \in A, NEW g, StepsIn(g, A), NEW n \in Nat
    PROVE  \E f : RunOf(f, A, a, g, n)
<1> USE DEF StepsIn
<1> DEFINE S == {m \in Nat : \E f \in [0 .. m -> A] :
                     f[0] = a /\ \A i \in 1 .. m : f[i] = g[i][f[i - 1]]}
<1>1. 0 \in S
  <2> DEFINE f == [i \in 0 .. 0 |-> a]
  <2>1. f \in [0 .. 0 -> A] /\ f[0] = a /\ \A i \in 1 .. 0 : f[i] = g[i][f[i - 1]]
    OBVIOUS
  <2> QED BY <2>1
<1>2. ASSUME NEW m \in S PROVE m + 1 \in S
  <2>1. m \in Nat OBVIOUS
  <2>2. PICK f \in [0 .. m -> A] : f[0] = a /\ \A i \in 1 .. m : f[i] = g[i][f[i - 1]]
    OBVIOUS
  <2> DEFINE new == g[m + 1][f[m]]
             h == [i \in 0 .. m + 1 |-> IF i = m + 1 THEN new ELSE f[i]]
  <2>3. new \in A BY <2>1, <2>2
  <2> HIDE DEF new
  <2>4. h \in [0 .. m + 1 -> A] BY <2>1, <2>2, <2>3
  <2>5. \A i \in 0 .. m : h[i] = f[i] BY <2>1
  <2>6. h[m + 1] = new BY <2>1
  <2> HIDE DEF h
  <2>7. h[0] = a BY <2>1, <2>2, <2>5
  <2>8. ASSUME NEW i \in 1 .. m + 1 PROVE h[i] = g[i][h[i - 1]]
    <3>1. CASE i = m + 1
      <4>1. h[i - 1] = f[m] BY <2>1, <2>5, <3>1
      <4> QED BY <2>6, <3>1, <4>1 DEF new
    <3>2. CASE i \in 1 .. m
      <4>1. h[i] = f[i] /\ h[i - 1] = f[i - 1] BY <2>1, <2>5, <3>2
      <4> QED BY <2>2, <3>2, <4>1
    <3> QED BY <2>1, <3>1, <3>2
  <2>9. m + 1 \in Nat BY <2>1
  <2>10. \A i \in 1 .. m + 1 : h[i] = g[i][h[i - 1]] BY <2>8
  <2>11. \E k \in [0 .. m + 1 -> A] : k[0] = a /\ \A i \in 1 .. m + 1 : k[i] = g[i][k[i - 1]]
    BY <2>4, <2>7, <2>10
  <2> QED BY <2>9, <2>11
<1>3. S \subseteq Nat OBVIOUS
<1>4. S = Nat
  <2> HIDE DEF S
  <2> QED BY <1>1, <1>2, <1>3, Induction
<1>5. PICK f \in [0 .. n -> A] : f[0] = a /\ \A i \in 1 .. n : f[i] = g[i][f[i - 1]] BY <1>4
<1> QED BY <1>5 DEF RunOf

LEMMA Appended ==
    ASSUME NEW A, NEW s \in Seq(A), NEW t \in Seq(A)
    PROVE  /\ s \o t \in Seq(A) /\ Len(s \o t) = Len(s) + Len(t)
           /\ \A k \in 1 .. Len(s) : (s \o t)[k] = s[k]
           /\ \A k \in 1 .. Len(t) : (s \o t)[Len(s) + k] = t[k]
OBVIOUS

(* The leaves of a page, and what is asked of each: where it is, that it   *)
(* reads as the page did there, and that it has the notes that are there.  *)
PLeaf == [kind : LeafKinds, box : Nat, data : Seq(Nat),
          marks : SUBSET [note : Marked, element : Nat]]

Covers(s, k) == s[1] < k /\ k <= s[2]

Spanned(sp) == \A n \in Marked : sp[n][1] \in Nat /\ sp[n][2] \in Nat

LeafStands(leaf, from, to, sp) ==
    /\ leaf \in PLeaf /\ to = from + WidthOf(leaf)
    /\ leaf.kind = "atomic" => WidthOf(leaf) = 1
    /\ \A m \in 1 .. WidthOf(leaf) : CharsOf(leaf)[m] = TheText[from + m]
    /\ \A n \in Marked :
          /\ n \in NotesOn(leaf) => from < to /\ sp[n][1] <= from /\ to <= sp[n][2]
          /\ n \notin NotesOn(leaf) =>
                \A k \in from + 1 .. to : Covers(sp[n], k) => TheText[k] \in Blanks

Laid(doc, e) ==
    /\ Len(doc) \in Nat /\ e \in [0 .. Len(doc) -> Nat] /\ e[0] = 0
    /\ \A i \in 1 .. Len(doc) :
          WidthOf(doc[i]) \in Nat /\ e[i] = e[i - 1] + WidthOf(doc[i])

Stands(doc, e, sp) ==
    /\ doc \in Seq(PLeaf) /\ Laid(doc, e) /\ e[Len(doc)] = Len(TheText)
    /\ \A i \in 1 .. Len(doc) : LeafStands(doc[i], e[i - 1], e[i], sp)

Edge(e, c) == \E k \in DOMAIN e : e[k] = c

Finer(e, f) == \A x : Edge(e, x) => Edge(f, x)

Offsets(cuts) == cuts \subseteq 0 .. Len(TheText)

(* Ends is where the leaves end, *)
LEMMA EndsLaid ==
    ASSUME NEW doc, Len(doc) \in Nat, \A i \in 1 .. Len(doc) : WidthOf(doc[i]) \in Nat
    PROVE  Laid(doc, Ends(doc))
<1> DEFINE n == Len(doc)
           width == [i \in Nat |-> IF i \in 1 .. n THEN WidthOf(doc[i]) ELSE 0]
           g == [i \in Nat |-> [x \in Nat |-> x + width[i]]]
           e == Ends(doc)
<1>1. width \in [Nat -> Nat] OBVIOUS
<1>2. StepsIn(g, Nat)
  <2> HIDE DEF width
  <2> QED BY <1>1 DEF StepsIn
<1>3. \A x, i \in Nat : g[i][x] = x + width[i] OBVIOUS
<1>4. \A i \in 1 .. n : width[i] = WidthOf(doc[i]) /\ i \in Nat /\ i - 1 \in 0 .. n OBVIOUS
<1> HIDE DEF width, g
<1>5. PICK f \in [0 .. n -> Nat] : f[0] = 0 /\ \A i \in 1 .. n : f[i] = g[i][f[i - 1]]
  <2>1. 0 \in Nat /\ n \in Nat OBVIOUS
  <2>2. \E f : RunOf(f, Nat, 0, g, n)
    <3> HIDE DEF n
    <3> QED BY <1>2, <2>1, RunExists
  <2> QED BY <2>2 DEF RunOf
<1>6. \A i \in 1 .. n : i - 1 \in 0 .. n /\ f[i] = f[i - 1] + WidthOf(doc[i])
  <2> SUFFICES ASSUME NEW i \in 1 .. n
               PROVE  i - 1 \in 0 .. n /\ f[i] = f[i - 1] + WidthOf(doc[i])
    OBVIOUS
  <2>1. i - 1 \in 0 .. n /\ i \in Nat /\ width[i] = WidthOf(doc[i]) BY <1>4
  <2>2. f[i - 1] \in Nat /\ f[i] = g[i][f[i - 1]] BY <1>5, <2>1
  <2> QED BY <1>3, <2>1, <2>2
<1>7. f = [i \in 0 .. n |-> IF i = 0 THEN 0 ELSE f[i - 1] + WidthOf(doc[i])]
  <2>1. \A i \in 0 .. n : f[i] = IF i = 0 THEN 0 ELSE f[i - 1] + WidthOf(doc[i]) BY <1>5, <1>6
  <2> QED BY <1>5, <2>1
<1>8. e = [i \in 0 .. n |-> IF i = 0 THEN 0 ELSE e[i - 1] + WidthOf(doc[i])]
  BY <1>7 DEF Ends
<1> HIDE DEF e
<1>9. e[0] = 0 /\ \A i \in 1 .. n : e[i] = e[i - 1] + WidthOf(doc[i])
  <2>1. 0 \in 0 .. n /\ \A i \in 1 .. n : i \in 0 .. n /\ i # 0 OBVIOUS
  <2> QED BY <1>8, <2>1
<1> DEFINE S == {i \in Nat : i <= n => e[i] \in Nat}
<1>10. 0 \in S BY <1>9
<1>11. ASSUME NEW i \in S PROVE i + 1 \in S
  <2>1. i \in Nat /\ (i + 1) - 1 = i OBVIOUS
  <2>2. i + 1 <= n => i + 1 \in 1 .. n /\ i <= n BY <2>1
  <2>3. i + 1 <= n => e[i + 1] = e[i] + WidthOf(doc[i + 1]) BY <1>9, <2>1, <2>2
  <2> QED BY <2>1, <2>2, <2>3
<1>12. S = Nat
  <2>1. S \subseteq Nat OBVIOUS
  <2> HIDE DEF S
  <2> QED BY <1>10, <1>11, <2>1, Induction
<1>13. e \in [0 .. n -> Nat]
  <2>1. \A i \in 0 .. n : i \in Nat /\ i <= n OBVIOUS
  <2>2. \A i \in 0 .. n : e[i] \in Nat BY <1>12, <2>1
  <2>3. e = [i \in 0 .. n |-> e[i]] BY <1>8
  <2> QED BY <2>2, <2>3
<1> QED BY <1>9, <1>13 DEF Laid, e

(* and nothing else is. *)
LEMMA EndsAre ==
    ASSUME NEW doc, NEW e, Laid(doc, e)
    PROVE  Ends(doc) = e
<1> DEFINE n == Len(doc)
           f == Ends(doc)
<1>1. /\ n \in Nat /\ e \in [0 .. n -> Nat] /\ e[0] = 0
      /\ \A i \in 1 .. n : WidthOf(doc[i]) \in Nat /\ e[i] = e[i - 1] + WidthOf(doc[i])
  BY DEF Laid
<1>2. Laid(doc, f) BY <1>1, EndsLaid
<1> HIDE DEF f
<1>3. /\ f \in [0 .. n -> Nat] /\ f[0] = 0
      /\ \A i \in 1 .. n : f[i] = f[i - 1] + WidthOf(doc[i])
  BY <1>2 DEF Laid
<1> DEFINE S == {i \in Nat : i <= n => f[i] = e[i]}
<1>4. 0 \in S BY <1>1, <1>3
<1>5. ASSUME NEW i \in S PROVE i + 1 \in S
  <2>1. i \in Nat /\ (i + 1) - 1 = i OBVIOUS
  <2>2. i + 1 <= n => i + 1 \in 1 .. n /\ i <= n BY <1>1, <2>1
  <2> QED BY <1>1, <1>3, <2>1, <2>2
<1>6. S = Nat
  <2>1. S \subseteq Nat OBVIOUS
  <2> HIDE DEF S
  <2> QED BY <1>4, <1>5, <2>1, Induction
<1>7. \A i \in 0 .. n : f[i] = e[i] BY <1>1, <1>6
<1> QED BY <1>1, <1>3, <1>7 DEF f

(* A leaf ends where a later one starts, or before. *)
LEMMA EndsRise ==
    ASSUME NEW doc, NEW e, Laid(doc, e)
    PROVE  \A i, j \in 0 .. Len(doc) : i <= j => e[i] <= e[j]
<1> DEFINE n == Len(doc)
<1>1. /\ n \in Nat /\ e \in [0 .. n -> Nat]
      /\ \A i \in 1 .. n : WidthOf(doc[i]) \in Nat /\ e[i] = e[i - 1] + WidthOf(doc[i])
  BY DEF Laid
<1> SUFFICES ASSUME NEW i \in 0 .. n PROVE \A j \in 0 .. n : i <= j => e[i] <= e[j] OBVIOUS
<1> DEFINE S == {j \in Nat : j <= n /\ i <= j => e[i] <= e[j]}
<1>2. 0 \in S BY <1>1
<1>3. ASSUME NEW j \in S PROVE j + 1 \in S
  <2>1. j \in Nat /\ (j + 1) - 1 = j OBVIOUS
  <2>2. SUFFICES ASSUME j + 1 <= n, i <= j + 1 PROVE e[i] <= e[j + 1] BY <2>1
  <2>3. CASE i = j + 1
    <3>1. e[i] \in Nat BY <1>1
    <3> QED BY <2>3, <3>1
  <2>4. CASE i # j + 1
    <3>1. i <= j /\ j <= n /\ j + 1 \in 1 .. n /\ j \in 0 .. n BY <1>1, <2>1, <2>2, <2>4
    <3>2. e[i] <= e[j] BY <3>1
    <3>3. e[j + 1] = e[j] + WidthOf(doc[j + 1]) /\ WidthOf(doc[j + 1]) \in Nat
      BY <1>1, <2>1, <3>1
    <3>4. e[i] \in Nat /\ e[j] \in Nat BY <1>1, <3>1
    <3> QED BY <3>2, <3>3, <3>4
  <2> QED BY <2>3, <2>4
<1>4. S = Nat
  <2>1. S \subseteq Nat OBVIOUS
  <2> HIDE DEF S
  <2> QED BY <1>2, <1>3, <2>1, Induction
<1> QED BY <1>1, <1>4

(* Each character is in a leaf. *)
LEMMA LeafFound ==
    ASSUME NEW doc, NEW e, Laid(doc, e), NEW k \in 1 .. e[Len(doc)]
    PROVE  \E i \in 1 .. Len(doc) : e[i - 1] < k /\ k <= e[i]
<1> DEFINE n == Len(doc)
           S == {i \in 0 .. n : k <= e[i]}
<1>1. n \in Nat /\ e \in [0 .. n -> Nat] /\ e[0] = 0 BY DEF Laid
<1>2. n \in S /\ S \subseteq Nat BY <1>1
<1>3. PICK i \in S : \A j \in S : i <= j
  <2> HIDE DEF S
  <2> QED BY <1>2, LeastOf
<1>4. i \in 1 .. n BY <1>1
<1>5. i - 1 \in 0 .. n /\ ~(i <= i - 1) BY <1>1, <1>4
<1>6. ~(k <= e[i - 1]) BY <1>3, <1>5
<1>7. k \in Int /\ e[i - 1] \in Nat BY <1>1, <1>5
<1> QED BY <1>3, <1>4, <1>6, <1>7

(* Flat is the characters of the leaves, each where its leaf has it. *)
LEMMA FlatReads ==
    ASSUME NEW doc, Len(doc) \in Nat, \A i \in 1 .. Len(doc) : CharsOf(doc[i]) \in Seq(Nat)
    PROVE  /\ Flat(doc) \in Seq(Nat) /\ Len(Flat(doc)) = Ends(doc)[Len(doc)]
           /\ \A i \in 1 .. Len(doc) : \A m \in 1 .. WidthOf(doc[i]) :
                 Flat(doc)[Ends(doc)[i - 1] + m] = CharsOf(doc[i])[m]
<1> DEFINE n == Len(doc)
           chars == [i \in Nat |-> IF i \in 1 .. n THEN CharsOf(doc[i]) ELSE <<>>]
           g == [i \in Nat |-> [x \in Seq(Nat) |-> x \o chars[i]]]
           e == Ends(doc)
           h == CHOOSE h : h = [i \in 0 .. n |-> IF i = 0 THEN <<>> ELSE h[i - 1] \o CharsOf(doc[i])]
<1>1. chars \in [Nat -> Seq(Nat)]
  <2>1. <<>> \in Seq(Nat) OBVIOUS
  <2> QED BY <2>1
<1>2. StepsIn(g, Seq(Nat))
  <2> HIDE DEF chars
  <2> QED BY <1>1 DEF StepsIn
<1>3. \A x \in Seq(Nat), i \in Nat : g[i][x] = x \o chars[i] OBVIOUS
<1>4. \A i \in 1 .. n : chars[i] = CharsOf(doc[i]) /\ i \in Nat /\ i - 1 \in 0 .. n OBVIOUS
<1> HIDE DEF chars, g
<1>5. PICK f \in [0 .. n -> Seq(Nat)] :
          f[0] = <<>> /\ \A i \in 1 .. n : f[i] = g[i][f[i - 1]]
  <2>1. <<>> \in Seq(Nat) /\ n \in Nat OBVIOUS
  <2>2. \E f : RunOf(f, Seq(Nat), <<>>, g, n)
    <3> HIDE DEF n
    <3> QED BY <1>2, <2>1, RunExists
  <2> QED BY <2>2 DEF RunOf
<1>6. \A i \in 1 .. n : i - 1 \in 0 .. n /\ f[i] = f[i - 1] \o CharsOf(doc[i])
  <2> SUFFICES ASSUME NEW i \in 1 .. n
               PROVE  i - 1 \in 0 .. n /\ f[i] = f[i - 1] \o CharsOf(doc[i])
    OBVIOUS
  <2>1. i - 1 \in 0 .. n /\ i \in Nat /\ chars[i] = CharsOf(doc[i]) BY <1>4
  <2>2. f[i - 1] \in Seq(Nat) /\ f[i] = g[i][f[i - 1]] BY <1>5, <2>1
  <2> QED BY <1>3, <2>1, <2>2
<1>7. f = [i \in 0 .. n |-> IF i = 0 THEN <<>> ELSE f[i - 1] \o CharsOf(doc[i])]
  <2>1. \A i \in 0 .. n : f[i] = IF i = 0 THEN <<>> ELSE f[i - 1] \o CharsOf(doc[i])
    <3> SUFFICES ASSUME NEW i \in 0 .. n
                 PROVE  f[i] = IF i = 0 THEN <<>> ELSE f[i - 1] \o CharsOf(doc[i])
      OBVIOUS
    <3>1. i # 0 => i \in 1 .. n OBVIOUS
    <3>2. i # 0 => f[i] = f[i - 1] \o CharsOf(doc[i]) BY <1>6, <3>1
    <3>3. i = 0 => f[i] = <<>> BY <1>5
    <3> QED BY <3>2, <3>3, Zenon
  <2> QED BY <1>5, <2>1
<1>8. h = [i \in 0 .. n |-> IF i = 0 THEN <<>> ELSE h[i - 1] \o CharsOf(doc[i])] BY <1>7
<1>9. Flat(doc) = h[n] BY DEF Flat
<1> HIDE DEF h
<1>10. h[0] = <<>> /\ \A i \in 1 .. n : h[i] = h[i - 1] \o CharsOf(doc[i])
  <2>1. 0 \in 0 .. n /\ \A i \in 1 .. n : i \in 0 .. n /\ i # 0 OBVIOUS
  <2> QED BY <1>8, <2>1
<1>11. \A i \in 1 .. n : WidthOf(doc[i]) \in Nat BY DEF WidthOf
<1>12. Laid(doc, e) BY <1>11, EndsLaid
<1>13. /\ e \in [0 .. n -> Nat] /\ e[0] = 0
       /\ \A i \in 1 .. n : e[i] = e[i - 1] + WidthOf(doc[i])
  BY <1>12 DEF Laid
<1> HIDE DEF e
<1> DEFINE Good(i) == /\ h[i] \in Seq(Nat) /\ Len(h[i]) = e[i]
                      /\ \A j \in 1 .. i : e[j] <= e[i] /\ \A m \in 1 .. WidthOf(doc[j]) :
                            h[i][e[j - 1] + m] = CharsOf(doc[j])[m]
           S == {i \in Nat : i <= n => Good(i)}
<1>14. 0 \in S
  <2>1. h[0] \in Seq(Nat) /\ Len(h[0]) = e[0] BY <1>10, <1>13
  <2>2. \A j \in 1 .. 0 : FALSE OBVIOUS
  <2>3. Good(0) BY <2>1, <2>2
  <2> QED BY <2>3
<1>15. ASSUME NEW i \in S PROVE i + 1 \in S
  <2>1. SUFFICES ASSUME i + 1 <= n PROVE Good(i + 1) OBVIOUS
  <2>2. i \in Nat /\ Good(i) /\ (i + 1) - 1 = i /\ i + 1 \in 1 .. n /\ i \in 0 .. n BY <2>1
  <2> DEFINE was == h[i]
             add == CharsOf(doc[i + 1])
             now == was \o add
  <2>3. h[i + 1] = now BY <1>10, <2>2
  <2>4. was \in Seq(Nat) /\ Len(was) = e[i] /\ add \in Seq(Nat) /\ Len(add) = WidthOf(doc[i + 1])
    BY <2>2 DEF WidthOf
  <2>5. e[i + 1] = e[i] + Len(add) /\ e[i] \in Nat BY <1>13, <2>2, <2>4
  <2>6. \A j \in 1 .. i : /\ e[j] <= e[i] /\ j \in 1 .. n /\ e[j - 1] \in Nat
                          /\ e[j] = e[j - 1] + WidthOf(doc[j]) /\ WidthOf(doc[j]) \in Nat
                          /\ \A m \in 1 .. WidthOf(doc[j]) : was[e[j - 1] + m] = CharsOf(doc[j])[m]
    <3> SUFFICES ASSUME NEW j \in 1 .. i
                 PROVE  /\ e[j] <= e[i] /\ j \in 1 .. n /\ e[j - 1] \in Nat
                        /\ e[j] = e[j - 1] + WidthOf(doc[j]) /\ WidthOf(doc[j]) \in Nat
                        /\ \A m \in 1 .. WidthOf(doc[j]) : was[e[j - 1] + m] = CharsOf(doc[j])[m]
      OBVIOUS
    <3>1. j \in 1 .. n /\ j - 1 \in 0 .. n BY <2>1, <2>2
    <3> QED BY <1>11, <1>13, <2>2, <3>1
  <2> HIDE DEF was, add
  <2>7. /\ now \in Seq(Nat) /\ Len(now) = Len(was) + Len(add)
        /\ \A k \in 1 .. Len(was) : now[k] = was[k]
        /\ \A k \in 1 .. Len(add) : now[Len(was) + k] = add[k]
    <3>1. was \in Seq(Nat) /\ add \in Seq(Nat) BY <2>4
    <3> QED BY <3>1, Appended, SMT
  <2> HIDE DEF now
  <2>8. ASSUME NEW j \in 1 .. i + 1
        PROVE  e[j] <= e[i + 1] /\ \A m \in 1 .. WidthOf(doc[j]) :
                   now[e[j - 1] + m] = CharsOf(doc[j])[m]
    <3>1. CASE j = i + 1
      <4>1. e[j - 1] = Len(was) /\ CharsOf(doc[j]) = add /\ WidthOf(doc[j]) = Len(add)
        BY <2>2, <2>4, <3>1 DEF add
      <4>2. e[j] <= e[i + 1] BY <1>13, <2>2, <3>1
      <4> QED BY <2>7, <4>1, <4>2
    <3>2. CASE j \in 1 .. i
      <4>1. e[j] <= e[i + 1] /\ e[j] <= Len(was)
        <5>1. e[j] <= e[i] /\ e[j - 1] \in Nat /\ WidthOf(doc[j]) \in Nat
              /\ e[j] = e[j - 1] + WidthOf(doc[j])
          BY <2>6, <3>2
        <5>2. e[j] \in Nat BY <5>1
        <5>3. Len(add) \in Nat BY <2>4
        <5> QED BY <2>4, <2>5, <5>1, <5>2, <5>3
      <4>2. \A m \in 1 .. WidthOf(doc[j]) : e[j - 1] + m \in 1 .. Len(was)
        <5>1. e[j - 1] \in Nat /\ WidthOf(doc[j]) \in Nat /\ e[j] = e[j - 1] + WidthOf(doc[j])
          BY <2>6, <3>2
        <5>2. Len(was) \in Nat BY <2>4
        <5> QED BY <4>1, <5>1, <5>2
      <4>3. \A m \in 1 .. WidthOf(doc[j]) : now[e[j - 1] + m] = was[e[j - 1] + m]
        BY <2>7, <4>2
      <4> QED BY <2>6, <3>2, <4>1, <4>3
    <3> QED BY <2>2, <3>1, <3>2
  <2>9. Len(now) = e[i + 1] BY <2>4, <2>5, <2>7
  <2> QED BY <2>3, <2>7, <2>8, <2>9
<1>16. S = Nat
  <2>1. S \subseteq Nat OBVIOUS
  <2> HIDE DEF S
  <2> QED BY <1>14, <1>15, <2>1, Induction
<1>17. Good(n)
  <2>1. n \in S /\ n <= n BY <1>16
  <2> HIDE DEF Good
  <2> QED BY <2>1
<1> QED BY <1>9, <1>17 DEF e

(* Other data, or other marks, make another leaf. *)
LEMMA LeafData ==
    ASSUME NEW leaf \in PLeaf, NEW d \in Seq(Nat)
    PROVE  /\ [leaf EXCEPT !.data = d] \in PLeaf
           /\ [leaf EXCEPT !.data = d].kind = leaf.kind
           /\ [leaf EXCEPT !.data = d].marks = leaf.marks
           /\ [leaf EXCEPT !.data = d].data = d
           /\ NotesOn([leaf EXCEPT !.data = d]) = NotesOn(leaf)
           /\ leaf.kind = "text" => /\ CharsOf([leaf EXCEPT !.data = d]) = d
                                    /\ WidthOf([leaf EXCEPT !.data = d]) = Len(d)
<1> DEFINE new == [leaf EXCEPT !.data = d]
<1>1. /\ new \in PLeaf /\ new.kind = leaf.kind /\ new.marks = leaf.marks /\ new.data = d
  BY DEF PLeaf
<1> HIDE DEF new
<1>2. NotesOn(new) = NotesOn(leaf) BY <1>1 DEF NotesOn
<1>3. leaf.kind = "text" => CharsOf(new) = d /\ WidthOf(new) = Len(d)
  BY <1>1 DEF CharsOf, WidthOf
<1> QED BY <1>1, <1>2, <1>3 DEF new

LEMMA LeafMarks ==
    ASSUME NEW leaf \in PLeaf, NEW marks \in SUBSET [note : Marked, element : Nat]
    PROVE  /\ [leaf EXCEPT !.marks = marks] \in PLeaf
           /\ [leaf EXCEPT !.marks = marks].kind = leaf.kind
           /\ CharsOf([leaf EXCEPT !.marks = marks]) = CharsOf(leaf)
           /\ WidthOf([leaf EXCEPT !.marks = marks]) = WidthOf(leaf)
           /\ NotesOn([leaf EXCEPT !.marks = marks]) = {m.note : m \in marks}
<1> DEFINE new == [leaf EXCEPT !.marks = marks]
<1>1. new \in PLeaf /\ new.kind = leaf.kind /\ new.data = leaf.data /\ new.marks = marks
  BY DEF PLeaf
<1> HIDE DEF new
<1>2. CharsOf(new) = CharsOf(leaf) BY <1>1 DEF CharsOf
<1>3. NotesOn(new) = {m.note : m \in marks} BY <1>1 DEF NotesOn
<1> QED BY <1>1, <1>2, <1>3 DEF new, WidthOf

LEMMA LeafTypes ==
    ASSUME NEW leaf \in PLeaf
    PROVE  /\ leaf.kind \in LeafKinds /\ leaf.data \in Seq(Nat)
           /\ leaf.marks \in SUBSET [note : Marked, element : Nat]
           /\ CharsOf(leaf) \in Seq(Nat) /\ WidthOf(leaf) \in Nat
           /\ leaf.kind = "excluded" => WidthOf(leaf) = 0
           /\ leaf.kind # "excluded" => CharsOf(leaf) = leaf.data
           /\ DOMAIN CharsOf(leaf) = 1 .. WidthOf(leaf)
<1>1. /\ leaf.kind \in LeafKinds /\ leaf.data \in Seq(Nat)
      /\ leaf.marks \in SUBSET [note : Marked, element : Nat]
  BY DEF PLeaf
<1>2. CharsOf(leaf) \in Seq(Nat)
  <2>1. <<>> \in Seq(Nat) OBVIOUS
  <2> QED BY <1>1, <2>1 DEF CharsOf
<1>3. leaf.kind = "excluded" => WidthOf(leaf) = 0
  <2>1. Len(<<>>) = 0 OBVIOUS
  <2> QED BY <2>1 DEF CharsOf, WidthOf
<1> QED BY <1>1, <1>2, <1>3 DEF CharsOf, WidthOf

(* splitText: both parts stand where they were. *)
LEMMA LeafSplit ==
    ASSUME NEW leaf, NEW from \in Nat, NEW to \in Nat, NEW sp, Spanned(sp),
           LeafStands(leaf, from, to, sp),
           leaf.kind = "text", NEW m \in Nat, 0 < m, from + m < to
    PROVE  /\ LeafStands([leaf EXCEPT !.data = SubSeq(leaf.data, 1, m)], from, from + m, sp)
           /\ LeafStands([leaf EXCEPT !.data = SubSeq(leaf.data, m + 1, Len(leaf.data))],
                         from + m, to, sp)
<1> DEFINE d == leaf.data
           d1 == SubSeq(d, 1, m)
           d2 == SubSeq(d, m + 1, Len(d))
           a == [leaf EXCEPT !.data = d1]
           b == [leaf EXCEPT !.data = d2]
<1>1. leaf \in PLeaf /\ to = from + WidthOf(leaf) BY DEF LeafStands
<1>2. d \in Seq(Nat) /\ CharsOf(leaf) = d /\ WidthOf(leaf) = Len(d)
  BY <1>1, LeafTypes DEF CharsOf, WidthOf
<1>3. Len(d) \in Nat /\ m < Len(d) BY <1>1, <1>2
<1>4. /\ d1 \in Seq(Nat) /\ Len(d1) = m /\ \A k \in 1 .. m : d1[k] = d[k]
  <2> HIDE DEF d
  <2> QED BY <1>2, <1>3
<1>5. /\ d2 \in Seq(Nat) /\ Len(d2) = Len(d) - m /\ \A k \in 1 .. Len(d) - m : d2[k] = d[m + k]
  <2> HIDE DEF d
  <2> QED BY <1>2, <1>3
<1> HIDE DEF d1, d2
<1>6. /\ a \in PLeaf /\ a.kind = "text" /\ NotesOn(a) = NotesOn(leaf)
      /\ CharsOf(a) = d1 /\ WidthOf(a) = m
  BY <1>1, <1>4, LeafData
<1>7. /\ b \in PLeaf /\ b.kind = "text" /\ NotesOn(b) = NotesOn(leaf)
      /\ CharsOf(b) = d2 /\ WidthOf(b) = Len(d) - m
  BY <1>1, <1>5, LeafData
<1> HIDE DEF a, b, d
<1>8. \A k \in 1 .. Len(d) : d[k] = TheText[from + k] BY <1>2 DEF LeafStands
<1>9. \A n \in Marked :
          /\ n \in NotesOn(leaf) => from < to /\ sp[n][1] <= from /\ to <= sp[n][2]
          /\ n \notin NotesOn(leaf) =>
                \A k \in from + 1 .. to : Covers(sp[n], k) => TheText[k] \in Blanks
  BY DEF LeafStands
<1>10. LeafStands(a, from, from + m, sp)
  <2>1. \A k \in 1 .. m : d1[k] = TheText[from + k]
    <3>1. \A k \in 1 .. m : k \in 1 .. Len(d) BY <1>3
    <3> QED BY <1>4, <1>8, <3>1
  <2>2. ASSUME NEW n \in Marked
        PROVE  /\ n \in NotesOn(a) => from < from + m /\ sp[n][1] <= from /\ from + m <= sp[n][2]
               /\ n \notin NotesOn(a) =>
                     \A k \in from + 1 .. from + m : Covers(sp[n], k) => TheText[k] \in Blanks
    <3>1. \A k \in from + 1 .. from + m : k \in from + 1 .. to OBVIOUS
    <3>2. n \in NotesOn(a) => from + m <= sp[n][2]
      <4>1. n \in NotesOn(a) => to <= sp[n][2] BY <1>6, <1>9
      <4>2. sp[n][2] \in Nat BY DEF Spanned
      <4> QED BY <4>1, <4>2
    <3> QED BY <1>6, <1>9, <3>1, <3>2
  <2> QED BY <1>6, <2>1, <2>2 DEF LeafStands
<1>11. LeafStands(b, from + m, to, sp)
  <2>1. \A k \in 1 .. Len(d) - m : d2[k] = TheText[(from + m) + k]
    <3> SUFFICES ASSUME NEW k \in 1 .. Len(d) - m PROVE d2[k] = TheText[(from + m) + k] OBVIOUS
    <3>1. m + k \in 1 .. Len(d) /\ from + (m + k) = (from + m) + k BY <1>3
    <3>2. d2[k] = d[m + k] BY <1>5
    <3> QED BY <1>8, <3>1, <3>2
  <2>2. ASSUME NEW n \in Marked
        PROVE  /\ n \in NotesOn(b) => from + m < to /\ sp[n][1] <= from + m /\ to <= sp[n][2]
               /\ n \notin NotesOn(b) =>
                     \A k \in (from + m) + 1 .. to : Covers(sp[n], k) => TheText[k] \in Blanks
    <3>1. \A k \in (from + m) + 1 .. to : k \in from + 1 .. to OBVIOUS
    <3>2. n \in NotesOn(b) => sp[n][1] <= from + m
      <4>1. n \in NotesOn(b) => sp[n][1] <= from BY <1>7, <1>9
      <4>2. sp[n][1] \in Nat BY DEF Spanned
      <4> QED BY <4>1, <4>2
    <3> QED BY <1>7, <1>9, <3>1, <3>2
  <2>3. to = (from + m) + (Len(d) - m) BY <1>1, <1>2, <1>3
  <2> QED BY <1>7, <2>1, <2>2, <2>3 DEF LeafStands
<1> QED BY <1>10, <1>11 DEF a, b, d1, d2, d

(* normalize: what is joined stands where its parts were. *)
LEMMA LeafJoin ==
    ASSUME NEW a, NEW b, NEW from \in Nat, NEW m \in Nat, NEW to \in Nat, NEW sp, Spanned(sp),
           LeafStands(a, from, m, sp), LeafStands(b, m, to, sp),
           a.kind = "text", b.kind = "text", a.marks = b.marks
    PROVE  LeafStands([a EXCEPT !.data = a.data \o b.data], from, to, sp)
<1> DEFINE x == a.data
           y == b.data
           d == x \o y
           c == [a EXCEPT !.data = d]
<1>1. /\ a \in PLeaf /\ m = from + WidthOf(a) /\ b \in PLeaf /\ to = m + WidthOf(b)
  BY DEF LeafStands
<1>2. /\ x \in Seq(Nat) /\ CharsOf(a) = x /\ WidthOf(a) = Len(x)
      /\ y \in Seq(Nat) /\ CharsOf(b) = y /\ WidthOf(b) = Len(y)
  BY <1>1, LeafTypes DEF CharsOf, WidthOf
<1> HIDE DEF x, y
<1>3. /\ d \in Seq(Nat) /\ Len(d) = Len(x) + Len(y)
      /\ \A k \in 1 .. Len(x) : d[k] = x[k]
      /\ \A k \in 1 .. Len(y) : d[Len(x) + k] = y[k]
  <2>1. x \in Seq(Nat) /\ y \in Seq(Nat) BY <1>2
  <2> QED BY <2>1, Appended
<1> HIDE DEF d
<1>4. /\ c \in PLeaf /\ c.kind = "text" /\ NotesOn(c) = NotesOn(a)
      /\ CharsOf(c) = d /\ WidthOf(c) = Len(d)
  BY <1>1, <1>3, LeafData
<1> HIDE DEF c
<1>5. NotesOn(a) = NotesOn(b) BY DEF NotesOn
<1>6. Len(x) \in Nat /\ Len(y) \in Nat /\ m = from + Len(x) /\ to = m + Len(y) BY <1>1, <1>2
<1>7. to = from + Len(d) BY <1>3, <1>6
<1>8. ASSUME NEW k \in 1 .. Len(d) PROVE d[k] = TheText[from + k]
  <2>1. CASE k \in 1 .. Len(x)
    <3>1. x[k] = TheText[from + k] BY <1>2, <2>1 DEF LeafStands
    <3> QED BY <1>3, <2>1, <3>1
  <2>2. CASE k \notin 1 .. Len(x)
    <3> DEFINE j == k - Len(x)
    <3>1. j \in 1 .. Len(y) /\ Len(x) + j = k /\ m + j = from + k BY <1>3, <1>6, <2>2
    <3>2. y[j] = TheText[m + j] BY <1>2, <3>1 DEF LeafStands
    <3>3. d[Len(x) + j] = y[j] BY <1>3, <3>1
    <3> QED BY <3>1, <3>2, <3>3
  <2> QED BY <2>1, <2>2
<1>9. ASSUME NEW n \in Marked
      PROVE  /\ n \in NotesOn(c) => from < to /\ sp[n][1] <= from /\ to <= sp[n][2]
             /\ n \notin NotesOn(c) =>
                   \A k \in from + 1 .. to : Covers(sp[n], k) => TheText[k] \in Blanks
  <2>1. /\ n \in NotesOn(c) => from < m /\ sp[n][1] <= from /\ m < to /\ to <= sp[n][2]
    BY <1>4, <1>5 DEF LeafStands
  <2>2. n \notin NotesOn(c) =>
            /\ \A k \in from + 1 .. m : Covers(sp[n], k) => TheText[k] \in Blanks
            /\ \A k \in m + 1 .. to : Covers(sp[n], k) => TheText[k] \in Blanks
    BY <1>4, <1>5 DEF LeafStands
  <2>3. \A k \in from + 1 .. to : k \in from + 1 .. m \/ k \in m + 1 .. to OBVIOUS
  <2>4. n \in NotesOn(c) => from < to BY <2>1
  <2> QED BY <2>1, <2>2, <2>3, <2>4
<1>10. c.kind = "atomic" => WidthOf(c) = 1 BY <1>4
<1> QED BY <1>4, <1>7, <1>8, <1>9, <1>10 DEF LeafStands, c, d, x, y

(* A page stands if its leaves do, one after the other. *)
LEMMA LeavesMakePage ==
    ASSUME NEW doc \in Seq(PLeaf), NEW e \in [0 .. Len(doc) -> Nat], NEW sp,
           e[0] = 0, e[Len(doc)] = Len(TheText),
           \A i \in 1 .. Len(doc) : LeafStands(doc[i], e[i - 1], e[i], sp)
    PROVE  Stands(doc, e, sp)
<1>1. ASSUME NEW i \in 1 .. Len(doc)
      PROVE  WidthOf(doc[i]) \in Nat /\ e[i] = e[i - 1] + WidthOf(doc[i])
  BY LeafTypes DEF LeafStands
<1> QED BY <1>1 DEF Stands, Laid

LEMMA PageHasLeaves ==
    ASSUME NEW doc, NEW e, NEW sp, Stands(doc, e, sp)
    PROVE  /\ doc \in Seq(PLeaf) /\ Len(doc) \in Nat /\ DOMAIN doc = 1 .. Len(doc)
           /\ Laid(doc, e) /\ Ends(doc) = e /\ TextLength(doc) = Len(TheText)
           /\ e \in [0 .. Len(doc) -> Nat] /\ e[0] = 0 /\ e[Len(doc)] = Len(TheText)
           /\ Len(TheText) \in Nat
           /\ \A i \in 1 .. Len(doc) :
                 /\ doc[i] \in PLeaf /\ LeafStands(doc[i], e[i - 1], e[i], sp)
                 /\ i - 1 \in 0 .. Len(doc) /\ e[i - 1] \in Nat /\ e[i] \in Nat
                 /\ e[i] = e[i - 1] + WidthOf(doc[i])
<1>1. /\ doc \in Seq(PLeaf) /\ Laid(doc, e) /\ e[Len(doc)] = Len(TheText)
      /\ \A i \in 1 .. Len(doc) : LeafStands(doc[i], e[i - 1], e[i], sp)
  BY DEF Stands
<1>2. Len(doc) \in Nat /\ DOMAIN doc = 1 .. Len(doc) BY <1>1
<1>3. Ends(doc) = e BY <1>1, EndsAre
<1>4. TextLength(doc) = Len(TheText) BY <1>1, <1>3 DEF TextLength
<1>5. e \in [0 .. Len(doc) -> Nat] /\ e[0] = 0 BY <1>1 DEF Laid
<1>6. Len(TheText) \in Nat BY <1>1, <1>2, <1>5
<1>7. ASSUME NEW i \in 1 .. Len(doc)
      PROVE  /\ doc[i] \in PLeaf /\ i - 1 \in 0 .. Len(doc) /\ e[i - 1] \in Nat /\ e[i] \in Nat
             /\ e[i] = e[i - 1] + WidthOf(doc[i])
  BY <1>1, <1>2, <1>5 DEF LeafStands
<1> QED BY <1>1, <1>2, <1>3, <1>4, <1>5, <1>6, <1>7

(* splitText: the page stands, and has an edge more. *)
LEMMA SplitStands ==
    ASSUME NEW doc, NEW e, NEW sp, Spanned(sp), Stands(doc, e, sp),
           NEW i \in 1 .. Len(doc), doc[i].kind = "text", NEW c \in Nat, e[i - 1] < c, c < e[i]
    PROVE  \E f : /\ Stands(Split(doc, i, c - e[i - 1]), f, sp)
                  /\ Edge(f, c) /\ Finer(e, f)
<1> DEFINE n == Len(doc)
           m == c - e[i - 1]
           one == [doc[i] EXCEPT !.data = SubSeq(doc[i].data, 1, m)]
           two == [doc[i] EXCEPT !.data = SubSeq(doc[i].data, m + 1, Len(doc[i].data))]
           d == [k \in 1 .. n + 1 |-> IF k < i THEN doc[k] ELSE IF k = i THEN one
                                      ELSE IF k = i + 1 THEN two ELSE doc[k - 1]]
           f == [k \in 0 .. n + 1 |-> IF k < i THEN e[k] ELSE IF k = i THEN c ELSE e[k - 1]]
<1>1. /\ n \in Nat /\ e \in [0 .. n -> Nat] /\ e[0] = 0 /\ e[n] = Len(TheText)
      /\ \A k \in 1 .. n : doc[k] \in PLeaf /\ LeafStands(doc[k], e[k - 1], e[k], sp)
      /\ e[i - 1] \in Nat /\ e[i] \in Nat
  BY PageHasLeaves
<1>2. m \in Nat /\ 0 < m /\ e[i - 1] + m = c BY <1>1
<1>3. Split(doc, i, m) = d BY DEF Split
<1> HIDE DEF m
<1>4. LeafStands(one, e[i - 1], c, sp) /\ LeafStands(two, c, e[i], sp)
  <2>1. LeafStands(doc[i], e[i - 1], e[i], sp) BY <1>1
  <2>2. e[i - 1] + m < e[i] BY <1>2
  <2> QED BY <1>1, <1>2, <2>1, <2>2, LeafSplit
<1> HIDE DEF one, two
<1>5. one \in PLeaf /\ two \in PLeaf BY <1>4 DEF LeafStands
<1>6. d \in Seq(PLeaf) /\ Len(d) = n + 1
  <2>1. \A k \in 1 .. n + 1 : d[k] \in PLeaf
    <3> SUFFICES ASSUME NEW k \in 1 .. n + 1 PROVE d[k] \in PLeaf OBVIOUS
    <3>1. k < i => k \in 1 .. n BY <1>1
    <3>2. k > i + 1 => k - 1 \in 1 .. n BY <1>1
    <3>3. k < i \/ k = i \/ k = i + 1 \/ k > i + 1 BY <1>1
    <3> QED BY <1>1, <1>5, <3>1, <3>2, <3>3
  <2>2. d \in [1 .. n + 1 -> PLeaf] BY <2>1
  <2>3. n + 1 \in Nat BY <1>1
  <2> HIDE DEF d, n
  <2> QED BY <2>2, <2>3
<1>7. /\ f \in [0 .. n + 1 -> Nat] /\ f[0] = 0 /\ f[n + 1] = Len(TheText)
  <2>1. \A k \in 0 .. n + 1 : f[k] \in Nat
    <3> SUFFICES ASSUME NEW k \in 0 .. n + 1 PROVE f[k] \in Nat OBVIOUS
    <3>1. k < i => k \in 0 .. n BY <1>1
    <3>2. k > i => k - 1 \in 0 .. n BY <1>1
    <3>3. k < i \/ k = i \/ k > i BY <1>1
    <3> QED BY <1>1, <3>1, <3>2, <3>3
  <2>2. f[0] = 0 BY <1>1
  <2>3. f[n + 1] = e[n] BY <1>1
  <2> QED BY <1>1, <2>1, <2>2, <2>3
<1>8. ASSUME NEW k \in 1 .. n + 1 PROVE LeafStands(d[k], f[k - 1], f[k], sp)
  <2>1. CASE k < i
    <3>1. d[k] = doc[k] /\ f[k - 1] = e[k - 1] /\ f[k] = e[k] /\ k \in 1 .. n BY <1>1, <2>1
    <3> QED BY <1>1, <3>1
  <2>2. CASE k = i
    <3>1. d[k] = one /\ f[k - 1] = e[i - 1] /\ f[k] = c BY <1>1, <2>2
    <3> QED BY <1>4, <3>1
  <2>3. CASE k = i + 1
    <3>1. d[k] = two /\ f[k - 1] = c /\ f[k] = e[i] BY <1>1, <2>3
    <3> QED BY <1>4, <3>1
  <2>4. CASE k > i + 1
    <3> DEFINE j == k - 1
    <3>1. j \in 1 .. n BY <1>1, <2>4
    <3>2. d[k] = doc[j] BY <1>1, <2>4
    <3>3. f[k] = e[j] BY <1>1, <2>4
    <3>4. f[k - 1] = e[j - 1] BY <1>1, <2>4
    <3>5. LeafStands(doc[j], e[j - 1], e[j], sp) BY <1>1, <3>1
    <3> QED BY <3>2, <3>3, <3>4, <3>5
  <2> QED BY <1>1, <2>1, <2>2, <2>3, <2>4
<1>9. Stands(d, f, sp)
  <2> HIDE DEF d, f, n
  <2>1. \A k \in 1 .. Len(d) : LeafStands(d[k], f[k - 1], f[k], sp) BY <1>6, <1>8
  <2> QED BY <1>6, <1>7, <2>1, LeavesMakePage
<1>10. Edge(f, c)
  <2>1. i \in DOMAIN f /\ f[i] = c BY <1>1
  <2> QED BY <2>1 DEF Edge
<1>11. ASSUME NEW x, Edge(e, x) PROVE Edge(f, x)
  <2>1. PICK k \in 0 .. n : e[k] = x BY <1>1, <1>11 DEF Edge
  <2>2. CASE k < i
    <3>1. k \in DOMAIN f /\ f[k] = x BY <1>1, <2>1, <2>2
    <3> QED BY <3>1 DEF Edge
  <2>3. CASE ~(k < i)
    <3>1. k + 1 \in DOMAIN f /\ f[k + 1] = x BY <1>1, <2>1, <2>3
    <3> QED BY <3>1 DEF Edge
  <2> QED BY <2>2, <2>3
<1>12. \A x : Edge(e, x) => Edge(f, x) BY <1>11
<1> QED BY <1>3, <1>9, <1>10, <1>12 DEF m, Finer

(* normalize: the page stands. *)
LEMMA JoinStands ==
    ASSUME NEW doc, NEW e, NEW sp, Spanned(sp), Stands(doc, e, sp),
           NEW i \in 1 .. Len(doc) - 1, doc[i].kind = "text", doc[i + 1].kind = "text",
           doc[i].marks = doc[i + 1].marks
    PROVE  \E f : Stands(JoinedAt(doc, i), f, sp)
<1> DEFINE n == Len(doc)
           one == [doc[i] EXCEPT !.data = doc[i].data \o doc[i + 1].data]
           d == [k \in 1 .. n - 1 |-> IF k < i THEN doc[k] ELSE IF k = i THEN one ELSE doc[k + 1]]
           f == [k \in 0 .. n - 1 |-> IF k < i THEN e[k] ELSE e[k + 1]]
<1>1. /\ n \in Nat /\ e \in [0 .. n -> Nat] /\ e[0] = 0 /\ e[n] = Len(TheText)
      /\ \A k \in 1 .. n : doc[k] \in PLeaf /\ LeafStands(doc[k], e[k - 1], e[k], sp)
  BY PageHasLeaves
<1>2. /\ i \in 1 .. n /\ i + 1 \in 1 .. n /\ (i + 1) - 1 = i /\ i - 1 \in 0 .. n
      /\ n - 1 \in Nat
  BY <1>1
<1>3. JoinedAt(doc, i) = d BY DEF JoinedAt
<1>4. LeafStands(one, e[i - 1], e[i + 1], sp)
  <2>1. LeafStands(doc[i], e[i - 1], e[i], sp) /\ LeafStands(doc[i + 1], e[i], e[i + 1], sp)
    BY <1>1, <1>2
  <2>2. e[i - 1] \in Nat /\ e[i] \in Nat /\ e[i + 1] \in Nat BY <1>1, <1>2
  <2> QED BY <2>1, <2>2, LeafJoin
<1> HIDE DEF one
<1>5. one \in PLeaf BY <1>4 DEF LeafStands
<1>6. d \in Seq(PLeaf) /\ Len(d) = n - 1
  <2>1. \A k \in 1 .. n - 1 : d[k] \in PLeaf
    <3> SUFFICES ASSUME NEW k \in 1 .. n - 1 PROVE d[k] \in PLeaf OBVIOUS
    <3>1. k \in 1 .. n /\ k + 1 \in 1 .. n BY <1>1
    <3> QED BY <1>1, <1>5, <3>1
  <2>2. d \in [1 .. n - 1 -> PLeaf] BY <2>1
  <2>3. n - 1 \in Nat BY <1>2
  <2> HIDE DEF d, n
  <2> QED BY <2>2, <2>3
<1>7. /\ f \in [0 .. n - 1 -> Nat] /\ f[0] = 0 /\ f[n - 1] = Len(TheText)
  <2>1. \A k \in 0 .. n - 1 : k \in 0 .. n /\ k + 1 \in 0 .. n BY <1>1
  <2>2. \A k \in 0 .. n - 1 : f[k] \in Nat BY <1>1, <2>1
  <2>3. f[0] = 0 BY <1>1, <1>2
  <2>4. f[n - 1] = e[n] BY <1>1, <1>2
  <2> QED BY <1>1, <2>2, <2>3, <2>4
<1>8. ASSUME NEW k \in 1 .. n - 1 PROVE LeafStands(d[k], f[k - 1], f[k], sp)
  <2>0. k \in 1 .. n /\ k + 1 \in 1 .. n /\ (k + 1) - 1 = k BY <1>1
  <2>1. CASE k < i
    <3>1. d[k] = doc[k] /\ f[k - 1] = e[k - 1] /\ f[k] = e[k] BY <1>1, <2>1
    <3> QED BY <1>1, <2>0, <3>1
  <2>2. CASE k = i
    <3>1. d[k] = one /\ f[k - 1] = e[i - 1] /\ f[k] = e[i + 1] BY <1>1, <2>2
    <3> QED BY <1>4, <3>1
  <2>3. CASE k > i
    <3>1. d[k] = doc[k + 1] BY <1>1, <2>3
    <3>2. f[k] = e[k + 1] BY <1>1, <2>3
    <3>3. f[k - 1] = e[k] BY <1>1, <2>3
    <3>4. LeafStands(doc[k + 1], e[k], e[k + 1], sp) BY <1>1, <2>0
    <3> QED BY <3>1, <3>2, <3>3, <3>4
  <2> QED BY <1>1, <2>1, <2>2, <2>3
<1>9. Stands(d, f, sp)
  <2> HIDE DEF d, f, n
  <2>1. \A k \in 1 .. Len(d) : LeafStands(d[k], f[k - 1], f[k], sp) BY <1>6, <1>8
  <2> QED BY <1>6, <1>7, <2>1, LeavesMakePage
<1> QED BY <1>3, <1>9

(* applyCuts: the page stands, with an edge at each cut. *)
LEMMA CutStands ==
    ASSUME NEW doc, NEW e, NEW sp, Spanned(sp), Stands(doc, e, sp),
           NEW cuts, Offsets(cuts), NEW c \in Nat
    PROVE  \E f : /\ Stands(CutAt(doc, c, cuts), f, sp)
                  /\ c \in cuts => Edge(f, c)
                  /\ Finer(e, f)
<1> DEFINE hit == Straddling(doc, c)
           i == CHOOSE i \in hit : TRUE
<1>1. /\ Laid(doc, e) /\ Ends(doc) = e /\ e[Len(doc)] = Len(TheText) /\ Len(doc) \in Nat
      /\ e \in [0 .. Len(doc) -> Nat] /\ e[0] = 0 /\ DOMAIN doc = 1 .. Len(doc)
      /\ Len(TheText) \in Nat
      /\ \A k \in 1 .. Len(doc) :
            /\ doc[k] \in PLeaf /\ LeafStands(doc[k], e[k - 1], e[k], sp)
            /\ e[k - 1] \in Nat /\ e[k] \in Nat /\ e[k] = e[k - 1] + WidthOf(doc[k])
  BY PageHasLeaves
<1>2. CutAt(doc, c, cuts) =
          IF c \in cuts /\ hit # {} THEN Split(doc, i, c - e[i - 1]) ELSE doc
  BY <1>1 DEF CutAt
<1>3. \A k \in hit : k \in 1 .. Len(doc) /\ doc[k].kind = "text" /\ e[k - 1] < c /\ c < e[k]
  BY <1>1 DEF Straddling
<1>4. CASE c \in cuts /\ hit # {}
  <2>1. i \in hit BY <1>4
  <2>2. CutAt(doc, c, cuts) = Split(doc, i, c - e[i - 1]) BY <1>2, <1>4
  <2>3. i \in 1 .. Len(doc) /\ doc[i].kind = "text" /\ e[i - 1] < c /\ c < e[i] BY <1>3, <2>1
  <2> HIDE DEF i
  <2> QED BY <2>2, <2>3, SplitStands
<1>5. CASE ~(c \in cuts /\ hit # {})
  <2>1. CutAt(doc, c, cuts) = doc BY <1>2, <1>5
  <2>2. ASSUME c \in cuts PROVE Edge(e, c)
    <3>1. hit = {} /\ c <= Len(TheText) BY <1>1, <1>5, <2>2 DEF Offsets
    <3>2. CASE c = 0
      <4>1. 0 \in DOMAIN e /\ e[0] = c BY <1>1, <3>2
      <4> QED BY <4>1 DEF Edge
    <3>3. CASE c # 0
      <4>1. c \in 1 .. e[Len(doc)] BY <1>1, <3>1, <3>3
      <4>2. PICK k \in 1 .. Len(doc) : e[k - 1] < c /\ c <= e[k] BY <1>1, <4>1, LeafFound
      <4>3. k \in DOMAIN e BY <1>1
      <4>4. c # e[k] => doc[k].kind = "text"
        <5>1. c # e[k] => WidthOf(doc[k]) # 0 /\ WidthOf(doc[k]) # 1 BY <1>1, <4>2
        <5>2. doc[k].kind = "atomic" => WidthOf(doc[k]) = 1 BY <1>1 DEF LeafStands
        <5>3. /\ doc[k].kind = "excluded" => WidthOf(doc[k]) = 0
              /\ doc[k].kind \in LeafKinds
          BY <1>1, LeafTypes
        <5> QED BY <5>1, <5>2, <5>3 DEF LeafKinds
      <4>5. c = e[k]
        <5>1. c # e[k] => c < e[k] BY <1>1, <4>2
        <5>2. c # e[k] => k \in hit BY <1>1, <4>2, <4>4, <5>1 DEF Straddling
        <5> QED BY <3>1, <5>2
      <4> QED BY <4>3, <4>5 DEF Edge
    <3> QED BY <3>2, <3>3
  <2>3. Finer(e, e) BY DEF Finer
  <2> QED BY <2>1, <2>2, <2>3
<1> QED BY <1>4, <1>5

LEMMA CutsStand ==
    ASSUME NEW doc, NEW e, NEW sp, Spanned(sp), Stands(doc, e, sp),
           NEW cuts, Offsets(cuts)
    PROVE  \E f : Stands(ApplyCuts(doc, cuts), f, sp) /\ \A c \in cuts : Edge(f, c)
<1> DEFINE t == TextLength(doc)
           A == {x \in Seq(PLeaf) : \E f : Stands(x, f, sp)}
           g == [i \in Nat |-> [x \in A |-> CutAt(x, i, cuts)]]
           h == CHOOSE h : h = [c \in 0 .. t |-> IF c = 0 THEN doc ELSE CutAt(h[c - 1], c, cuts)]
<1>0. ASSUME NEW x, NEW k, Stands(x, k, sp), NEW c \in Nat
      PROVE  \E l : /\ Stands(CutAt(x, c, cuts), l, sp)
                    /\ c \in cuts => Edge(l, c)
                    /\ Finer(k, l)
  BY <1>0, CutStands
<1>1. doc \in Seq(PLeaf) /\ t = Len(TheText) /\ t \in Nat
  BY PageHasLeaves
<1>2. doc \in A BY <1>1
<1>3. \A i \in Nat : \A x \in A : CutAt(x, i, cuts) \in A
  <2> SUFFICES ASSUME NEW i \in Nat, NEW x \in A PROVE CutAt(x, i, cuts) \in A OBVIOUS
  <2>1. PICK f : Stands(x, f, sp) OBVIOUS
  <2>2. PICK k : Stands(CutAt(x, i, cuts), k, sp) BY <2>1, CutStands
  <2>3. CutAt(x, i, cuts) \in Seq(PLeaf) BY <2>2, PageHasLeaves
  <2> QED BY <2>2, <2>3
<1> HIDE DEF A
<1>4. StepsIn(g, A) BY <1>3 DEF StepsIn
<1>5. \A i \in Nat, x \in A : g[i][x] = CutAt(x, i, cuts) OBVIOUS
<1> HIDE DEF g, t
<1>6. PICK f : RunOf(f, A, doc, g, t) BY <1>1, <1>2, <1>4, RunExists
<1>7. f \in [0 .. t -> A] /\ f[0] = doc /\ \A i \in 1 .. t : f[i] = g[i][f[i - 1]]
  BY <1>6 DEF RunOf
<1>8. f = [c \in 0 .. t |-> IF c = 0 THEN doc ELSE CutAt(f[c - 1], c, cuts)]
  <2>1. ASSUME NEW c \in 0 .. t PROVE f[c] = IF c = 0 THEN doc ELSE CutAt(f[c - 1], c, cuts)
    <3>1. CASE c = 0 BY <1>7, <3>1
    <3>2. CASE c # 0
      <4>1. c \in 1 .. t /\ c \in Nat /\ c - 1 \in 0 .. t BY <1>1, <3>2
      <4>2. f[c] = CutAt(f[c - 1], c, cuts) BY <1>5, <1>7, <4>1
      <4> QED BY <3>2, <4>2
    <3> QED BY <3>1, <3>2
  <2> QED BY <1>7, <2>1
<1>9. h = [c \in 0 .. t |-> IF c = 0 THEN doc ELSE CutAt(h[c - 1], c, cuts)] BY <1>8
<1>10. ApplyCuts(doc, cuts) = h[t] BY DEF ApplyCuts, t
<1> HIDE DEF h
<1>11. h[0] = doc /\ \A c \in 1 .. t : h[c] = CutAt(h[c - 1], c, cuts)
  <2>1. 0 \in 0 .. t /\ \A c \in 1 .. t : c \in 0 .. t /\ c # 0 BY <1>1
  <2> QED BY <1>9, <2>1
<1> DEFINE Good(c) == \E k : Stands(h[c], k, sp) /\ \A x \in cuts : x <= c => Edge(k, x)
           S == {c \in Nat : c <= t => Good(c)}
<1>12. 0 \in S
  <2>1. e[0] = 0 /\ 0 \in DOMAIN e BY PageHasLeaves
  <2>2. \A x \in cuts : x <= 0 => Edge(e, x)
    <3>1. \A x \in cuts : x <= 0 => x = 0 BY <1>1 DEF Offsets
    <3> QED BY <2>1, <3>1 DEF Edge
  <2>3. Stands(h[0], e, sp) BY <1>11
  <2> QED BY <2>2, <2>3
<1>13. ASSUME NEW c \in S PROVE c + 1 \in S
  <2>1. SUFFICES ASSUME c + 1 <= t PROVE Good(c + 1) OBVIOUS
  <2>2. c \in Nat /\ c <= t /\ c + 1 \in 1 .. t /\ (c + 1) - 1 = c /\ c + 1 \in Nat BY <1>1, <2>1
  <2>3. PICK k : Stands(h[c], k, sp) /\ \A x \in cuts : x <= c => Edge(k, x) BY <2>2
  <2>4. h[c + 1] = CutAt(h[c], c + 1, cuts) BY <1>11, <2>2
  <2>5. PICK l : /\ Stands(CutAt(h[c], c + 1, cuts), l, sp)
                 /\ c + 1 \in cuts => Edge(l, c + 1)
                 /\ Finer(k, l)
    <3>1. Stands(h[c], k, sp) /\ c + 1 \in Nat BY <2>2, <2>3
    <3> HIDE DEF h, S, Good
    <3> QED BY <1>0, <3>1
  <2>6. ASSUME NEW x \in cuts, x <= c + 1 PROVE Edge(l, x)
    <3>1. x \in Nat BY <1>1 DEF Offsets
    <3>2. x <= c \/ x = c + 1 BY <2>2, <2>6, <3>1
    <3> QED BY <2>3, <2>5, <3>2 DEF Finer
  <2>7. \A x \in cuts : x <= c + 1 => Edge(l, x) BY <2>6
  <2> QED BY <2>4, <2>5, <2>7
<1>14. S = Nat
  <2>1. S \subseteq Nat OBVIOUS
  <2> HIDE DEF S
  <2> QED BY <1>12, <1>13, <2>1, Induction
<1>15. Good(t)
  <2>1. t \in S /\ t <= t BY <1>1, <1>14
  <2> HIDE DEF Good
  <2> QED BY <2>1
<1>16. PICK k : Stands(h[t], k, sp) /\ \A x \in cuts : x <= t => Edge(k, x) BY <1>15
<1>17. \A x \in cuts : x <= t BY <1>1 DEF Offsets
<1> QED BY <1>10, <1>16, <1>17

(* wrapText, tintAtomic: the page stands, with the new note over its span. *)
LEMMA WrapTypes ==
    ASSUME NEW doc \in Seq(PLeaf), NEW item, item.note \in Marked, NEW fresh \in Nat
    PROVE  /\ Wrap(doc, item, fresh) \in Seq(PLeaf) /\ Len(Wrap(doc, item, fresh)) = Len(doc)
           /\ \A i \in 1 .. Len(doc) :
                 Wrap(doc, item, fresh)[i] =
                    IF Inside(doc, i, item.span) /\ Paintable(doc, i)
                    THEN [doc[i] EXCEPT !.marks = doc[i].marks \cup
                              {[note |-> item.note, element |-> fresh + i]}]
                    ELSE doc[i]
<1> DEFINE n == Len(doc)
           w == Wrap(doc, item, fresh)
           mark(i) == [note |-> item.note, element |-> fresh + i]
<1>1. n \in Nat /\ DOMAIN doc = 1 .. n /\ \A i \in 1 .. n : doc[i] \in PLeaf OBVIOUS
<1>2. DOMAIN w = 1 .. n /\ \A i \in 1 .. n :
          w[i] = IF Inside(doc, i, item.span) /\ Paintable(doc, i)
                 THEN [doc[i] EXCEPT !.marks = doc[i].marks \cup {mark(i)}] ELSE doc[i]
  BY <1>1 DEF Wrap
<1>3. ASSUME NEW i \in 1 .. n PROVE w[i] \in PLeaf
  <2>1. mark(i) \in [note : Marked, element : Nat] BY <1>1
  <2> HIDE DEF mark
  <2>2. doc[i].marks \cup {mark(i)} \in SUBSET [note : Marked, element : Nat]
    BY <1>1, <2>1, LeafTypes
  <2>3. [doc[i] EXCEPT !.marks = doc[i].marks \cup {mark(i)}] \in PLeaf
    BY <1>1, <2>2, LeafMarks
  <2> HIDE DEF w
  <2> QED BY <1>1, <1>2, <2>3
<1>4. w \in Seq(PLeaf) /\ Len(w) = n
  <2>1. w = [i \in 1 .. n |-> w[i]] BY <1>1 DEF Wrap
  <2> HIDE DEF w, n
  <2>2. w \in [1 .. n -> PLeaf] BY <1>3, <2>1
  <2> QED BY <1>1, <2>2
<1> QED BY <1>2, <1>4

LEMMA WrapStands ==
    ASSUME NEW doc, NEW e, NEW sp, Spanned(sp), Stands(doc, e, sp),
           NEW item, item.note \in Marked, NEW fresh \in Nat, sp[item.note] = Nowhere,
           Edge(e, item.span[1]), Edge(e, item.span[2]),
           NEW now, now[item.note] = item.span,
           \A n \in Marked : n # item.note => now[n] = sp[n]
    PROVE  Stands(Wrap(doc, item, fresh), e, now)
<1> DEFINE n == Len(doc)
           w == Wrap(doc, item, fresh)
           new == item.note
           s == item.span
           mark(i) == [note |-> new, element |-> fresh + i]
           here(i) == Inside(doc, i, s) /\ Paintable(doc, i)
<1>1. /\ doc \in Seq(PLeaf) /\ n \in Nat /\ Laid(doc, e) /\ Ends(doc) = e
      /\ e \in [0 .. n -> Nat] /\ e[0] = 0 /\ e[n] = Len(TheText)
      /\ \A i \in 1 .. n :
            /\ doc[i] \in PLeaf /\ LeafStands(doc[i], e[i - 1], e[i], sp)
            /\ e[i - 1] \in Nat /\ e[i] \in Nat /\ e[i] = e[i - 1] + WidthOf(doc[i])
  BY PageHasLeaves
<1>2. /\ w \in Seq(PLeaf) /\ Len(w) = n
      /\ \A i \in 1 .. n : w[i] = IF here(i)
                                  THEN [doc[i] EXCEPT !.marks = doc[i].marks \cup {mark(i)}]
                                  ELSE doc[i]
  <2>1. doc \in Seq(PLeaf) BY <1>1
  <2> HIDE DEF n
  <2>2. /\ Wrap(doc, item, fresh) \in Seq(PLeaf) /\ Len(Wrap(doc, item, fresh)) = Len(doc)
        /\ \A i \in 1 .. Len(doc) :
              Wrap(doc, item, fresh)[i] =
                 IF Inside(doc, i, item.span) /\ Paintable(doc, i)
                 THEN [doc[i] EXCEPT !.marks = doc[i].marks \cup
                           {[note |-> item.note, element |-> fresh + i]}]
                 ELSE doc[i]
    BY <2>1, WrapTypes, Zenon
  <2> QED BY <2>2 DEF n
<1> HIDE DEF w
<1>3. ASSUME NEW i \in 1 .. n PROVE LeafStands(w[i], e[i - 1], e[i], now)
  <2> DEFINE leaf == doc[i]
             from == e[i - 1]
             to == e[i]
  <2>1. /\ leaf \in PLeaf /\ LeafStands(leaf, from, to, sp) /\ from \in Nat /\ to \in Nat
        /\ to = from + WidthOf(leaf) /\ WidthOf(leaf) \in Nat
    BY <1>1, LeafTypes
  <2>2. new \notin NotesOn(leaf)
    <3>1. new \in NotesOn(leaf) => from < to /\ to <= sp[new][2] BY <2>1 DEF LeafStands
    <3>2. sp[new][2] = 0 BY DEF Nowhere
    <3> QED BY <2>1, <3>1, <3>2
  <2>3. /\ leaf.kind = "atomic" => WidthOf(leaf) = 1
        /\ \A m \in 1 .. WidthOf(leaf) : CharsOf(leaf)[m] = TheText[from + m]
        /\ \A m \in Marked :
              /\ m \in NotesOn(leaf) => from < to /\ sp[m][1] <= from /\ to <= sp[m][2]
              /\ m \notin NotesOn(leaf) =>
                    \A k \in from + 1 .. to : Covers(sp[m], k) => TheText[k] \in Blanks
    BY <2>1 DEF LeafStands
  <2>4. Inside(doc, i, s) <=> WidthOf(leaf) > 0 /\ from >= s[1] /\ to <= s[2]
    BY <1>1 DEF Inside
  <2>5. /\ w[i] \in PLeaf /\ w[i].kind = leaf.kind /\ CharsOf(w[i]) = CharsOf(leaf)
        /\ WidthOf(w[i]) = WidthOf(leaf)
        /\ here(i) => NotesOn(w[i]) = NotesOn(leaf) \cup {new}
        /\ ~here(i) => NotesOn(w[i]) = NotesOn(leaf)
    <3>1. CASE ~here(i)
      <4>1. w[i] = leaf BY <1>2, <3>1
      <4> QED BY <2>1, <3>1, <4>1
    <3>2. CASE here(i)
      <4> DEFINE marks == leaf.marks \cup {mark(i)}
      <4>1. w[i] = [leaf EXCEPT !.marks = marks] BY <1>2, <3>2
      <4>2. mark(i) \in [note : Marked, element : Nat] /\ mark(i).note = new BY <1>1
      <4> HIDE DEF mark
      <4>3. marks \in SUBSET [note : Marked, element : Nat] BY <2>1, <4>2, LeafTypes
      <4>4. {m.note : m \in marks} = NotesOn(leaf) \cup {new} BY <4>2 DEF NotesOn
      <4> HIDE DEF marks, leaf
      <4>5. /\ w[i] \in PLeaf /\ w[i].kind = leaf.kind /\ CharsOf(w[i]) = CharsOf(leaf)
            /\ WidthOf(w[i]) = WidthOf(leaf) /\ NotesOn(w[i]) = {m.note : m \in marks}
        BY <2>1, <4>1, <4>3, LeafMarks
      <4> QED BY <3>2, <4>4, <4>5
    <3> QED BY <3>1, <3>2
  <2>6. here(i) => from < to /\ s[1] <= from /\ to <= s[2] BY <2>1, <2>4
  <2>7. ~here(i) => \A k \in from + 1 .. to : Covers(s, k) => TheText[k] \in Blanks
    <3> SUFFICES ASSUME ~here(i), NEW k \in from + 1 .. to, Covers(s, k)
                 PROVE  TheText[k] \in Blanks
      OBVIOUS
    <3>1. PICK a \in 0 .. n : e[a] = s[1] BY <1>1 DEF Edge
    <3>2. PICK b \in 0 .. n : e[b] = s[2] BY <1>1 DEF Edge
    <3>3. s[1] \in Nat /\ s[2] \in Nat
      <4> HIDE DEF n, s
      <4>1. e[a] \in Nat /\ e[b] \in Nat BY <1>1
      <4> QED BY <3>1, <3>2, <4>1
    <3>4. s[1] < k /\ k <= s[2] /\ k \in Nat /\ from < k /\ k <= to BY <2>1 DEF Covers
    <3>5. /\ i - 1 \in 0 .. n /\ i \in 0 .. n
          /\ a <= i - 1 \/ i <= a
          /\ b <= i - 1 \/ i <= b
      BY <1>1
    <3>6. \A x, y \in 0 .. n : x <= y => e[x] <= e[y] BY <1>1, EndsRise
    <3>7. s[1] <= from
      <4>1. i <= a => to <= s[1] BY <3>1, <3>5, <3>6
      <4>2. a <= i - 1 => s[1] <= from BY <3>1, <3>5, <3>6
      <4> QED BY <2>1, <3>3, <3>4, <3>5, <4>1, <4>2
    <3>8. to <= s[2]
      <4>1. b <= i - 1 => s[2] <= from BY <3>2, <3>5, <3>6
      <4>2. i <= b => to <= s[2] BY <3>2, <3>5, <3>6
      <4> QED BY <2>1, <3>3, <3>4, <3>5, <4>1, <4>2
    <3>9. Inside(doc, i, s) BY <2>1, <2>4, <3>3, <3>4, <3>7, <3>8
    <3>10. ~Paintable(doc, i) BY <3>9
    <3>11. leaf.kind # "atomic" /\ \A m \in DOMAIN leaf.data : leaf.data[m] \in Blanks
      BY <3>10 DEF Paintable
    <3> DEFINE m == k - from
    <3>12. m \in 1 .. WidthOf(leaf) /\ from + m = k BY <2>1, <3>4
    <3>13. leaf.kind # "excluded"
      <4>1. WidthOf(leaf) # 0 BY <2>1, <3>12
      <4> QED BY <2>1, <4>1, LeafTypes
    <3>14. CharsOf(leaf) = leaf.data /\ DOMAIN leaf.data = 1 .. WidthOf(leaf)
      BY <2>1, <3>13, LeafTypes
    <3> QED BY <2>3, <3>11, <3>12, <3>14
  <2> HIDE DEF leaf, from, to, s, here
  <2>8. ASSUME NEW m \in Marked
        PROVE  /\ m \in NotesOn(w[i]) => from < to /\ now[m][1] <= from /\ to <= now[m][2]
               /\ m \notin NotesOn(w[i]) =>
                     \A k \in from + 1 .. to : Covers(now[m], k) => TheText[k] \in Blanks
    <3>1. CASE m # new
      <4>1. now[m] = sp[m] /\ (m \in NotesOn(w[i]) <=> m \in NotesOn(leaf)) BY <2>5, <3>1
      <4> QED BY <2>3, <4>1
    <3>2. CASE m = new
      <4>1. now[m] = s /\ (m \in NotesOn(w[i]) <=> here(i)) BY <2>2, <2>5, <3>2 DEF s
      <4> QED BY <2>6, <2>7, <4>1
    <3> QED BY <3>1, <3>2
  <2> QED BY <2>1, <2>3, <2>5, <2>8 DEF LeafStands, from, to
<1>4. Stands(w, e, now)
  <2>1. e \in [0 .. Len(w) -> Nat] /\ e[Len(w)] = Len(TheText) /\ e[0] = 0 BY <1>1, <1>2
  <2>2. \A i \in 1 .. Len(w) : LeafStands(w[i], e[i - 1], e[i], now) BY <1>2, <1>3
  <2> QED BY <1>2, <2>1, <2>2, LeavesMakePage
<1> QED BY <1>4 DEF w

(* A page stands for other spans too, if what they add is white space. *)
LEMMA BlanksStand ==
    ASSUME NEW doc, NEW e, NEW sp, Spanned(sp), Stands(doc, e, sp), NEW now,
           \A n \in Marked :
              \/ now[n] = sp[n]
              \/ /\ sp[n] = Nowhere
                 /\ \A k \in 1 .. Len(TheText) : Covers(now[n], k) => TheText[k] \in Blanks
    PROVE  Stands(doc, e, now)
<1> DEFINE n == Len(doc)
<1>1. /\ doc \in Seq(PLeaf) /\ n \in Nat /\ Laid(doc, e)
      /\ e \in [0 .. n -> Nat] /\ e[0] = 0 /\ e[n] = Len(TheText) /\ Len(TheText) \in Nat
      /\ \A i \in 1 .. n :
            /\ doc[i] \in PLeaf /\ LeafStands(doc[i], e[i - 1], e[i], sp)
            /\ i - 1 \in 0 .. n /\ e[i - 1] \in Nat /\ e[i] \in Nat
            /\ e[i] = e[i - 1] + WidthOf(doc[i])
  BY PageHasLeaves
<1>2. ASSUME NEW i \in 1 .. n PROVE LeafStands(doc[i], e[i - 1], e[i], now)
  <2> DEFINE leaf == doc[i]
             from == e[i - 1]
             to == e[i]
  <2>1. /\ leaf \in PLeaf /\ to = from + WidthOf(leaf) /\ from \in Nat /\ to \in Nat
        /\ leaf.kind = "atomic" => WidthOf(leaf) = 1
        /\ \A m \in 1 .. WidthOf(leaf) : CharsOf(leaf)[m] = TheText[from + m]
        /\ \A m \in Marked :
              /\ m \in NotesOn(leaf) => from < to /\ sp[m][1] <= from /\ to <= sp[m][2]
              /\ m \notin NotesOn(leaf) =>
                    \A k \in from + 1 .. to : Covers(sp[m], k) => TheText[k] \in Blanks
    BY <1>1 DEF LeafStands
  <2>2. to <= Len(TheText)
    <3>1. i \in 0 .. n /\ n \in 0 .. n /\ i <= n BY <1>1
    <3> QED BY <1>1, <3>1, EndsRise
  <2> HIDE DEF leaf, from, to
  <2>3. \A k \in from + 1 .. to : k \in 1 .. Len(TheText) BY <1>1, <2>1, <2>2
  <2>4. ASSUME NEW m \in Marked
        PROVE  /\ m \in NotesOn(leaf) => from < to /\ now[m][1] <= from /\ to <= now[m][2]
               /\ m \notin NotesOn(leaf) =>
                     \A k \in from + 1 .. to : Covers(now[m], k) => TheText[k] \in Blanks
    <3>1. CASE now[m] = sp[m] BY <2>1, <3>1
    <3>2. CASE now[m] # sp[m]
      <4>1. sp[m][2] = 0 BY <3>2 DEF Nowhere
      <4>2. m \notin NotesOn(leaf) BY <2>1, <4>1
      <4> QED BY <2>3, <3>2, <4>2
    <3> QED BY <3>1, <3>2
  <2> QED BY <2>1, <2>4 DEF LeafStands, leaf, from, to
<1>3. \A i \in 1 .. n : LeafStands(doc[i], e[i - 1], e[i], now) BY <1>2
<1> QED BY <1>1, <1>3, LeavesMakePage

(* What a batch of items makes of the spans. *)
Painted(items, sp, k, now) ==
    \A n \in Marked :
        \/ \E j \in 1 .. k : items[j].note = n /\ now[n] = items[j].span
        \/ (\A j \in 1 .. k : items[j].note # n) /\ now[n] = sp[n]

Fit(items, sp) ==
    /\ Len(items) \in Nat
    /\ \A k \in 1 .. Len(items) :
          /\ items[k].note \in Marked /\ sp[items[k].note] = Nowhere
          /\ items[k].span \in (0 .. Len(TheText)) \X (0 .. Len(TheText))
    /\ \A j, k \in 1 .. Len(items) : items[j].note = items[k].note => j = k

(* paintAll, once the text is cut: each item is wrapped. *)
LEMMA WrappedStands ==
    ASSUME made \in Nat, NEW doc, NEW e, NEW sp, Spanned(sp), Stands(doc, e, sp),
           NEW items, Fit(items, sp),
           \A k \in 1 .. Len(items) : Edge(e, items[k].span[1]) /\ Edge(e, items[k].span[2]),
           NEW now, Painted(items, sp, Len(items), now)
    PROVE  Stands(Wrapped(doc, items), e, now)
<1> DEFINE n == Len(items)
           d == Len(doc)
           g == [k \in Nat |-> [x \in Seq(PLeaf) |->
                    IF k \in 1 .. n THEN Wrap(x, items[k], made + (k - 1) * d) ELSE x]]
           h == CHOOSE h : h = [k \in 0 .. n |->
                    IF k = 0 THEN doc ELSE Wrap(h[k - 1], items[k], made + (k - 1) * d)]
<1>1. doc \in Seq(PLeaf) /\ d \in Nat /\ e \in [0 .. d -> Nat] BY PageHasLeaves
<1>2. /\ n \in Nat
      /\ \A k \in 1 .. n :
            /\ items[k].note \in Marked /\ sp[items[k].note] = Nowhere
            /\ items[k].span[1] \in 0 .. Len(TheText) /\ items[k].span[2] \in 0 .. Len(TheText)
            /\ Edge(e, items[k].span[1]) /\ Edge(e, items[k].span[2])
      /\ \A j, k \in 1 .. n : items[j].note = items[k].note => j = k
  BY DEF Fit
<1> HIDE DEF n, d
<1>3. \A k \in 1 .. n : made + (k - 1) * d \in Nat
  <2> SUFFICES ASSUME NEW k \in 1 .. n PROVE made + (k - 1) * d \in Nat OBVIOUS
  <2>1. k - 1 \in Nat BY <1>2
  <2>2. (k - 1) * d \in Nat BY <1>1, <2>1
  <2> QED BY <2>2
<1>4. ASSUME NEW k \in Nat, NEW x \in Seq(PLeaf), k \in 1 .. n
      PROVE  Wrap(x, items[k], made + (k - 1) * d) \in Seq(PLeaf)
  <2>1. items[k].note \in Marked /\ made + (k - 1) * d \in Nat BY <1>2, <1>3, <1>4
  <2> QED BY <2>1, WrapTypes
<1>5. StepsIn(g, Seq(PLeaf)) BY <1>4 DEF StepsIn
<1>6. \A k \in 1 .. n : \A x \in Seq(PLeaf) : g[k][x] = Wrap(x, items[k], made + (k - 1) * d)
  <2>1. \A k \in 1 .. n : k \in Nat BY <1>2
  <2> QED BY <2>1
<1> HIDE DEF g
<1>7. PICK f : RunOf(f, Seq(PLeaf), doc, g, n) BY <1>1, <1>2, <1>5, RunExists
<1>8. f \in [0 .. n -> Seq(PLeaf)] /\ f[0] = doc /\ \A k \in 1 .. n : f[k] = g[k][f[k - 1]]
  BY <1>7 DEF RunOf
<1>9. f = [k \in 0 .. n |->
             IF k = 0 THEN doc ELSE Wrap(f[k - 1], items[k], made + (k - 1) * d)]
  <2>1. ASSUME NEW k \in 0 .. n
        PROVE  f[k] = IF k = 0 THEN doc ELSE Wrap(f[k - 1], items[k], made + (k - 1) * d)
    <3>1. CASE k = 0 BY <1>8, <3>1
    <3>2. CASE k # 0
      <4>1. k \in 1 .. n /\ k - 1 \in 0 .. n BY <1>2, <3>2
      <4>2. f[k - 1] \in Seq(PLeaf) /\ f[k] = g[k][f[k - 1]] BY <1>8, <4>1
      <4>3. f[k] = Wrap(f[k - 1], items[k], made + (k - 1) * d) BY <1>6, <4>1, <4>2
      <4> QED BY <3>2, <4>3, Zenon
    <3> QED BY <3>1, <3>2
  <2> QED BY <1>8, <2>1
<1>10. h = [k \in 0 .. n |->
              IF k = 0 THEN doc ELSE Wrap(h[k - 1], items[k], made + (k - 1) * d)]
  BY <1>9
<1>11. Wrapped(doc, items) = h[n] BY DEF Wrapped, n, d
<1> HIDE DEF h
<1>12. h[0] = doc /\ \A k \in 1 .. n : h[k] = Wrap(h[k - 1], items[k], made + (k - 1) * d)
  <2>1. 0 \in 0 .. n /\ \A k \in 1 .. n : k \in 0 .. n /\ k # 0 BY <1>2
  <2> QED BY <1>10, <2>1
<1> DEFINE Good(k) == \A then : Painted(items, sp, k, then) => Stands(h[k], e, then)
           S == {k \in Nat : k <= n => Good(k)}
<1>13. 0 \in S
  <2>1. ASSUME NEW then, Painted(items, sp, 0, then) PROVE Stands(h[0], e, then)
    <3>1. \A m \in Marked : then[m] = sp[m] BY <2>1 DEF Painted
    <3>2. Stands(doc, e, then) BY <3>1, BlanksStand
    <3> QED BY <1>12, <3>2
  <2> QED BY <2>1
<1>14. ASSUME NEW k \in S PROVE k + 1 \in S
  <2>1. SUFFICES ASSUME k + 1 <= n PROVE Good(k + 1) OBVIOUS
  <2>2. k \in Nat /\ Good(k) /\ k + 1 \in 1 .. n /\ (k + 1) - 1 = k /\ k <= n BY <1>2, <2>1
  <2>3. SUFFICES ASSUME NEW then, Painted(items, sp, k + 1, then)
                 PROVE  Stands(h[k + 1], e, then)
    OBVIOUS
  <2> DEFINE it == items[k + 1]
             new == it.note
             was == [m \in Marked |-> IF m = new THEN Nowhere ELSE then[m]]
             from == made + k * d
  <2>4. /\ new \in Marked /\ sp[new] = Nowhere /\ Edge(e, it.span[1]) /\ Edge(e, it.span[2])
        /\ it.span[1] \in Nat /\ it.span[2] \in Nat
    BY <1>2, <2>2
  <2>5. h[k + 1] = Wrap(h[k], it, from) /\ from \in Nat BY <1>3, <1>12, <2>2
  <2>6. /\ \A j \in 1 .. k : j \in 1 .. k + 1 /\ j \in 1 .. n /\ j # k + 1 /\ items[j].note # new
        /\ \A j \in 1 .. k + 1 : j \in 1 .. k \/ j = k + 1
    BY <1>2, <2>2
  <2> HIDE DEF it, from
  <2>7. then[new] = it.span
    <3>1. k + 1 \in 1 .. k + 1 BY <2>2
    <3> QED BY <2>3, <2>4, <2>6, <3>1 DEF Painted, it
  <2>8. Painted(items, sp, k, was)
    <3> SUFFICES ASSUME NEW m \in Marked
                 PROVE  \/ \E j \in 1 .. k : items[j].note = m /\ was[m] = items[j].span
                        \/ (\A j \in 1 .. k : items[j].note # m) /\ was[m] = sp[m]
      BY DEF Painted
    <3>1. CASE m = new
      <4>1. was[m] = sp[m] BY <2>4, <3>1
      <4> QED BY <2>6, <3>1, <4>1
    <3>2. CASE m # new
      <4>1. was[m] = then[m] BY <3>2
      <4>2. \/ \E j \in 1 .. k + 1 : items[j].note = m /\ then[m] = items[j].span
            \/ (\A j \in 1 .. k + 1 : items[j].note # m) /\ then[m] = sp[m]
        BY <2>3 DEF Painted
      <4>3. items[k + 1].note # m BY <3>2 DEF it
      <4> HIDE DEF new, was
      <4> QED BY <2>6, <4>1, <4>2, <4>3
    <3> QED BY <3>1, <3>2
  <2>9. Spanned(was)
    <3> SUFFICES ASSUME NEW m \in Marked PROVE was[m][1] \in Nat /\ was[m][2] \in Nat
      BY DEF Spanned
    <3>1. CASE m = new
      <4>1. was[m] = <<0, 0>> BY <3>1 DEF Nowhere
      <4> QED BY <4>1
    <3>2. CASE m # new
      <4>1. was[m] = then[m] BY <3>2
      <4>2. \/ \E j \in 1 .. k + 1 : then[m] = items[j].span
            \/ then[m] = sp[m]
        BY <2>3 DEF Painted
      <4>3. \A j \in 1 .. k + 1 : items[j].span[1] \in Nat /\ items[j].span[2] \in Nat
        <5>1. \A j \in 1 .. k + 1 : j \in 1 .. n BY <2>2, <2>6
        <5> QED BY <1>2, <5>1
      <4>4. sp[m][1] \in Nat /\ sp[m][2] \in Nat BY DEF Spanned
      <4> HIDE DEF new, was
      <4> QED BY <4>1, <4>2, <4>3, <4>4
    <3> QED BY <3>1, <3>2
  <2>10. Stands(h[k], e, was) BY <2>2, <2>8
  <2>11. was[new] = Nowhere /\ \A m \in Marked : m # new => then[m] = was[m] BY <2>4
  <2> HIDE DEF was, S
  <2>12. Stands(Wrap(h[k], it, from), e, then)
    <3> DEFINE doc2 == h[k]
    <3>1. Stands(doc2, e, was) BY <2>10
    <3> HIDE DEF doc2
    <3>2. Stands(Wrap(doc2, it, from), e, then)
      BY <2>4, <2>5, <2>7, <2>9, <2>11, <3>1, WrapStands
    <3> QED BY <3>2 DEF doc2
  <2> QED BY <2>5, <2>12
<1>15. S = Nat
  <2>1. S \subseteq Nat OBVIOUS
  <2> HIDE DEF S
  <2> QED BY <1>13, <1>14, <2>1, Induction
<1>16. Good(n)
  <2>1. n \in S /\ n <= n BY <1>2, <1>15
  <2> HIDE DEF Good
  <2> QED BY <2>1
<1>17. Painted(items, sp, n, now) BY DEF n
<1> QED BY <1>11, <1>16, <1>17

(* unpaint: the page stands without the note, *)
LEMMA UnwrapStands ==
    ASSUME NEW doc, NEW e, NEW sp, Stands(doc, e, sp), NEW note,
           NEW now, now[note] = Nowhere, \A n \in Marked : n # note => now[n] = sp[n]
    PROVE  Stands([i \in DOMAIN doc |-> Unwrapped(doc[i], note)], e, now)
<1> DEFINE n == Len(doc)
           w == [i \in DOMAIN doc |-> Unwrapped(doc[i], note)]
<1>1. /\ doc \in Seq(PLeaf) /\ n \in Nat /\ DOMAIN doc = 1 .. n
      /\ e \in [0 .. n -> Nat] /\ e[0] = 0 /\ e[n] = Len(TheText)
      /\ \A i \in 1 .. n :
            /\ doc[i] \in PLeaf /\ LeafStands(doc[i], e[i - 1], e[i], sp)
            /\ e[i - 1] \in Nat /\ e[i] \in Nat
  BY PageHasLeaves
<1>2. w = [i \in 1 .. n |-> Unwrapped(doc[i], note)] BY <1>1
<1>3. ASSUME NEW i \in 1 .. n
      PROVE  w[i] \in PLeaf /\ LeafStands(w[i], e[i - 1], e[i], now)
  <2> DEFINE leaf == doc[i]
             from == e[i - 1]
             to == e[i]
             marks == {m \in leaf.marks : m.note # note}
             new == [leaf EXCEPT !.marks = marks]
  <2>1. w[i] = new BY <1>2 DEF Unwrapped
  <2>2. leaf \in PLeaf BY <1>1
  <2>3. marks \in SUBSET [note : Marked, element : Nat] BY <2>2, LeafTypes
  <2>4. {m.note : m \in marks} = NotesOn(leaf) \ {note} BY DEF NotesOn
  <2> HIDE DEF marks, leaf
  <2>5. /\ new \in PLeaf /\ new.kind = leaf.kind /\ CharsOf(new) = CharsOf(leaf)
        /\ WidthOf(new) = WidthOf(leaf) /\ NotesOn(new) = NotesOn(leaf) \ {note}
    BY <2>2, <2>3, <2>4, LeafMarks
  <2> HIDE DEF new
  <2>6. LeafStands(leaf, from, to, sp) /\ from \in Nat /\ to \in Nat BY <1>1 DEF leaf
  <2> HIDE DEF from, to
  <2>7. /\ to = from + WidthOf(leaf)
        /\ leaf.kind = "atomic" => WidthOf(leaf) = 1
        /\ \A m \in 1 .. WidthOf(leaf) : CharsOf(leaf)[m] = TheText[from + m]
        /\ \A m \in Marked :
              /\ m \in NotesOn(leaf) => from < to /\ sp[m][1] <= from /\ to <= sp[m][2]
              /\ m \notin NotesOn(leaf) =>
                    \A k \in from + 1 .. to : Covers(sp[m], k) => TheText[k] \in Blanks
    BY <2>6 DEF LeafStands
  <2>8. ASSUME NEW m \in Marked
        PROVE  /\ m \in NotesOn(new) => from < to /\ now[m][1] <= from /\ to <= now[m][2]
               /\ m \notin NotesOn(new) =>
                     \A k \in from + 1 .. to : Covers(now[m], k) => TheText[k] \in Blanks
    <3>1. CASE m # note
      <4>1. now[m] = sp[m] /\ (m \in NotesOn(new) <=> m \in NotesOn(leaf)) BY <2>5, <3>1
      <4> QED BY <2>7, <4>1
    <3>2. CASE m = note
      <4>1. m \notin NotesOn(new) /\ now[m][1] = 0 /\ now[m][2] = 0
        BY <2>5, <3>2 DEF Nowhere
      <4>2. \A k \in from + 1 .. to : ~Covers(now[m], k) BY <2>6, <4>1 DEF Covers
      <4> QED BY <4>1, <4>2
    <3> QED BY <3>1, <3>2
  <2>9. LeafStands(new, from, to, now) BY <2>5, <2>7, <2>8 DEF LeafStands
  <2> QED BY <2>1, <2>5, <2>9 DEF from, to
<1>4. w \in Seq(PLeaf) /\ Len(w) = n
  <2> HIDE DEF w, n
  <2>1. w = [i \in 1 .. n |-> w[i]] BY <1>2 DEF w
  <2>2. w \in [1 .. n -> PLeaf] BY <1>3, <2>1
  <2>3. n \in Nat BY <1>1
  <2> QED BY <2>2, <2>3
<1> HIDE DEF w
<1>5. \A i \in 1 .. Len(w) : LeafStands(w[i], e[i - 1], e[i], now) BY <1>3, <1>4
<1>6. Stands(w, e, now) BY <1>1, <1>4, <1>5, LeavesMakePage
<1> QED BY <1>6 DEF w

(* and so it does when what was cut is joined. *)
LEMMA NormalizedStands ==
    ASSUME NEW doc, NEW e, NEW sp, Spanned(sp), Stands(doc, e, sp), NEW parents
    PROVE  \E f : Stands(Normalized(doc, parents), f, sp)
<1> DEFINE n == Len(doc)
           A == {x \in Seq(PLeaf) : \E f : Stands(x, f, sp)}
           g == [j \in Nat |-> [x \in A |->
                    IF j \in 1 .. n THEN JoinAt(x, n + 1 - j, parents) ELSE x]]
           h == CHOOSE h : h = [j \in 0 .. n |->
                    IF j = 0 THEN doc ELSE JoinAt(h[j - 1], n + 1 - j, parents)]
<1>1. doc \in Seq(PLeaf) /\ n \in Nat BY PageHasLeaves
<1>2. doc \in A BY <1>1
<1>3. ASSUME NEW x \in A, NEW i \in Nat, i >= 1 PROVE JoinAt(x, i, parents) \in A
  <2>1. x \in Seq(PLeaf) /\ Len(x) \in Nat OBVIOUS
  <2>2. PICK k : Stands(x, k, sp) OBVIOUS
  <2>3. CASE i < Len(x) /\ Joins(x[i], x[i + 1], parents)
    <3>1. i \in 1 .. Len(x) - 1 BY <1>3, <2>1, <2>3
    <3>2. x[i].kind = "text" /\ x[i + 1].kind = "text" /\ x[i].marks = x[i + 1].marks
      BY <2>3 DEF Joins
    <3> HIDE DEF A
    <3>3. PICK l : Stands(JoinedAt(x, i), l, sp) BY <2>2, <3>1, <3>2, JoinStands
    <3>4. JoinedAt(x, i) \in Seq(PLeaf) BY <3>3, PageHasLeaves
    <3>5. JoinAt(x, i, parents) = JoinedAt(x, i) BY <2>3 DEF JoinAt
    <3> QED BY <3>3, <3>4, <3>5 DEF A
  <2>4. CASE ~(i < Len(x) /\ Joins(x[i], x[i + 1], parents)) BY <2>4 DEF JoinAt
  <2> QED BY <2>3, <2>4
<1> HIDE DEF A
<1>4. ASSUME NEW j \in Nat, NEW x \in A, j \in 1 .. n PROVE JoinAt(x, n + 1 - j, parents) \in A
  <2>1. n + 1 - j \in Nat /\ n + 1 - j >= 1 BY <1>1, <1>4
  <2> QED BY <1>3, <2>1
<1>5. StepsIn(g, A) BY <1>4 DEF StepsIn
<1>6. \A j \in 1 .. n : \A x \in A : g[j][x] = JoinAt(x, n + 1 - j, parents)
  <2>1. \A j \in 1 .. n : j \in Nat BY <1>1
  <2> QED BY <2>1
<1> HIDE DEF g, n
<1>7. PICK f : RunOf(f, A, doc, g, n) BY <1>1, <1>2, <1>5, RunExists
<1>8. f \in [0 .. n -> A] /\ f[0] = doc /\ \A j \in 1 .. n : f[j] = g[j][f[j - 1]]
  BY <1>7 DEF RunOf
<1>9. f = [j \in 0 .. n |-> IF j = 0 THEN doc ELSE JoinAt(f[j - 1], n + 1 - j, parents)]
  <2>1. ASSUME NEW j \in 0 .. n
        PROVE  f[j] = IF j = 0 THEN doc ELSE JoinAt(f[j - 1], n + 1 - j, parents)
    <3>1. CASE j = 0 BY <1>8, <3>1
    <3>2. CASE j # 0
      <4>1. j \in 1 .. n /\ j - 1 \in 0 .. n BY <1>1, <3>2
      <4>2. f[j - 1] \in A /\ f[j] = g[j][f[j - 1]] BY <1>8, <4>1
      <4>3. f[j] = JoinAt(f[j - 1], n + 1 - j, parents) BY <1>6, <4>1, <4>2
      <4> QED BY <3>2, <4>3, Zenon
    <3> QED BY <3>1, <3>2
  <2> QED BY <1>8, <2>1
<1>10. h = [j \in 0 .. n |-> IF j = 0 THEN doc ELSE JoinAt(h[j - 1], n + 1 - j, parents)]
  BY <1>9
<1>11. Normalized(doc, parents) = h[n] BY DEF Normalized, n
<1> HIDE DEF h
<1>12. h[0] = doc /\ \A j \in 1 .. n : h[j] = JoinAt(h[j - 1], n + 1 - j, parents)
  <2>1. 0 \in 0 .. n /\ \A j \in 1 .. n : j \in 0 .. n /\ j # 0 BY <1>1
  <2> QED BY <1>10, <2>1
<1> DEFINE S == {j \in Nat : j <= n => h[j] \in A}
<1>13. 0 \in S BY <1>2, <1>12
<1>14. ASSUME NEW j \in S PROVE j + 1 \in S
  <2>1. SUFFICES ASSUME j + 1 <= n PROVE h[j + 1] \in A OBVIOUS
  <2>2. j \in Nat /\ h[j] \in A /\ j + 1 \in 1 .. n /\ j + 1 \in Nat /\ (j + 1) - 1 = j
    BY <1>1, <2>1
  <2>3. h[j + 1] = JoinAt(h[j], n + 1 - (j + 1), parents) BY <1>12, <2>2
  <2> QED BY <1>4, <2>2, <2>3
<1>15. S = Nat
  <2>1. S \subseteq Nat OBVIOUS
  <2> HIDE DEF S
  <2> QED BY <1>13, <1>14, <2>1, Induction
<1>16. h[n] \in A
  <2>1. n \in S /\ n <= n BY <1>1, <1>15
  <2> QED BY <2>1
<1> QED BY <1>11, <1>16 DEF A

(* The page stands, whatever is painted on it. *)
PageInv ==
    /\ made \in Nat
    /\ spans \in [Marked -> (0 .. Len(TheText)) \X (0 .. Len(TheText))]
    /\ \E e : Stands(leaves, e, spans)

(* TheText is the text of the page at first. *)
LEMMA PageTypes ==
    /\ Len(Page) \in Nat /\ DOMAIN Page = 1 .. Len(Page)
    /\ \A i \in 1 .. Len(Page) : Page[i] \in [kind : LeafKinds, box : Nat, data : Seq(Nat)]
<1> DEFINE R == [kind : LeafKinds, box : Nat, data : Seq(Nat)]
<1>1. Page \in Seq(R) BY PageAssumption
<1> HIDE DEF R
<1>2. /\ Len(Page) \in Nat /\ DOMAIN Page = 1 .. Len(Page)
      /\ \A i \in 1 .. Len(Page) : Page[i] \in R
  BY <1>1
<1> QED BY <1>2 DEF R

LEMMA TextTypes ==
    /\ Len(Page) \in Nat /\ TheText \in Seq(Nat)
    /\ Laid(Page, Ends(Page)) /\ Len(TheText) = Ends(Page)[Len(Page)]
    /\ \A i \in 1 .. Len(Page) : \A m \in 1 .. WidthOf(Page[i]) :
          TheText[Ends(Page)[i - 1] + m] = CharsOf(Page[i])[m]
<1>1. Len(Page) \in Nat /\ DOMAIN Page = 1 .. Len(Page) BY PageTypes
<1>2. \A i \in 1 .. Len(Page) : CharsOf(Page[i]) \in Seq(Nat) /\ WidthOf(Page[i]) \in Nat
  <2> SUFFICES ASSUME NEW i \in 1 .. Len(Page)
               PROVE  CharsOf(Page[i]) \in Seq(Nat) /\ WidthOf(Page[i]) \in Nat
    OBVIOUS
  <2>1. Page[i] \in [kind : LeafKinds, box : Nat, data : Seq(Nat)] BY PageTypes
  <2>2. Page[i].data \in Seq(Nat) BY <2>1
  <2>3. <<>> \in Seq(Nat) OBVIOUS
  <2>4. CharsOf(Page[i]) \in Seq(Nat) BY <2>2, <2>3 DEF CharsOf
  <2> QED BY <2>4 DEF WidthOf
<1>3. Laid(Page, Ends(Page)) BY <1>1, <1>2, EndsLaid
<1> QED BY <1>1, <1>2, <1>3, FlatReads DEF TheText

LEMMA InitPageStands == InitPage(Page) => PageInv
<1> SUFFICES ASSUME InitPage(Page) PROVE PageInv OBVIOUS
<1> DEFINE n == Len(Page)
           e == Ends(Page)
<1>1. n \in Nat /\ DOMAIN Page = 1 .. n BY PageTypes
<1>2. leaves = [i \in 1 .. n |-> [kind |-> Page[i].kind, box |-> Page[i].box,
                                  data |-> Page[i].data, marks |-> {}]]
  BY <1>1 DEF InitPage
<1>3. /\ made = 0 /\ spans = [m \in Marked |-> Nowhere] BY DEF InitPage
<1>4. /\ TheText \in Seq(Nat) /\ e \in [0 .. n -> Nat] /\ e[0] = 0 /\ Len(TheText) = e[n]
      /\ \A i \in 1 .. n : e[i] = e[i - 1] + WidthOf(Page[i])
      /\ \A i \in 1 .. n : \A m \in 1 .. WidthOf(Page[i]) :
            TheText[e[i - 1] + m] = CharsOf(Page[i])[m]
  BY TextTypes DEF Laid
<1>5. Len(TheText) \in Nat BY <1>4
<1>6. spans \in [Marked -> (0 .. Len(TheText)) \X (0 .. Len(TheText))]
  <2>1. 0 \in 0 .. Len(TheText) BY <1>5
  <2>2. Nowhere \in (0 .. Len(TheText)) \X (0 .. Len(TheText)) BY <2>1 DEF Nowhere
  <2> QED BY <1>3, <2>2
<1> HIDE DEF e
<1>7. ASSUME NEW i \in 1 .. n
      PROVE  leaves[i] \in PLeaf /\ LeafStands(leaves[i], e[i - 1], e[i], spans)
  <2> DEFINE leaf == leaves[i]
  <2>1. /\ leaf.kind = Page[i].kind /\ leaf.data = Page[i].data /\ leaf.marks = {}
        /\ leaf = [kind |-> Page[i].kind, box |-> Page[i].box,
                   data |-> Page[i].data, marks |-> {}]
    BY <1>2
  <2>2. Page[i] \in [kind : LeafKinds, box : Nat, data : Seq(Nat)] BY PageTypes
  <2>3. leaf \in PLeaf BY <2>1, <2>2 DEF PLeaf
  <2> HIDE DEF leaf
  <2>4. CharsOf(leaf) = CharsOf(Page[i]) BY <2>1 DEF CharsOf
  <2>5. WidthOf(leaf) = WidthOf(Page[i]) BY <2>4 DEF WidthOf
  <2>6. leaf.kind = "atomic" => WidthOf(leaf) = 1
    BY <1>1, <2>1, <2>5, PageAssumption DEF WidthOf, CharsOf
  <2>7. NotesOn(leaf) = {} BY <2>1 DEF NotesOn
  <2>8. \A m \in Marked : \A k \in e[i - 1] + 1 .. e[i] : ~Covers(spans[m], k)
    <3> SUFFICES ASSUME NEW m \in Marked, NEW k \in e[i - 1] + 1 .. e[i]
                 PROVE  ~Covers(spans[m], k)
      OBVIOUS
    <3>1. spans[m][2] = 0 BY <1>3 DEF Nowhere
    <3>2. e[i - 1] \in Nat /\ e[i] \in Nat BY <1>1, <1>4
    <3> QED BY <3>1, <3>2 DEF Covers
  <2>9. LeafStands(leaf, e[i - 1], e[i], spans)
    BY <1>4, <2>3, <2>4, <2>5, <2>6, <2>7, <2>8 DEF LeafStands
  <2> QED BY <2>3, <2>9 DEF leaf
<1>8. leaves \in Seq(PLeaf) /\ Len(leaves) = n
  <2> HIDE DEF n
  <2>1. leaves \in [1 .. n -> PLeaf] BY <1>2, <1>7
  <2> QED BY <1>1, <2>1
<1>9. Stands(leaves, e, spans)
  <2> HIDE DEF n
  <2>1. e \in [0 .. Len(leaves) -> Nat] /\ e[0] = 0 /\ e[Len(leaves)] = Len(TheText)
    BY <1>4, <1>8
  <2>2. \A i \in 1 .. Len(leaves) : LeafStands(leaves[i], e[i - 1], e[i], spans) BY <1>7, <1>8
  <2> QED BY <1>8, <2>1, <2>2, LeavesMakePage
<1> QED BY <1>3, <1>6, <1>9 DEF PageInv

(* paintAll *)
LEMMA PaintAllStands ==
    ASSUME PageInv, NEW items, Fit(items, spans), PaintAll(items)
    PROVE  PageInv'
<1> DEFINE n == Len(items)
           cuts == CutsOf(items)
           cut == ApplyCuts(leaves, cuts)
           painted == Wrapped(cut, items)
           now == [m \in Marked |->
                      IF \E k \in DOMAIN items : items[k].note = m
                      THEN items[CHOOSE k \in DOMAIN items : items[k].note = m].span
                      ELSE spans[m]]
<1>1. /\ made \in Nat /\ spans \in [Marked -> (0 .. Len(TheText)) \X (0 .. Len(TheText))]
      /\ Len(TheText) \in Nat
  BY TextTypes DEF PageInv
<1>2. PICK e : Stands(leaves, e, spans) BY DEF PageInv
<1>3. Spanned(spans)
  <2> SUFFICES ASSUME NEW m \in Marked PROVE spans[m][1] \in Nat /\ spans[m][2] \in Nat
    BY DEF Spanned
  <2>1. spans[m] \in (0 .. Len(TheText)) \X (0 .. Len(TheText)) BY <1>1
  <2> QED BY <1>1, <2>1
<1>4. /\ spans' = now /\ leaves' = IF painted = cut THEN leaves ELSE painted
      /\ made' = made + n * Len(cut)
  BY DEF PaintAll
<1>5. /\ n \in Nat
      /\ \A k \in 1 .. n :
            /\ items[k].note \in Marked /\ spans[items[k].note] = Nowhere
            /\ items[k].span \in (0 .. Len(TheText)) \X (0 .. Len(TheText))
            /\ items[k].span[1] \in 0 .. Len(TheText) /\ items[k].span[2] \in 0 .. Len(TheText)
      /\ \A j, k \in 1 .. n : items[j].note = items[k].note => j = k
      /\ DOMAIN items = 1 .. n
  BY DEF Fit
<1> HIDE DEF n, cuts, cut, painted, now
<1>6. Offsets(cuts)
  <2>1. \A k \in 1 .. n : {items[k].span[1], items[k].span[2]} \subseteq 0 .. Len(TheText)
    BY <1>5
  <2> QED BY <1>5, <2>1 DEF Offsets, cuts, CutsOf
<1>7. PICK f : Stands(cut, f, spans) /\ \A c \in cuts : Edge(f, c)
  BY <1>2, <1>3, <1>6, CutsStand DEF cut
<1>8. \A k \in 1 .. n : Edge(f, items[k].span[1]) /\ Edge(f, items[k].span[2])
  <2>1. \A k \in 1 .. n : items[k].span[1] \in cuts /\ items[k].span[2] \in cuts
    BY <1>5 DEF cuts, CutsOf
  <2> QED BY <1>7, <2>1
<1>9. Painted(items, spans, n, now)
  <2> SUFFICES ASSUME NEW m \in Marked
               PROVE  \/ \E j \in 1 .. n : items[j].note = m /\ now[m] = items[j].span
                      \/ (\A j \in 1 .. n : items[j].note # m) /\ now[m] = spans[m]
    BY DEF Painted
  <2>1. CASE \E k \in 1 .. n : items[k].note = m
    <3> DEFINE j == CHOOSE k \in 1 .. n : items[k].note = m
    <3>1. j \in 1 .. n /\ items[j].note = m BY <2>1
    <3>2. now[m] = items[j].span BY <1>5, <2>1 DEF now
    <3> QED BY <3>1, <3>2
  <2>2. CASE ~\E k \in 1 .. n : items[k].note = m
    <3>1. now[m] = spans[m] BY <1>5, <2>2 DEF now
    <3> QED BY <2>2, <3>1
  <2> QED BY <2>1, <2>2
<1>10. Stands(painted, f, now)
  <2>1. Painted(items, spans, Len(items), now) BY <1>9 DEF n
  <2>2. \A k \in 1 .. Len(items) : Edge(f, items[k].span[1]) /\ Edge(f, items[k].span[2])
    BY <1>8 DEF n
  <2> QED BY <1>1, <1>3, <1>7, <2>1, <2>2, WrappedStands DEF painted
<1>11. now \in [Marked -> (0 .. Len(TheText)) \X (0 .. Len(TheText))]
  <2>1. \A m \in Marked : now[m] \in (0 .. Len(TheText)) \X (0 .. Len(TheText))
    BY <1>1, <1>5, <1>9 DEF Painted
  <2>2. now = [m \in Marked |-> now[m]] BY DEF now
  <2> QED BY <2>1, <2>2
<1>12. ASSUME painted = cut PROVE Stands(leaves, e, now)
  <2>1. ASSUME NEW m \in Marked
        PROVE  \/ now[m] = spans[m]
               \/ /\ spans[m] = Nowhere
                  /\ \A k \in 1 .. Len(TheText) : Covers(now[m], k) => TheText[k] \in Blanks
    <3>1. SUFFICES ASSUME now[m] # spans[m], NEW k \in 1 .. Len(TheText), Covers(now[m], k)
                   PROVE  spans[m] = Nowhere /\ TheText[k] \in Blanks
      <4>1. now[m] # spans[m] => spans[m] = Nowhere BY <1>5, <1>9 DEF Painted
      <4> QED BY <4>1
    <3>2. spans[m] = Nowhere BY <1>5, <1>9, <3>1 DEF Painted
    <3>3. /\ Laid(cut, f) /\ f[Len(cut)] = Len(TheText)
          /\ \A i \in 1 .. Len(cut) :
                /\ LeafStands(cut[i], f[i - 1], f[i], spans)
                /\ f[i - 1] \in Nat /\ f[i] \in Nat
      BY <1>7, PageHasLeaves
    <3>4. PICK i \in 1 .. Len(cut) : f[i - 1] < k /\ k <= f[i] BY <3>3, LeafFound
    <3>5. LeafStands(cut[i], f[i - 1], f[i], now)
      <4>1. Stands(cut, f, now) BY <1>10, <1>12
      <4> QED BY <4>1, PageHasLeaves
    <3>6. m \notin NotesOn(cut[i])
      <4>1. spans[m][2] = 0 BY <3>2 DEF Nowhere
      <4>2. m \in NotesOn(cut[i]) => f[i - 1] < f[i] /\ f[i] <= spans[m][2]
        BY <3>3 DEF LeafStands
      <4> QED BY <3>3, <4>1, <4>2
    <3>7. k \in f[i - 1] + 1 .. f[i] BY <3>3, <3>4
    <3>8. TheText[k] \in Blanks BY <3>1, <3>5, <3>6, <3>7 DEF LeafStands
    <3> QED BY <3>2, <3>8
  <2> QED BY <1>2, <1>3, <2>1, BlanksStand
<1>13. \E d : Stands(leaves', d, spans')
  <2>1. CASE painted = cut
    <3>1. leaves' = leaves /\ spans' = now BY <1>4, <2>1
    <3>2. Stands(leaves, e, now) BY <1>12, <2>1
    <3> QED BY <3>1, <3>2
  <2>2. CASE painted # cut
    <3>1. leaves' = painted /\ spans' = now BY <1>4, <2>2
    <3> QED BY <1>10, <3>1
  <2> QED BY <2>1, <2>2
<1>14. made' \in Nat
  <2>1. Len(cut) \in Nat BY <1>7, PageHasLeaves
  <2>2. n * Len(cut) \in Nat BY <1>5, <2>1
  <2> QED BY <1>1, <1>4, <2>2
<1> QED BY <1>4, <1>11, <1>13, <1>14 DEF PageInv

LEMMA UnpaintStands ==
    ASSUME PageInv, NEW note \in Marked, Unpaint(note)
    PROVE  PageInv'
<1> DEFINE bare == [i \in DOMAIN leaves |-> Unwrapped(leaves[i], note)]
           now == [spans EXCEPT ![note] = Nowhere]
<1>1. /\ made \in Nat /\ spans \in [Marked -> (0 .. Len(TheText)) \X (0 .. Len(TheText))]
      /\ Len(TheText) \in Nat
  BY TextTypes DEF PageInv
<1>2. PICK e : Stands(leaves, e, spans) BY DEF PageInv
<1>3. /\ spans' = now /\ leaves' = Normalized(bare, Touched(leaves, note)) /\ made' = made
  BY DEF Unpaint
<1>4. now \in [Marked -> (0 .. Len(TheText)) \X (0 .. Len(TheText))]
  <2>1. 0 \in 0 .. Len(TheText) BY <1>1
  <2>2. Nowhere \in (0 .. Len(TheText)) \X (0 .. Len(TheText)) BY <2>1 DEF Nowhere
  <2> QED BY <1>1, <2>2
<1>5. now[note] = Nowhere /\ \A n \in Marked : n # note => now[n] = spans[n] BY <1>1
<1> HIDE DEF now
<1>6. Spanned(now)
  <2> SUFFICES ASSUME NEW m \in Marked PROVE now[m][1] \in Nat /\ now[m][2] \in Nat
    BY DEF Spanned
  <2>1. now[m] \in (0 .. Len(TheText)) \X (0 .. Len(TheText)) BY <1>4
  <2> QED BY <1>1, <2>1
<1>7. Stands(bare, e, now) BY <1>2, <1>5, UnwrapStands
<1> HIDE DEF bare
<1>8. \E d : Stands(Normalized(bare, Touched(leaves, note)), d, now)
  BY <1>6, <1>7, NormalizedStands
<1> QED BY <1>1, <1>3, <1>4, <1>8 DEF PageInv

LEMMA PageStep == PageInv /\ [PageNext]_pageVars => PageInv'
<1> SUFFICES ASSUME PageInv, [PageNext]_pageVars PROVE PageInv' OBVIOUS
<1>1. /\ spans \in [Marked -> (0 .. Len(TheText)) \X (0 .. Len(TheText))]
      /\ Len(TheText) \in Nat
  BY TextTypes DEF PageInv
<1>2. TextLength(leaves) = Len(TheText)
  <2>1. PICK e : Stands(leaves, e, spans) BY DEF PageInv
  <2> QED BY <2>1, PageHasLeaves
<1>3. \A s \in Spans : s[1] \in 0 .. Len(TheText) /\ s[2] \in 0 .. Len(TheText)
                       /\ s \in (0 .. Len(TheText)) \X (0 .. Len(TheText))
  BY <1>2 DEF Spans
<1>4. ASSUME NEW n \in Marked, NEW s \in Spans, spans[n] = Nowhere, PaintAll(<<Item(n, s)>>)
      PROVE  PageInv'
  <2>1. Fit(<<Item(n, s)>>, spans) BY <1>3, <1>4 DEF Fit, Item
  <2> QED BY <1>4, <2>1, PaintAllStands
<1>5. ASSUME NEW n \in Marked, NEW o \in Marked, NEW s \in Spans, NEW t \in Spans,
             n # o, spans[n] = Nowhere, spans[o] = Nowhere,
             PaintAll(<<Item(n, s), Item(o, t)>>)
      PROVE  PageInv'
  <2>1. Fit(<<Item(n, s), Item(o, t)>>, spans) BY <1>3, <1>5 DEF Fit, Item
  <2> QED BY <1>5, <2>1, PaintAllStands
<1>6. ASSUME NEW n \in Marked, Unpaint(n) PROVE PageInv' BY <1>6, UnpaintStands
<1>7. CASE UNCHANGED pageVars BY <1>7 DEF pageVars, PageInv
<1> QED BY <1>4, <1>5, <1>6, <1>7 DEF PageNext

LEMMA PageReads == PageInv => PaintShowsSpans
<1> SUFFICES ASSUME PageInv PROVE PaintShowsSpans OBVIOUS
<1> DEFINE n == Len(leaves)
<1>1. PICK e : Stands(leaves, e, spans) BY DEF PageInv
<1>2. /\ n \in Nat /\ DOMAIN leaves = 1 .. n /\ Laid(leaves, e) /\ Ends(leaves) = e
      /\ e[n] = Len(TheText) /\ Len(TheText) \in Nat
      /\ \A i \in 1 .. n :
            /\ leaves[i] \in PLeaf /\ LeafStands(leaves[i], e[i - 1], e[i], spans)
            /\ e[i - 1] \in Nat /\ e[i] \in Nat /\ e[i] = e[i - 1] + WidthOf(leaves[i])
  BY <1>1, PageHasLeaves
<1>3. spans \in [Marked -> (0 .. Len(TheText)) \X (0 .. Len(TheText))] BY DEF PageInv
<1> HIDE DEF n
<1>4. Flat(leaves) = TheText
  <2> DEFINE flat == Flat(leaves)
  <2>1. \A i \in 1 .. n : CharsOf(leaves[i]) \in Seq(Nat) BY <1>2, LeafTypes
  <2>2. /\ flat \in Seq(Nat) /\ Len(flat) = e[n]
        /\ \A i \in 1 .. n : \A m \in 1 .. WidthOf(leaves[i]) :
              flat[e[i - 1] + m] = CharsOf(leaves[i])[m]
    BY <1>2, <2>1, FlatReads DEF n
  <2>3. TheText \in Seq(Nat) BY TextTypes
  <2> HIDE DEF flat
  <2>4. ASSUME NEW k \in 1 .. Len(TheText) PROVE flat[k] = TheText[k]
    <3>1. PICK i \in 1 .. n : e[i - 1] < k /\ k <= e[i] BY <1>2, LeafFound DEF n
    <3> DEFINE m == k - e[i - 1]
    <3>2. m \in 1 .. WidthOf(leaves[i]) /\ e[i - 1] + m = k
      <4>1. e[i - 1] \in Nat /\ e[i] \in Nat /\ e[i] = e[i - 1] + WidthOf(leaves[i]) BY <1>2
      <4>2. WidthOf(leaves[i]) \in Nat BY <1>2, LeafTypes
      <4> QED BY <3>1, <4>1, <4>2
    <3> HIDE DEF m
    <3>3. flat[k] = CharsOf(leaves[i])[m] BY <2>2, <3>2
    <3>4. CharsOf(leaves[i])[m] = TheText[e[i - 1] + m] BY <1>2, <3>2 DEF LeafStands
    <3> QED BY <3>2, <3>3, <3>4
  <2>5. Len(flat) = Len(TheText) BY <1>2, <2>2
  <2>6. flat = TheText
    <3> DEFINE whole == TheText
    <3>1. /\ flat \in Seq(Nat) /\ whole \in Seq(Nat) /\ Len(flat) = Len(whole)
          /\ \A k \in 1 .. Len(whole) : flat[k] = whole[k]
      BY <2>2, <2>3, <2>4, <2>5
    <3> HIDE DEF whole
    <3>2. flat = whole BY <3>1
    <3> QED BY <3>2 DEF whole
  <2> QED BY <2>6 DEF flat
<1>5. ASSUME NEW m \in Marked
      PROVE  /\ PaintedWith(m) \subseteq spans[m][1] + 1 .. spans[m][2]
             /\ \A k \in (spans[m][1] + 1 .. spans[m][2]) \ PaintedWith(m) : TheText[k] \in Blanks
  <2>1. spans[m][1] \in Nat /\ spans[m][2] \in Nat /\ spans[m][2] <= Len(TheText)
    <3>1. spans[m] \in (0 .. Len(TheText)) \X (0 .. Len(TheText)) BY <1>3
    <3> QED BY <1>2, <3>1
  <2>2. \A k : k \in PaintedWith(m) <=>
            \E i \in 1 .. n : m \in NotesOn(leaves[i]) /\ k \in e[i - 1] + 1 .. e[i]
    BY <1>2 DEF PaintedWith
  <2>3. ASSUME NEW k \in PaintedWith(m) PROVE k \in spans[m][1] + 1 .. spans[m][2]
    <3>1. PICK i \in 1 .. n : m \in NotesOn(leaves[i]) /\ k \in e[i - 1] + 1 .. e[i]
      BY <2>2
    <3>2. spans[m][1] <= e[i - 1] /\ e[i] <= spans[m][2] BY <1>2, <3>1 DEF LeafStands
    <3>3. e[i - 1] \in Nat /\ e[i] \in Nat BY <1>2
    <3> QED BY <2>1, <3>1, <3>2, <3>3
  <2>4. ASSUME NEW k \in spans[m][1] + 1 .. spans[m][2], k \notin PaintedWith(m)
        PROVE  TheText[k] \in Blanks
    <3>1. k \in 1 .. Len(TheText) /\ Covers(spans[m], k) BY <1>2, <2>1 DEF Covers
    <3>2. PICK i \in 1 .. n : e[i - 1] < k /\ k <= e[i] BY <1>2, <3>1, LeafFound DEF n
    <3>3. k \in e[i - 1] + 1 .. e[i] BY <1>2, <3>2
    <3>4. m \notin NotesOn(leaves[i]) BY <2>2, <2>4, <3>3
    <3> QED BY <1>2, <3>1, <3>3, <3>4 DEF LeafStands
  <2> QED BY <2>3, <2>4
<1> QED BY <1>4, <1>5 DEF PaintShowsSpans

-----------------------------------------------------------------------------
(* The pages show what they say they show (PagesHold): the years, the      *)
(* enrolments, the edition of a story, its scenes, the notes painted on    *)
(* its text and its message, over any of them, and for any number of       *)
(* things the reader does.                                                 *)
THEOREM PagesStand ==
    YearSpec /\ HomeSpec /\ RouteSpec /\ StorySpec /\ PageSpec /\ JourneySpec => []PagesHold
<1>1. YearSpec => []YearInv BY InitYearInv, YearStep, PTL DEF YearSpec
<1>2. HomeSpec => [](ListInv /\ ListsKept)
  BY InitListInv, ListStep, InitListsKept, ListsStep, PTL DEF HomeSpec
<1>3. RouteSpec => []RouteInv BY InitRouteInv, RouteStep, PTL DEF RouteSpec
<1>4. StorySpec => []SceneInv BY InitSceneInv, SceneStep, PTL DEF StorySpec
<1>5. JourneySpec => []JourneyInv BY InitJourneyInv, JourneyStep, PTL DEF JourneySpec
<1>6. PageSpec => []PageInv BY InitPageStands, PageStep, PTL DEF PageSpec
<1>7. YearInv /\ ListInv /\ ListsKept /\ RouteInv /\ SceneInv /\ JourneyInv /\ PageInv
          => PagesHold
  BY YearsFollow, ListFollows, ListsFollow, RouteFollows, ScenesFollow, JourneyFollows,
     PageReads DEF PagesHold
<1> QED BY <1>1, <1>2, <1>3, <1>4, <1>5, <1>6, <1>7, PTL

-----------------------------------------------------------------------------
(***************************************************************************)
(* The chapter on screen, for any chapters and exercises, and any number   *)
(* of events: ReaderSpec keeps ReaderHolds.                                *)
(***************************************************************************)
Entry == [data : Nat, status : {"pending", "success", "error"}, fetching : BOOLEAN]
DivPage == [text : ChapterText, boxes : SUBSET Checkbox]
Root == [root : {"none", "mounted", "detached"}, text : ChapterText]

(* What a fetch leaves of an entry; one with data in error has relapsed. *)
CacheKept ==
    \A c \in Chapters :
        /\ cache[c].status = "pending" => cache[c].data = 0
        /\ cache[c].status = "success" => cache[c].data > 0
        /\ cache[c].status = "error" /\ cache[c].data > 0 => c \in relapsed

(* The last render, and what the main effect last depended on, are of one  *)
(* chapter; where the effect wrote nothing although there was data, a      *)
(* refetch had failed.                                                     *)
ScreenKept ==
    /\ div # Nothing <=> shown.body = "chapter"
    /\ drawn.chapter = shown.chapter /\ source \in {Nothing, drawn.chapter}
    /\ shown.body = "chapter" => drawn.ready
    /\ shown.body # "chapter" /\ drawn.ready /\ drawn.data > 0 => drawn.chapter \in relapsed
    /\ content.root = "mounted" <=> div # Nothing /\ div.text # NoText
    /\ panel # Nothing => panel.chapter = shown.chapter \/ shown.chapter \in relapsed

DivKept ==
    div # Nothing =>
        /\ div.text = NoText => div.boxes = {} /\ drawn.chapter \in relapsed
        /\ div.text # NoText => /\ div.text = [chapter |-> drawn.chapter, version |-> drawn.data]
                                /\ content.text = div.text /\ source = drawn.chapter
        /\ \A b \in div.boxes : b.row = div.text.chapter
        /\ ~shown.extras => div.boxes = {}
        /\ div.text # NoText /\ shown.extras =>
              {b.n : b \in div.boxes} = Exercises \/ given # content

ReaderInv == ReaderTypeOK /\ CacheKept /\ ScreenKept /\ DivKept

-----------------------------------------------------------------------------
LEMMA NoTextIs == NoText \in ChapterText /\ NoText.chapter = Nothing
<1>1. NoText = [chapter |-> Nothing, version |-> 0] BY DEF NoText
<1> QED BY <1>1 DEF ChapterText

LEMMA InitReaderInv == InitReader => ReaderInv
<1> SUFFICES ASSUME InitReader PROVE ReaderInv OBVIOUS
<1> USE DEF InitReader
<1>1. published \in [Chapters -> Nat \ {0}] OBVIOUS
<1>2. cache \in [Chapters -> Entry] /\ \A c \in Chapters : cache[c].status = "pending"
                                                         /\ cache[c].data = 0
  <2> DEFINE fetching(c) == c = chapter
  <2>1. cache = [c \in Chapters |-> [Unfetched EXCEPT !.fetching = fetching(c)]]
    OBVIOUS
  <2>2. \A c : fetching(c) \in BOOLEAN BY Zenon
  <2>3. Unfetched = [data |-> 0, status |-> "pending", fetching |-> FALSE] BY DEF Unfetched
  <2>4. Unfetched \in Entry /\ Unfetched.data = 0 /\ Unfetched.status = "pending"
    BY <2>3 DEF Entry
  <2> HIDE DEF fetching
  <2> QED BY <2>1, <2>2, <2>4 DEF Entry
<1>3. /\ shown = [chapter |-> chapter, body |-> "loading", extras |-> FALSE]
      /\ drawn = [ready |-> FALSE, chapter |-> chapter, data |-> 0]
      /\ content = [root |-> "none", text |-> NoText] /\ given = content
      /\ chapter \in Chapters
  OBVIOUS
<1>4. /\ shown \in [chapter : Chapters, body : {"error", "loading", "chapter"},
                    extras : BOOLEAN]
      /\ shown.body = "loading" /\ shown.chapter = chapter
  BY <1>3
<1>5. /\ drawn \in [ready : BOOLEAN, chapter : Chapters, data : Nat]
      /\ ~drawn.ready /\ drawn.chapter = chapter
  BY <1>3
<1>6. content \in Root /\ given \in Root /\ content.root = "none"
  BY <1>3, NoTextIs DEF Root
<1>7. ReaderTypeOK
  BY <1>1, <1>2, <1>4, <1>5, <1>6 DEF ReaderTypeOK, Entry, Root
<1> QED BY <1>2, <1>4, <1>5, <1>6, <1>7 DEF ReaderInv, CacheKept, ScreenKept, DivKept

(* What is on screen does not change under an event. *)
LEMMA ScreenStays ==
    ASSUME ScreenKept, DivKept, UNCHANGED shownVars, panel' \in {panel, Nothing},
           relapsed \subseteq relapsed'
    PROVE  ScreenKept' /\ DivKept'
BY DEF ScreenKept, DivKept, shownVars

(* A fetch begins. *)
LEMMA FetchBegins ==
    ASSUME ReaderInv, NEW c \in Chapters, cache' = Fetched(c), relapsed' = relapsed
    PROVE  cache' \in [Chapters -> Entry] /\ CacheKept'
<1> DEFINE st == IF cache[c].data = 0 THEN "pending" ELSE cache[c].status
           e == [cache[c] EXCEPT !.fetching = TRUE, !.status = st]
<1>1. cache \in [Chapters -> Entry] BY DEF ReaderInv, ReaderTypeOK, Entry
<1>2. cache' = [cache EXCEPT ![c] = e] BY <1>1 DEF Fetched
<1>3. st \in {"pending", "success", "error"} /\ (st = "pending" => cache[c].data = 0)
      /\ (st # "pending" => st = cache[c].status)
  BY <1>1 DEF ReaderInv, CacheKept, Entry
<1> HIDE DEF st
<1>4. e \in Entry /\ e.data = cache[c].data /\ e.status = st BY <1>1, <1>3 DEF Entry
<1> HIDE DEF e
<1>5. cache' \in [Chapters -> Entry] BY <1>1, <1>2, <1>4
<1>6. ASSUME NEW d \in Chapters
      PROVE  /\ cache'[d].status = "pending" => cache'[d].data = 0
             /\ cache'[d].status = "success" => cache'[d].data > 0
             /\ cache'[d].status = "error" /\ cache'[d].data > 0 => d \in relapsed'
  <2>1. CASE d = c BY <1>1, <1>2, <1>3, <1>4, <2>1 DEF ReaderInv, CacheKept
  <2>2. CASE d # c BY <1>1, <1>2, <2>2 DEF ReaderInv, CacheKept
  <2> QED BY <2>1, <2>2
<1> QED BY <1>5, <1>6 DEF CacheKept

(* The queries and the runtime. *)
LEMMA QuerySteps ==
    ASSUME ReaderInv,
           \/ Refetch
           \/ \E c \in Chapters : AnswerFetch(c) \/ FailFetch(c) \/ Republish(c) \/ Navigate(c)
           \/ \E ok \in BOOLEAN : LoadRuntime(ok)
    PROVE  ReaderInv'
<1> USE DEF ReaderInv, shownVars
<1>0. cache \in [Chapters -> Entry] BY DEF ReaderTypeOK, Entry
<1>1. CASE Refetch
  <2>1. /\ cache' = Fetched(chapter)
        /\ UNCHANGED <<published, trio, known, awaited, kit, me, ticks, chapter, shownVars,
                       panel, relapsed>>
    BY <1>1 DEF Refetch
  <2>2. chapter \in Chapters BY DEF ReaderTypeOK
  <2>3. cache' \in [Chapters -> Entry] /\ CacheKept' BY <2>1, <2>2, FetchBegins
  <2>4. ScreenKept' /\ DivKept' BY <2>1, ScreenStays
  <2>5. ReaderTypeOK' BY <2>1, <2>3 DEF ReaderTypeOK, Entry
  <2> QED BY <2>3, <2>4, <2>5
<1>2. ASSUME NEW c \in Chapters, AnswerFetch(c) PROVE ReaderInv'
  <2> DEFINE e == [data |-> published[c], status |-> "success", fetching |-> FALSE]
  <2>1. /\ cache' = [cache EXCEPT ![c] = e]
        /\ UNCHANGED <<published, trio, known, awaited, kit, me, ticks, chapter, shownVars,
                       panel, relapsed, events>>
    BY <1>2 DEF AnswerFetch
  <2>2. published[c] \in Nat \ {0} BY DEF ReaderTypeOK
  <2>3. e \in Entry /\ e.data > 0 /\ e.status = "success" BY <2>2 DEF Entry
  <2> HIDE DEF e
  <2>4. cache' \in [Chapters -> Entry] BY <1>0, <2>1, <2>3
  <2>5. CacheKept'
    <3> SUFFICES ASSUME NEW d \in Chapters
                 PROVE  /\ cache'[d].status = "pending" => cache'[d].data = 0
                        /\ cache'[d].status = "success" => cache'[d].data > 0
                        /\ cache'[d].status = "error" /\ cache'[d].data > 0 => d \in relapsed'
      BY DEF CacheKept
    <3>1. CASE d = c BY <1>0, <2>1, <2>3, <3>1
    <3>2. CASE d # c BY <1>0, <2>1, <3>2 DEF CacheKept
    <3> QED BY <3>1, <3>2
  <2>6. ScreenKept' /\ DivKept' BY <2>1, ScreenStays
  <2>7. ReaderTypeOK' BY <2>1, <2>4 DEF ReaderTypeOK, Entry
  <2> QED BY <2>5, <2>6, <2>7
<1>3. ASSUME NEW c \in Chapters, FailFetch(c) PROVE ReaderInv'
  <2> DEFINE e == [cache[c] EXCEPT !.status = "error", !.fetching = FALSE]
  <2>1. /\ cache' = [cache EXCEPT ![c] = e]
        /\ relapsed' = IF cache[c].data = 0 THEN relapsed ELSE relapsed \cup {c}
        /\ UNCHANGED <<published, trio, known, awaited, kit, me, ticks, chapter, shownVars,
                       panel, events>>
    BY <1>0, <1>3 DEF FailFetch
  <2>2. e \in Entry /\ e.data = cache[c].data /\ e.status = "error" BY <1>0 DEF Entry
  <2> HIDE DEF e
  <2>3. cache' \in [Chapters -> Entry] BY <1>0, <2>1, <2>2
  <2>4. relapsed \subseteq relapsed' /\ relapsed' \subseteq Chapters BY <2>1 DEF ReaderTypeOK
  <2>5. CacheKept'
    <3> SUFFICES ASSUME NEW d \in Chapters
                 PROVE  /\ cache'[d].status = "pending" => cache'[d].data = 0
                        /\ cache'[d].status = "success" => cache'[d].data > 0
                        /\ cache'[d].status = "error" /\ cache'[d].data > 0 => d \in relapsed'
      BY DEF CacheKept
    <3>1. CASE d = c BY <1>0, <2>1, <2>2, <3>1
    <3>2. CASE d # c BY <1>0, <2>1, <2>4, <3>2 DEF CacheKept
    <3> QED BY <3>1, <3>2
  <2>6. ScreenKept' /\ DivKept' BY <2>1, <2>4, ScreenStays
  <2>7. ReaderTypeOK' BY <2>1, <2>3, <2>4 DEF ReaderTypeOK, Entry
  <2> QED BY <2>5, <2>6, <2>7
<1>4. ASSUME NEW c \in Chapters, Republish(c) PROVE ReaderInv'
  <2>1. /\ published' = [published EXCEPT ![c] = @ + 1]
        /\ UNCHANGED <<cache, trio, known, awaited, kit, me, ticks, chapter, shownVars,
                       panel, relapsed, events>>
    BY <1>4 DEF Republish
  <2>2. published' \in [Chapters -> Nat \ {0}] BY <2>1 DEF ReaderTypeOK
  <2>3. ScreenKept' /\ DivKept' BY <2>1, ScreenStays
  <2>4. CacheKept' BY <2>1 DEF CacheKept
  <2>5. ReaderTypeOK' BY <2>1, <2>2 DEF ReaderTypeOK
  <2> QED BY <2>3, <2>4, <2>5
<1>5. ASSUME NEW c \in Chapters, Navigate(c) PROVE ReaderInv'
  <2>1. /\ chapter' = c /\ cache' = Fetched(c)
        /\ UNCHANGED <<published, me, ticks, shownVars, panel, relapsed>>
        /\ kit' \in {kit, "ready", "waiting"} /\ trio' \in {trio, "loading"}
    BY <1>5 DEF Navigate
  <2>2. cache' \in [Chapters -> Entry] /\ CacheKept' BY <2>1, FetchBegins
  <2>3. ScreenKept' /\ DivKept' BY <2>1, ScreenStays
  <2>4. ReaderTypeOK' BY <2>1, <2>2 DEF ReaderTypeOK, Entry
  <2> QED BY <2>2, <2>3, <2>4
<1>6. ASSUME NEW ok \in BOOLEAN, LoadRuntime(ok) PROVE ReaderInv'
  <2>1. /\ trio' \in {"loaded", "none"} /\ kit' \in {"ready", "failed"}
        /\ UNCHANGED <<published, cache, me, ticks, chapter, shownVars, panel,
                       relapsed, events>>
    BY <1>6 DEF LoadRuntime
  <2>2. ScreenKept' /\ DivKept' BY <2>1, ScreenStays
  <2>3. CacheKept' BY <2>1 DEF CacheKept
  <2>4. ReaderTypeOK' BY <2>1 DEF ReaderTypeOK
  <2> QED BY <2>2, <2>3, <2>4
<1> QED BY <1>1, <1>2, <1>3, <1>4, <1>5, <1>6

(* What the reader does. *)
LEMMA ReaderSteps ==
    ASSUME ReaderInv,
           \/ \E who \in {"in", "out"} : Identify(who)
           \/ \E to \in SUBSET Row : Progress(to)
           \/ AskAboutChapter \/ CloseAi \/ UNCHANGED readerVars
    PROVE  ReaderInv'
<1> USE DEF ReaderInv, shownVars, queryVars
<1>1. ASSUME NEW who \in {"in", "out"}, Identify(who) PROVE ReaderInv'
  <2>1. /\ me' = who /\ ticks' = {}
        /\ UNCHANGED <<queryVars, chapter, shownVars, panel, relapsed>>
    BY <1>1 DEF Identify
  <2>2. ScreenKept' /\ DivKept' BY <2>1, ScreenStays
  <2> QED BY <2>1, <2>2 DEF ReaderTypeOK, CacheKept
<1>2. ASSUME NEW to \in SUBSET Row, Progress(to) PROVE ReaderInv'
  <2>1. ticks' = to /\ UNCHANGED <<queryVars, me, chapter, shownVars, panel, relapsed>>
    BY <1>2 DEF Progress
  <2>2. ScreenKept' /\ DivKept' BY <2>1, ScreenStays
  <2> QED BY <2>1, <2>2 DEF ReaderTypeOK, CacheKept
<1>3. CASE AskAboutChapter
  <2>1. /\ shown.body = "chapter" /\ given = content /\ given.root # "none"
        /\ panel' = given.text
        /\ UNCHANGED <<queryVars, me, ticks, chapter, shownVars, relapsed>>
    BY <1>3 DEF AskAboutChapter
  <2>2. content \in Root BY DEF ReaderTypeOK, Root
  <2>3. div # Nothing BY <2>1 DEF ScreenKept
  <2>4. panel' \in ChapterText BY <2>1, <2>2 DEF Root
  <2>5. panel'.chapter = shown.chapter \/ shown.chapter \in relapsed
    <3>1. CASE div.text = NoText BY <2>3, <3>1 DEF DivKept, ScreenKept
    <3>2. CASE div.text # NoText
      <4>1. panel' = [chapter |-> drawn.chapter, version |-> drawn.data]
        BY <2>1, <2>3, <3>2 DEF DivKept
      <4> QED BY <4>1 DEF ScreenKept
    <3> QED BY <3>1, <3>2
  <2>6. ScreenKept' BY <2>1, <2>5 DEF ScreenKept
  <2>7. DivKept' BY <2>1 DEF DivKept
  <2>8. ReaderTypeOK' BY <2>1, <2>4 DEF ReaderTypeOK
  <2> QED BY <2>1, <2>6, <2>7, <2>8 DEF CacheKept
<1>4. CASE CloseAi
  <2>1. /\ panel' = Nothing
        /\ UNCHANGED <<queryVars, me, ticks, chapter, shownVars, relapsed, events>>
    BY <1>4 DEF CloseAi
  <2>2. ScreenKept' /\ DivKept' BY <2>1, ScreenStays
  <2> QED BY <2>1, <2>2 DEF ReaderTypeOK, CacheKept
<1>5. CASE UNCHANGED readerVars
  <2>1. UNCHANGED <<queryVars, me, ticks, chapter, shownVars, panel, relapsed, events>>
    BY <1>5 DEF readerVars
  <2>2. ScreenKept' /\ DivKept' BY <2>1, ScreenStays
  <2> QED BY <2>1, <2>2 DEF ReaderTypeOK, CacheKept
<1> QED BY <1>1, <1>2, <1>3, <1>4, <1>5

(* A checkbox is ticked: it stays where it was, and of the same row. *)
LEMMA TickStep ==
    ASSUME ReaderInv, div # Nothing, NEW box \in div.boxes, Tick(box)
    PROVE  ReaderInv'
<1> USE DEF ReaderInv
<1> DEFINE ticked == [box EXCEPT !.checked = ~box.checked]
           boxes == (div.boxes \ {box}) \cup {ticked}
           row == [chapter |-> box.row, n |-> box.n]
<1>1. div \in DivPage BY DEF ReaderTypeOK, DivPage
<1>2. /\ div' = [div EXCEPT !.boxes = boxes]
      /\ ticks' = IF row \in ticks THEN ticks \ {row} ELSE ticks \cup {row}
      /\ UNCHANGED <<queryVars, me, chapter, shown, content, given, drawn, source,
                     panel, relapsed>>
  BY DEF Tick
<1>3. box \in Checkbox BY <1>1 DEF DivPage
<1>4. ticked \in Checkbox /\ ticked.n = box.n /\ ticked.row = box.row
  BY <1>3 DEF Checkbox
<1>5. row \in Row BY <1>3 DEF Row, Checkbox
<1> HIDE DEF ticked
<1>6. boxes \in SUBSET Checkbox BY <1>1, <1>4 DEF DivPage
<1>7. /\ \A b \in boxes : \E a \in div.boxes : b.n = a.n /\ b.row = a.row
      /\ \A a \in div.boxes : \E b \in boxes : b.n = a.n
  BY <1>4
<1> HIDE DEF boxes, row
<1>8. div' \in DivPage /\ div'.text = div.text /\ div'.boxes = boxes
  BY <1>1, <1>2, <1>6 DEF DivPage
<1>9. div' # Nothing BY <1>8, ReaderAssumption DEF DivPage
<1>10. ticks' \subseteq Row BY <1>2, <1>5 DEF ReaderTypeOK
<1>11. ReaderTypeOK'
  BY <1>2, <1>8, <1>10 DEF ReaderTypeOK, DivPage, queryVars
<1>12. CacheKept' BY <1>2 DEF CacheKept, queryVars
<1>13. ScreenKept' BY <1>2, <1>8, <1>9 DEF ScreenKept
<1>14. DivKept'
  <2>1. /\ div.text # NoText /\ shown.extras
        /\ div.text = [chapter |-> drawn.chapter, version |-> drawn.data]
        /\ content.text = div.text /\ source = drawn.chapter
        /\ \A b \in div.boxes : b.row = div.text.chapter
        /\ {b.n : b \in div.boxes} = Exercises \/ given # content
    BY DEF DivKept
  <2>2. \A b \in boxes : b.row = div.text.chapter BY <1>7, <2>1
  <2>3. {b.n : b \in boxes} = {b.n : b \in div.boxes} BY <1>7
  <2> QED BY <1>2, <1>8, <2>1, <2>2, <2>3 DEF DivKept
<1> QED BY <1>11, <1>12, <1>13, <1>14

-----------------------------------------------------------------------------
(* The exercises of a text all have their checkbox once they are injected: *)
(* one that was there keeps its row, a new one is of the route's chapter.  *)
LEMMA InjectedAll ==
    ASSUME NEW d \in DivPage, chapter \in Chapters
    PROVE  /\ Injected(d) \in DivPage /\ Injected(d).text = d.text
           /\ d.text = NoText => Injected(d) = d
           /\ d.text # NoText =>
                 /\ {b.n : b \in Injected(d).boxes} = Exercises
                 /\ \A b \in Injected(d).boxes :
                       b.row = chapter \/ \E a \in d.boxes : b.row = a.row
<1>1. CASE d.text = NoText BY <1>1 DEF Injected
<1>2. CASE d.text # NoText
  <2> DEFINE row(n) == IF \E b \in d.boxes : b.n = n
                       THEN (CHOOSE b \in d.boxes : b.n = n).row ELSE chapter
             key(n) == [chapter |-> chapter, n |-> n]
             done(n) == key(n) \in ticks
             new(n) == [n |-> n, checked |-> done(n), row |-> row(n)]
             boxes == {new(n) : n \in Exercises}
  <2>1. Injected(d) = [d EXCEPT !.boxes = boxes] BY <1>2 DEF Injected
  <2> HIDE DEF key
  <2>2. \A n : done(n) \in BOOLEAN BY SMT
  <2>3. \A n : row(n) \in Chapters /\ (row(n) = chapter \/ \E a \in d.boxes : row(n) = a.row)
    BY DEF DivPage, Checkbox
  <2> HIDE DEF done, row
  <2>4. \A n \in Exercises : new(n) \in Checkbox /\ new(n).n = n /\ new(n).row = row(n)
    BY <2>2, <2>3 DEF Checkbox
  <2> HIDE DEF new
  <2>5. boxes \in SUBSET Checkbox BY <2>4
  <2>6. {b.n : b \in boxes} = Exercises BY <2>4
  <2>7. \A b \in boxes : b.row = chapter \/ \E a \in d.boxes : b.row = a.row BY <2>3, <2>4
  <2> HIDE DEF boxes
  <2>8. Injected(d) \in DivPage /\ Injected(d).text = d.text /\ Injected(d).boxes = boxes
    BY <2>1, <2>5 DEF DivPage
  <2> QED BY <1>2, <2>6, <2>7, <2>8
<1> QED BY <1>1, <1>2

(* What the render reads. *)
LEMMA RenderReads ==
    ASSUME ReaderTypeOK, CacheKept
    PROVE  /\ Wanted \in [chapter : Chapters, body : {"error", "loading", "chapter"},
                          extras : BOOLEAN]
           /\ Wanted.chapter = chapter
           /\ Depends \in [ready : BOOLEAN, chapter : Chapters, data : Nat]
           /\ Depends.chapter = chapter /\ Depends.data = cache[chapter].data
           /\ Wanted.body = "chapter" => Depends.ready /\ Depends.data > 0
           /\ Wanted.body # "chapter" /\ Depends.ready /\ Depends.data > 0 =>
                 chapter \in relapsed
<1> DEFINE extras == Body = "chapter" /\ me = "in"
           ready == kit = "ready"
<1>1. extras \in BOOLEAN /\ ready \in BOOLEAN BY Zenon
<1>2. /\ Wanted = [chapter |-> chapter, body |-> Body, extras |-> extras]
      /\ Depends = [ready |-> ready, chapter |-> chapter, data |-> cache[chapter].data]
  BY DEF Wanted, Depends
<1>3. chapter \in Chapters /\ cache[chapter] \in Entry /\ cache[chapter].data \in Nat
  BY DEF ReaderTypeOK, Entry
<1>4. /\ Body \in {"error", "loading", "chapter"}
      /\ Body = "chapter" => kit = "ready" /\ cache[chapter].data > 0
      /\ Body # "chapter" /\ kit = "ready" /\ cache[chapter].data > 0 => chapter \in relapsed
  BY <1>3 DEF Body, ReaderTypeOK, CacheKept, Entry
<1>5. ready <=> kit = "ready" OBVIOUS
<1> HIDE DEF extras, ready
<1> QED BY <1>1, <1>2, <1>3, <1>4, <1>5

LEMMA RenderStep == ASSUME ReaderInv, Render PROVE ReaderInv'
<1> USE DEF ReaderInv
<1> DEFINE mounted == Wanted.body = "chapter"
           keep == mounted /\ div # Nothing
           root == IF content.root = "mounted" /\ ~keep THEN "detached" ELSE content.root
           built == IF keep THEN Removed(div, shown.extras /\ ~Wanted.extras) ELSE Bare
           boxed == IF Wanted.extras /\ root = "mounted" THEN Injected(built) ELSE built
           redrawn == drawn # Depends
           writes == redrawn /\ mounted
           text == [chapter |-> chapter, version |-> cache[chapter].data]
<1>1. /\ shown' = Wanted
      /\ given' = [content EXCEPT !.root = root]
      /\ drawn' = IF redrawn THEN Depends ELSE drawn
      /\ div' = IF ~mounted THEN Nothing
                ELSE IF writes THEN [text |-> text, boxes |-> {}] ELSE boxed
      /\ content' = IF writes THEN [root |-> "mounted", text |-> text]
                    ELSE [content EXCEPT !.root = root]
      /\ source' = IF writes THEN chapter ELSE IF redrawn THEN Nothing ELSE source
      /\ panel' = IF shown.chapter # chapter THEN Nothing ELSE panel
      /\ UNCHANGED <<queryVars, me, ticks, chapter, relapsed, events>>
  BY DEF Render, Redrawn
<1>2. /\ Wanted \in [chapter : Chapters, body : {"error", "loading", "chapter"},
                     extras : BOOLEAN]
      /\ Wanted.chapter = chapter
      /\ Depends \in [ready : BOOLEAN, chapter : Chapters, data : Nat]
      /\ Depends.chapter = chapter /\ Depends.data = cache[chapter].data
      /\ Wanted.body = "chapter" => Depends.ready /\ Depends.data > 0
      /\ Wanted.body # "chapter" /\ Depends.ready /\ Depends.data > 0 => chapter \in relapsed
  BY RenderReads
<1>3. /\ chapter \in Chapters /\ content \in Root
      /\ div # Nothing => div \in DivPage
      /\ drawn \in [ready : BOOLEAN, chapter : Chapters, data : Nat]
      /\ source \in Chapters \cup {Nothing} /\ panel \in ChapterText \cup {Nothing}
  BY DEF ReaderTypeOK, DivPage, Root
<1>4. drawn' = Depends BY <1>1
<1>5. text \in ChapterText /\ text.chapter = chapter /\ text.version = Depends.data
      /\ text = [chapter |-> Depends.chapter, version |-> Depends.data]
  BY <1>2, <1>3 DEF ChapterText
<1>6. text # NoText BY <1>3, <1>5, NoTextIs, ReaderAssumption
<1>7. root \in {"none", "mounted", "detached"}
      /\ (root = "mounted" <=> keep /\ div.text # NoText)
      /\ (keep => root = content.root)
  BY <1>3 DEF ScreenKept, Root
<1>8. /\ built \in DivPage
      /\ keep => built.text = div.text /\ \A b \in built.boxes : b \in div.boxes
      /\ ~keep => built.text = NoText
      /\ ~keep \/ div.text = NoText \/ ~Wanted.extras => built.boxes = {}
  <2>1. CASE ~keep
    <3>1. built = [text |-> NoText, boxes |-> {}] BY <2>1 DEF Bare
    <3> QED BY <2>1, <3>1, NoTextIs DEF DivPage
  <2>2. CASE keep /\ shown.extras /\ ~Wanted.extras
    <3>1. built = [div EXCEPT !.boxes = {}] /\ div \in DivPage BY <1>3, <2>2 DEF Removed
    <3>2. built \in DivPage /\ built.text = div.text /\ built.boxes = {} BY <3>1 DEF DivPage
    <3> QED BY <2>2, <3>2
  <2>3. CASE keep /\ ~(shown.extras /\ ~Wanted.extras)
    <3>1. built = div /\ div \in DivPage BY <1>3, <2>3 DEF Removed
    <3>2. div.text = NoText \/ ~Wanted.extras => div.boxes = {} BY <2>3 DEF DivKept
    <3> QED BY <2>3, <3>1, <3>2
  <2> QED BY <2>1, <2>2, <2>3
<1> HIDE DEF built
<1>9. /\ boxed \in DivPage /\ boxed.text = built.text
      /\ built.text = NoText \/ ~Wanted.extras => boxed.boxes = built.boxes
      /\ Wanted.extras /\ built.text # NoText =>
            {b.n : b \in boxed.boxes} = Exercises
      /\ \A b \in boxed.boxes : b.row = chapter \/ \E a \in div.boxes : keep /\ b.row = a.row
  <2>1. CASE Wanted.extras /\ root = "mounted"
    <3>1. boxed = Injected(built) BY <2>1
    <3>2. keep /\ built.text # NoText BY <1>7, <1>8, <2>1
    <3> HIDE DEF boxed, keep, root
    <3> QED BY <1>3, <1>8, <2>1, <3>1, <3>2, InjectedAll
  <2>2. CASE ~(Wanted.extras /\ root = "mounted")
    <3>1. boxed = built BY <2>2
    <3>2. Wanted.extras => built.text = NoText
      <4>1. CASE keep BY <1>7, <1>8, <2>2, <4>1
      <4>2. CASE ~keep BY <1>8, <4>2
      <4> QED BY <4>1, <4>2
    <3>3. \A b \in built.boxes : keep /\ b \in div.boxes BY <1>8
    <3> HIDE DEF boxed, keep, root
    <3> QED BY <1>8, <3>1, <3>2, <3>3
  <2> QED BY <2>1, <2>2
<1> HIDE DEF boxed, text, root
<1>10. [content EXCEPT !.root = root] \in Root
       /\ [content EXCEPT !.root = root].root = root
       /\ [content EXCEPT !.root = root].text = content.text
  BY <1>3, <1>7 DEF Root
<1>11. panel' \in ChapterText \cup {Nothing}
       /\ (panel' # Nothing => panel'.chapter = chapter \/ chapter \in relapsed)
  BY <1>1, <1>3 DEF ScreenKept
<1>12. CacheKept' BY <1>1 DEF CacheKept, queryVars
<1>13. CASE ~mounted
  <2>1. /\ div' = Nothing /\ content' = [content EXCEPT !.root = root] /\ root # "mounted"
        /\ source' = IF redrawn THEN Nothing ELSE source
    BY <1>1, <1>7, <1>13
  <2>2. source' \in {Nothing, chapter} BY <1>2, <2>1 DEF ScreenKept
  <2>3. ReaderTypeOK'
    BY <1>1, <1>2, <1>3, <1>4, <1>10, <1>11, <2>1, <2>2
    DEF ReaderTypeOK, Root, queryVars
  <2>4. ScreenKept'
    BY <1>1, <1>2, <1>4, <1>10, <1>11, <1>13, <2>1, <2>2 DEF ScreenKept
  <2>5. DivKept' BY <2>1 DEF DivKept
  <2> QED BY <1>12, <2>3, <2>4, <2>5
<1>14. CASE writes
  <2> DEFINE sheet == [text |-> text, boxes |-> {}]
             written == [root |-> "mounted", text |-> text]
  <2>1. div' = sheet /\ content' = written /\ source' = chapter BY <1>1, <1>14
  <2>2. sheet \in DivPage /\ sheet.text = text /\ sheet.boxes = {} BY <1>5 DEF DivPage
  <2>3. written \in Root /\ written.root = "mounted" /\ written.text = text
    BY <1>5 DEF Root
  <2> HIDE DEF sheet, written
  <2>4. div' # Nothing BY <2>1, <2>2, ReaderAssumption DEF DivPage
  <2>5. ReaderTypeOK'
    BY <1>1, <1>2, <1>3, <1>4, <1>10, <1>11, <2>1, <2>2, <2>3
    DEF ReaderTypeOK, Root, DivPage, queryVars
  <2>6. ScreenKept'
    BY <1>1, <1>2, <1>4, <1>6, <1>11, <1>14, <2>1, <2>2, <2>3, <2>4 DEF ScreenKept
  <2>7. given' # content'
    <3>1. given'.root = root /\ given'.text = content.text BY <1>1, <1>10
    <3>2. CASE root # "mounted" BY <2>1, <2>3, <3>1, <3>2
    <3>3. CASE root = "mounted"
      <4>1. /\ keep /\ content.text = [chapter |-> drawn.chapter, version |-> drawn.data]
            /\ drawn.ready
        BY <1>7, <3>3 DEF DivKept, ScreenKept
      <4>2. content.text # text
        <5>1. content.text = text => drawn.chapter = Depends.chapter /\ drawn.data = Depends.data
          BY <1>5, <4>1
        <5>2. drawn.ready = Depends.ready BY <1>2, <1>3, <1>14, <4>1
        <5>3. drawn.chapter = Depends.chapter /\ drawn.data = Depends.data => drawn = Depends
          BY <1>2, <1>3, <5>2
        <5> QED BY <1>14, <5>1, <5>3
      <4> QED BY <2>1, <2>3, <3>1, <4>2
    <3> QED BY <3>2, <3>3
  <2>8. DivKept'
    BY <1>2, <1>4, <1>5, <1>6, <2>1, <2>2, <2>3, <2>7 DEF DivKept
  <2> QED BY <1>12, <2>5, <2>6, <2>8
<1>15. CASE mounted /\ ~writes
  <2>1. /\ div' = boxed /\ content' = [content EXCEPT !.root = root] /\ source' = source
        /\ drawn = Depends
    BY <1>1, <1>15
  <2>2. div' # Nothing BY <1>9, <2>1, ReaderAssumption DEF DivPage
  <2>3. keep <=> div # Nothing BY <1>15
  <2>4. boxed.text # NoText <=> keep /\ div.text # NoText BY <1>8, <1>9
  <2>5. source' \in {Nothing, chapter} BY <1>2, <2>1 DEF ScreenKept
  <2>6. boxed.text = NoText => boxed.boxes = {} /\ chapter \in relapsed
    <3>1. boxed.text = NoText => boxed.boxes = {} BY <1>8, <1>9
    <3>2. CASE keep /\ div.text = NoText BY <1>2, <2>1, <2>3, <3>1, <3>2 DEF DivKept
    <3>3. CASE ~keep
      <4>1. shown.body # "chapter" BY <2>3, <3>3 DEF ScreenKept
      <4> QED BY <1>2, <1>15, <2>1, <3>1, <4>1 DEF ScreenKept
    <3> QED BY <2>4, <3>2, <3>3
  <2>7. boxed.text # NoText =>
           /\ boxed.text = [chapter |-> chapter, version |-> Depends.data]
           /\ content.text = boxed.text /\ source = chapter /\ boxed.text.chapter = chapter
    BY <1>2, <1>8, <1>9, <2>1, <2>3, <2>4 DEF DivKept
  <2>8. \A b \in boxed.boxes : b.row = boxed.text.chapter
    <3> SUFFICES ASSUME NEW b \in boxed.boxes PROVE b.row = boxed.text.chapter
      OBVIOUS
    <3>1. boxed.text # NoText BY <2>6
    <3>2. boxed.text.chapter = chapter /\ div.text.chapter = chapter
      BY <1>8, <1>9, <2>4, <2>7, <3>1
    <3>3. CASE b.row = chapter BY <3>2, <3>3
    <3>4. CASE \E a \in div.boxes : keep /\ b.row = a.row
      BY <2>3, <3>2, <3>4 DEF DivKept
    <3> QED BY <1>9, <3>3, <3>4
  <2>9. ~Wanted.extras => boxed.boxes = {} BY <1>8, <1>9
  <2>10. Wanted.extras /\ boxed.text # NoText => {b.n : b \in boxed.boxes} = Exercises
    BY <1>9
  <2>11. ReaderTypeOK'
    BY <1>1, <1>2, <1>3, <1>4, <1>9, <1>10, <1>11, <2>1, <2>5
    DEF ReaderTypeOK, Root, DivPage, queryVars
  <2>12. ScreenKept'
    BY <1>1, <1>2, <1>4, <1>7, <1>10, <1>11, <1>15, <2>1, <2>2, <2>4, <2>5 DEF ScreenKept
  <2>13. DivKept'
    BY <1>1, <1>2, <1>4, <1>10, <2>1, <2>6, <2>7, <2>8, <2>9, <2>10 DEF DivKept
  <2> QED BY <1>12, <2>11, <2>12, <2>13
<1> QED BY <1>13, <1>14, <1>15

LEMMA ReaderStep == ReaderInv /\ [ReaderNext]_readerVars => ReaderInv'
<1> SUFFICES ASSUME ReaderInv, [ReaderNext]_readerVars PROVE ReaderInv'
  OBVIOUS
<1>1. CASE div # Nothing /\ \E box \in div.boxes : Tick(box) BY <1>1, TickStep
<1>2. CASE Render BY <1>2, RenderStep
<1>3. CASE \/ Refetch
           \/ \E c \in Chapters : AnswerFetch(c) \/ FailFetch(c) \/ Republish(c) \/ Navigate(c)
           \/ \E ok \in BOOLEAN : LoadRuntime(ok)
  BY <1>3, QuerySteps
<1>4. CASE \/ \E who \in {"in", "out"} : Identify(who)
           \/ \E to \in SUBSET Row : Progress(to)
           \/ AskAboutChapter \/ CloseAi \/ UNCHANGED readerVars
  BY <1>4, ReaderSteps
<1> QED BY <1>1, <1>2, <1>3, <1>4 DEF ReaderNext

(* However loads, navigation, sign-in, progress and renders interleave,    *)
(* the page, what speaks of it and what the reader hung in it are of the   *)
(* chapter of the route once the page has settled (ChapterView.tsx), but   *)
(* for a chapter whose refetch failed.                                     *)
THEOREM PageStands == ReaderSpec => []ReaderHolds
<1>1. ReaderInv => ReaderHolds
  <2> SUFFICES ASSUME ReaderInv PROVE ReaderHolds OBVIOUS
  <2> USE DEF ReaderInv
  <2>1. Wanted.chapter = chapter /\ Depends.chapter = chapter
        /\ Depends.data = cache[chapter].data
    BY RenderReads
  <2>2. ASSUME Settled
        PROVE  /\ shown = Wanted /\ drawn = Depends /\ given = content
    BY <2>2 DEF Settled
  <2>3. PageIsItsChapter
    BY <2>1, <2>2 DEF PageIsItsChapter, ScreenKept, DivKept
  <2>4. BoxesAreTheirs
    BY <2>2 DEF BoxesAreTheirs, DivKept
  <2> QED BY <2>3, <2>4 DEF ReaderHolds
<1> QED BY <1>1, InitReaderInv, ReaderStep, PTL DEF ReaderSpec

=============================================================================
