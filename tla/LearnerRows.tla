----------------------------- MODULE LearnerRows -----------------------------
(***************************************************************************)
(* What the server keeps of a learner: marks of progress and notes, which  *)
(* come in by two doors. POST /sync (internal/sync) takes a batch that     *)
(* waited in an old browser, with the times it was written at, and the     *)
(* newest time wins. The REST calls (internal/userdata) take one write and *)
(* give it the server's time. A request is one transaction at READ         *)
(* COMMITTED: who writes a row that an open transaction has written waits  *)
(* for it, and then decides on what it finds.                              *)
(*                                                                         *)
(* There is one chapter to mark, hence a mark for each learner, and one    *)
(* note, whose id comes from a browser and belongs to whoever was first.   *)
(***************************************************************************)
EXTENDS Integers, Sequences

CONSTANTS
    Learners,
    Batches,        \* what old browsers send: a learner and items with times
    Texts,          \* what a mark or a note may say
    Requests,       \* requests that may be open at one time
    NoRow, NoRequest,
    MaxServerTime,        \* bound on the server's clock
    MaxRequests     \* bound: requests in all

Note == "note"
RowNames == Learners \cup {Note}
Wordings == Texts \cup UNION {{b.items[i].text : i \in DOMAIN b.items} : b \in Batches}

ASSUME LearnerAssumption ==
    /\ MaxServerTime \in Nat /\ MaxRequests \in Nat
    /\ Note \notin Learners
    /\ \A b \in Batches :
          /\ b.who \in Learners
          /\ b.items \in Seq([how : {"mark", "upsert", "erase"}, text : Wordings, at : Int])
    /\ NoRow \notin [owner : Learners, text : Wordings, at : Int]

VARIABLES
    serverTime,
    rows,           \* the committed rows of progress and annotations
    desk,           \* each request's transaction
    said,           \* the marks that committed requests brought, per learner
    alone,          \* history: requests since whose coming nobody else
                    \* changed a row
    after,          \* history: the rows as a batch, taken as it came and
                    \* alone, left them last
    begun           \* requests so far

learnerVars == <<serverTime, rows, desk, said, alone, after, begun>>

InitLearner ==
    /\ serverTime = 1
    /\ rows = [r \in RowNames |-> NoRow]
    /\ desk = [q \in Requests |-> NoRequest]
    /\ said = [u \in Learners |-> {}]
    /\ alone = {}
    /\ after = <<>>
    /\ begun = 0

-----------------------------------------------------------------------------
(* What comes in. "next" is the item to apply, "mine" holds the rows that  *)
(* the transaction has written or locked.                                  *)

Receive(q, who, items, batch) ==
    /\ desk[q] = NoRequest /\ begun < MaxRequests
    /\ desk' = [desk EXCEPT ![q] =
           [who |-> who, items |-> items, batch |-> batch, next |-> 1, mine |-> <<>>]]
    /\ alone' = alone \cup {q}
    /\ begun' = begun + 1
    /\ UNCHANGED <<serverTime, rows, said, after>>

(* Mutant: times are taken as they come. *)
ClampNothing(t) == t

(* clampFuture, with one "now" for the batch. *)
ClampFuture(t) == IF t > serverTime THEN serverTime ELSE t

(* Usecase.Push. The same batch comes again when its answer was lost.      *)
Push(q) ==
    \E b \in Batches :
        Receive(q, b.who, [i \in DOMAIN b.items |->
                            [b.items[i] EXCEPT !.at = ClampFuture(@)]], {b})

(* The REST calls: now() is the time at which the statement begins. *)
Call(q, how) ==
    \E u \in Learners, t \in Texts :
        Receive(q, u, <<[how |-> how, text |-> t, at |-> serverTime]>>, {})

PutProgress(q) == Call(q, "mark")
CreateAnnotation(q) == Call(q, "create")
PatchAnnotation(q) == Call(q, "patch")
DeleteAnnotation(q) == Call(q, "delete")

-----------------------------------------------------------------------------
(* The statements, on the row as the transaction finds it.                 *)

RowOf(who, item) == IF item.how = "mark" THEN who ELSE Note
Inserts(item) == item.how \in {"mark", "upsert", "create"}
Owns(who, row) == row # NoRow /\ row.owner = who

(* Mutant: a note that was deleted elsewhere goes, however late its edit. *)
AppliesToAnyAge(who, item, row) ==
    CASE item.how = "create" -> row = NoRow
      [] item.how \in {"patch", "delete", "erase"} -> Owns(who, row)
      [] item.how \in {"mark", "upsert"} ->
            row = NoRow \/ (Owns(who, row) /\ item.at > row.at)

(* upsertProgressSQL, upsertAnnotationSQL and deleteAnnotationSQL ("erase") *)
(* of a batch compare times; the statements of the REST calls on a note do *)
(* not, and that on a mark compares the server's own.                      *)
Applies(who, item, row) ==
    CASE item.how = "create" -> row = NoRow
      [] item.how \in {"patch", "delete"} -> Owns(who, row)
      [] item.how = "erase" -> Owns(who, row) /\ item.at > row.at
      [] item.how \in {"mark", "upsert"} ->
            row = NoRow \/ (Owns(who, row) /\ item.at > row.at)

Written(who, item) ==
    IF item.how \in {"delete", "erase"} THEN NoRow
    ELSE [owner |-> who, text |-> item.text, at |-> item.at]

Item(q) == desk[q].items[desk[q].next]
Row(q) == RowOf(desk[q].who, Item(q))
Seen(q) == IF Row(q) \in DOMAIN desk[q].mine THEN desk[q].mine[Row(q)] ELSE rows[Row(q)]

(* An insert waits for the row's key; the others for a row that, as it is  *)
(* committed, they would write.                                            *)
Waits(q) ==
    /\ Inserts(Item(q)) \/ Applies(desk[q].who, Item(q), rows[Row(q)])
    /\ \E p \in Requests \ {q} : desk[p] # NoRequest /\ Row(q) \in DOMAIN desk[p].mine

Takes(q, value) ==
    desk' = [desk EXCEPT ![q].next = @ + 1,
                ![q].mine = [r \in DOMAIN @ \cup {Row(q)} |-> IF r = Row(q) THEN value ELSE @[r]]]

Close(q) == desk' = [desk EXCEPT ![q] = NoRequest]
Working(q) == desk[q] # NoRequest /\ desk[q].next <= Len(desk[q].items)

(* A duplicate id fails the call that creates; a conflict that loses still *)
(* locks the row; a row that does not match is left alone.                 *)
Apply(q) ==
    /\ Working(q) /\ ~Waits(q)
    /\ IF Applies(desk[q].who, Item(q), Seen(q)) THEN Takes(q, Written(desk[q].who, Item(q)))
       ELSE IF Item(q).how = "create" THEN Close(q)
       ELSE IF Inserts(Item(q)) THEN Takes(q, Seen(q))
       ELSE desk' = [desk EXCEPT ![q].next = @ + 1]
    /\ UNCHANGED <<serverTime, rows, said, alone, after, begun>>

Marks(q) == {[text |-> i.text, at |-> i.at] :
                i \in {desk[q].items[k] : k \in {j \in DOMAIN desk[q].items :
                                                    desk[q].items[j].how = "mark"}}}

Commit(q) ==
    /\ desk[q] # NoRequest /\ ~Working(q)
    /\ rows' = [r \in RowNames |->
                    IF r \in DOMAIN desk[q].mine THEN desk[q].mine[r] ELSE rows[r]]
    /\ said' = [said EXCEPT ![desk[q].who] = @ \cup Marks(q)]
    /\ alone' = IF rows' = rows THEN alone ELSE {}
    /\ LET taken == {b \in desk[q].batch : b.items = desk[q].items /\ q \in alone}
       IN  after' = [b \in DOMAIN after \cup taken |-> IF b \in taken THEN rows' ELSE after[b]]
    /\ Close(q)
    /\ UNCHANGED <<serverTime, begun>>

(* An error, a broken connection, or PostgreSQL's end to two batches that  *)
(* wait for each other: the deferred Rollback.                             *)
Abort(q) ==
    /\ desk[q] # NoRequest /\ Close(q)
    /\ UNCHANGED <<serverTime, rows, said, alone, after, begun>>

Passes ==
    /\ serverTime < MaxServerTime /\ serverTime' = serverTime + 1
    /\ UNCHANGED <<rows, desk, said, alone, after, begun>>

LearnerNext ==
    \/ \E q \in Requests :
          \/ Push(q) \/ PutProgress(q)
          \/ CreateAnnotation(q) \/ PatchAnnotation(q) \/ DeleteAnnotation(q)
          \/ Apply(q) \/ Commit(q) \/ Abort(q)
    \/ Passes

LearnerSpec == InitLearner /\ [][LearnerNext]_learnerVars

-----------------------------------------------------------------------------
(* Properties.                                                             *)

(* In whatever order the writes of a learner's devices arrive and commit,  *)
(* the mark is the newest of them, and none is from the future, where it   *)
(* would outlast every later one (the guard of upsertProgressSQL and the   *)
(* clamp of Push).                                                         *)
NewestMarkStands ==
    \A u \in Learners :
        /\ rows[u] = NoRow => said[u] = {}
        /\ rows[u] # NoRow =>
              /\ rows[u].at <= serverTime
              /\ [text |-> rows[u].text, at |-> rows[u].at] \in said[u]
              /\ \A s \in said[u] : s.at <= rows[u].at

Ends(q) == desk[q] # NoRequest /\ desk'[q] = NoRequest

(* A batch never changes or removes a note that is newer than what it      *)
(* brings, though it was read before it waited; and nobody changes or      *)
(* removes another learner's note.                                         *)
OlderNeverWins(q) ==
    Ends(q) /\ rows[Note] # NoRow /\ rows'[Note] # rows[Note] =>
        /\ rows[Note].owner = desk[q].who
        /\ desk[q].batch # {} =>
              \E i \in DOMAIN desk[q].items :
                  desk[q].items[i].how # "mark" /\ desk[q].items[i].at > rows[Note].at

Said(r) == IF r = NoRow THEN NoRow ELSE [owner |-> r.owner, text |-> r.text]

(* A batch that comes again, with nothing changed since it was applied,    *)
(* leaves every row saying what it said (PushBatch: "makes retrying an     *)
(* identical batch safe"). A batch from a clock ahead is clamped anew each *)
(* time it comes, and is no identical batch to the statements.             *)
RetryChangesNothing(q) ==
    Ends(q) =>
        \A b \in desk[q].batch :
            b \in DOMAIN after /\ after[b] = rows /\ desk[q].items = b.items =>
                \A r \in RowNames : Said(rows'[r]) = Said(rows[r])

LastWriterWins ==
    /\ []NewestMarkStands
    /\ [][\A q \in Requests : OlderNeverWins(q) /\ RetryChangesNothing(q)]_learnerVars

=============================================================================
