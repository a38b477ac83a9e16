--------------------------- MODULE OptimisticRows ---------------------------
(***************************************************************************)
(* Rows kept on the server and mirrored by one TanStack Query entry, which *)
(* every write patches before the server answers: the checkboxes of        *)
(* progress/useProgress.ts and the notes of annotations/useAnnotations.ts. *)
(* A write cancels the load in flight, keeps the rows it found, patches    *)
(* them, and asks the server; a failure puts back the rows the write had   *)
(* found, whatever was written since; either way the rows are then loaded  *)
(* again. Writes are not queued: their requests run side by side.          *)
(*                                                                         *)
(* A request that failed for the client was taken before, or never is.     *)
(***************************************************************************)
EXTENDS Naturals, FiniteSets

CONSTANTS
    Rows, Values,
    Gone,           \* no such row
    Unloaded,       \* the entry's data is undefined
    MaxWrites       \* bound: writes begun

ASSUME RowsAssumption ==
    /\ Gone \notin Values /\ MaxWrites \in Nat
    /\ Unloaded \notin [Rows -> Values \cup {Gone}]

VARIABLES
    server,         \* the rows the server holds
    rows,           \* the entry's data
    load,           \* the GET in flight, and what the server read for it
    stale,          \* the last load failed
    writes,         \* writes without an answer yet
    begun           \* how many writes began

rowVars == <<server, rows, load, stale, writes, begun>>

Table == [Rows -> Values \cup {Gone}]
NoRows == [r \in Rows |-> Gone]
Idle == [at |-> "idle", seen |-> NoRows]
Asked == [at |-> "asked", seen |-> NoRows]

InitRows(initial) ==
    /\ server = initial
    /\ rows = Unloaded /\ load = Asked /\ stale = FALSE
    /\ writes = {} /\ begun = 0

-----------------------------------------------------------------------------
(* GET: on mount, on focus, and after every write.                         *)

StartLoad ==
    /\ load = Idle
    /\ load' = Asked
    /\ writes' = {[w EXCEPT !.alone = FALSE] : w \in writes}
    /\ UNCHANGED <<server, rows, stale, begun>>

ReadLoad ==
    /\ load.at = "asked"
    /\ load' = [at |-> "read", seen |-> server]
    /\ UNCHANGED <<server, rows, stale, writes, begun>>

AnswerLoad ==
    /\ load.at = "read"
    /\ rows' = load.seen /\ stale' = FALSE
    /\ load' = Idle
    /\ UNCHANGED <<server, writes, begun>>

(* An error, or a body assertProgress or assertAnnotations refuses. *)
FailLoad ==
    /\ load # Idle
    /\ load' = Idle /\ stale' = TRUE
    /\ UNCHANGED <<server, rows, writes, begun>>

-----------------------------------------------------------------------------
(* useMutation.                                                            *)

(* upsertOptimistic and applyOptimistic. *)
Patched(table, w) ==
    CASE w.kind \in {"put", "create"} -> [table EXCEPT ![w.row] = w.value]
      [] w.kind = "update" ->
            [table EXCEPT ![w.row] = IF @ = Gone THEN Gone ELSE w.value]
      [] w.kind = "remove" -> [table EXCEPT ![w.row] = Gone]

Held == IF rows = Unloaded THEN NoRows ELSE rows

Begin(w) ==
    /\ begun < MaxWrites /\ begun' = begun + 1
    /\ writes' = {[v EXCEPT !.alone = @ /\ v.row # w.row] : v \in writes}
                     \cup {[kind |-> w.kind, row |-> w.row, value |-> w.value,
                            by |-> w.by, n |-> begun + 1, previous |-> rows,
                            stage |-> "sent", alone |-> TRUE]}
    /\ rows' = Patched(Held, w)
    /\ UNCHANGED <<server, stale>>

(* Mutant: the load in flight is left to answer. *)
BeginWithoutCancel(w) == Begin(w) /\ UNCHANGED load

(* onMutate. w says what is written, and from where: kind, row, value, by. *)
BeginWrite(w) == Begin(w) /\ load' = Idle

(* The server takes the write, or finds the row there (409) or not (404). *)
ServerTakes(w) ==
    /\ w \in writes /\ w.stage = "sent"
    /\ LET possible ==
               CASE w.kind = "put" -> TRUE
                 [] w.kind = "create" -> server[w.row] = Gone
                 [] w.kind \in {"update", "remove"} -> server[w.row] # Gone
       IN  /\ server' = IF possible THEN Patched(server, w) ELSE server
           /\ writes' = (writes \ {w}) \cup
                  {[w EXCEPT !.stage = IF possible THEN "taken" ELSE "failed"]}
    /\ UNCHANGED <<rows, load, stale, begun>>

(* The request or its answer is lost. *)
LoseWrite(w) ==
    /\ w \in writes /\ w.stage \in {"sent", "taken"}
    /\ writes' = (writes \ {w}) \cup {[w EXCEPT !.stage = "failed"]}
    /\ UNCHANGED <<server, rows, load, stale, begun>>

(* Mutant: only a success loads the rows again. *)
SettleOnSuccess(w) ==
    /\ w \in writes /\ w.stage \in {"taken", "failed"}
    /\ writes' = {[v EXCEPT !.alone = FALSE] : v \in writes \ {w}}
    /\ rows' = IF w.stage = "failed" /\ w.previous # Unloaded THEN w.previous ELSE rows
    /\ load' = IF w.stage = "taken" THEN Asked ELSE load
    /\ UNCHANGED <<server, stale, begun>>

(* onError and onSettled: back to the rows it found, and load again in     *)
(* place of any load in flight.                                            *)
SettleWrite(w) ==
    /\ w \in writes /\ w.stage \in {"taken", "failed"}
    /\ writes' = {[v EXCEPT !.alone = FALSE] : v \in writes \ {w}}
    /\ rows' = IF w.stage = "failed" /\ w.previous # Unloaded THEN w.previous ELSE rows
    /\ load' = Asked
    /\ UNCHANGED <<server, stale, begun>>

RowsStep ==
    \/ StartLoad \/ ReadLoad \/ AnswerLoad \/ FailLoad
    \/ \E w \in writes : ServerTakes(w) \/ LoseWrite(w)

-----------------------------------------------------------------------------
(* progress/useProgress.ts: a row is a checkbox of a chapter or exercise,  *)
(* its values "on" and "off".                                              *)

(* isRead and exDone, from the entry as it is at the tap. *)
Ticked(r) == rows # Unloaded /\ rows[r] = "on"

Toggle(r) ==
    BeginWrite([kind |-> "put", row |-> r,
                value |-> IF Ticked(r) THEN "off" ELSE "on", by |-> "tap"])

ProgressNext ==
    \/ RowsStep
    \/ \E r \in Rows : Toggle(r)
    \/ \E w \in writes : SettleWrite(w)

ProgressSpec == InitRows(NoRows) /\ [][ProgressNext]_rowVars

-----------------------------------------------------------------------------
Write ==
    [kind : {"put", "create", "update", "remove"}, row : Rows, value : Values,
     by : {"tap", "card", "stash", "toolbar", "rescue"}, n : 1 .. MaxWrites, previous : Table \cup {Unloaded},
     stage : {"sent", "taken", "failed"}, alone : BOOLEAN]

RowsTypeOK ==
    /\ server \in Table
    /\ rows \in Table \cup {Unloaded}
    /\ load \in [at : {"idle", "asked", "read"}, seen : Table]
    /\ stale \in BOOLEAN
    /\ writes \subseteq Write
    /\ begun \in 0 .. MaxWrites

(* With no write and no load under way, and the last load good, what is    *)
(* shown is what the server holds, however writes overlapped, failed,      *)
(* rolled each other back, or had been taken although they failed.         *)
QuietMirror ==
    writes = {} /\ load = Idle /\ ~stale /\ rows # Unloaded => rows = server

(* A load that was under way when the learner tapped does not undo what    *)
(* the tap shows; nothing but a write that settles, a later tap on the     *)
(* same row or a load begun since may.                                     *)
TapNotOverwritten ==
    \A w \in writes : w.alone =>
        /\ rows # Unloaded
        /\ rows[w.row] = IF w.kind = "remove" THEN Gone ELSE w.value

=============================================================================
