-------------------------- MODULE AnnotationProofs --------------------------
(***************************************************************************)
(* The rows a page mirrors before the server has answered, the notes it    *)
(* paints from them, and the selection that acts on both.                  *)
(***************************************************************************)
EXTENDS NoteSurface, NotePlacement, TLAPS

(***************************************************************************)
(* Proofs about the optimistic rows, for any rows, values and number of    *)
(* writes: with nothing under way the mirror shows the server's rows, and  *)
(* a tap's row is not overwritten by a load older than the tap.            *)
(***************************************************************************)
(* While no write is under way, what a load has read is what the server    *)
(* holds. A load that read before a write settled is replaced as it does.  *)
LoadIsFresh == writes = {} /\ load.at = "read" => load.seen = server

(* A tap that stands alone has no load beside it: it cancelled the one     *)
(* under way, and every later load takes its standing from it.             *)
AloneUnloaded == \A w \in writes : w.alone => load = Idle

(* Every write is of a kind that shows its value, as a checkbox's is.      *)
AllPuts == \A w \in writes : w.kind = "put"

RowsInv == RowsTypeOK /\ LoadIsFresh /\ QuietMirror
                      /\ AllPuts /\ AloneUnloaded /\ TapNotOverwritten

(* What useProgress mirrors: the values of a checkbox. *)
OnOff == {"on", "off"} \subseteq Values

-----------------------------------------------------------------------------
(* Patching a table with one write gives a table.                          *)
LEMMA PatchedIsTable ==
    ASSUME NEW table \in Table, NEW w,
           w.kind \in {"put", "create", "update", "remove"}, w.value \in Values
    PROVE  Patched(table, w) \in Table
BY DEF Patched, Table

(* A table that "put" patched shows the value in its row, and is as it was *)
(* in every other row.                                                     *)
LEMMA PutPatches ==
    ASSUME NEW table \in Table, NEW w, w.kind = "put", w.row \in Rows
    PROVE  /\ Patched(table, w)[w.row] = w.value
           /\ \A r \in Rows : r # w.row => Patched(table, w)[r] = table[r]
BY DEF Patched, Table

(* What is held is a table, and no table is "no data".                     *)
LEMMA HeldIsTable ==
    ASSUME RowsTypeOK
    PROVE  NoRows \in Table /\ Held \in Table /\ Unloaded \notin Table
BY RowsAssumption DEF RowsTypeOK, Held, NoRows, Table

LEMMA InitInv == InitRows(NoRows) => RowsInv
<1> SUFFICES ASSUME InitRows(NoRows) PROVE RowsInv OBVIOUS
<1> USE DEF InitRows
<1>1. NoRows \in Table BY DEF NoRows, Table
<1>2. RowsTypeOK
  <2>1. Asked \in [at : {"idle", "asked", "read"}, seen : Table]
    BY <1>1 DEF Asked
  <2>2. begun \in 0 .. MaxWrites BY RowsAssumption
  <2> QED BY <1>1, <2>1, <2>2 DEF RowsTypeOK
<1>3. LoadIsFresh BY DEF LoadIsFresh, Asked
<1> QED
  BY <1>2, <1>3 DEF RowsInv, QuietMirror, AloneUnloaded, AllPuts, TapNotOverwritten

-----------------------------------------------------------------------------
(* The steps of a load keep the invariant.                                 *)
LEMMA LoadSteps ==
    ASSUME RowsInv, StartLoad \/ ReadLoad \/ AnswerLoad \/ FailLoad
    PROVE  RowsInv'
<1> USE DEF RowsInv
<1> NoRows \in Table /\ Idle \in [at : {"idle", "asked", "read"}, seen : Table]
    /\ Asked \in [at : {"idle", "asked", "read"}, seen : Table]
  BY HeldIsTable DEF Idle, Asked
<1>1. CASE StartLoad
  <2> USE <1>1 DEF StartLoad
  <2>0. writes \subseteq Write BY DEF RowsTypeOK
  <2>1. \A w \in Write : [w EXCEPT !.alone = FALSE] \in Write
    BY DEF Write
  <2>2. RowsTypeOK'
    <3>1. writes' \subseteq Write BY <2>0, <2>1
    <3> QED BY <3>1 DEF RowsTypeOK
  <2>3. \A w \in writes' : ~w.alone /\ w.kind = "put"
    BY DEF RowsTypeOK, Write, AllPuts
  <2>4. LoadIsFresh' BY DEF LoadIsFresh, Asked
  <2>5. QuietMirror' BY DEF QuietMirror, Asked, Idle
  <2> QED BY <2>2, <2>3, <2>4, <2>5 DEF AllPuts, AloneUnloaded, TapNotOverwritten
<1>2. CASE ReadLoad
  <2> USE <1>2 DEF ReadLoad
  <2>1. RowsTypeOK' BY DEF RowsTypeOK
  <2>2. \A w \in writes : ~w.alone BY DEF AloneUnloaded, Idle
  <2>3. QuietMirror' BY DEF QuietMirror, Idle
  <2> QED
    BY <2>1, <2>2, <2>3 DEF LoadIsFresh, AllPuts, AloneUnloaded, TapNotOverwritten
<1>3. CASE AnswerLoad
  <2> USE <1>3 DEF AnswerLoad
  <2>1. RowsTypeOK' BY DEF RowsTypeOK
  <2>2. \A w \in writes : ~w.alone BY DEF AloneUnloaded, Idle
  <2>3. QuietMirror' /\ LoadIsFresh' BY DEF QuietMirror, LoadIsFresh, Idle
  <2> QED
    BY <2>1, <2>2, <2>3 DEF AllPuts, AloneUnloaded, TapNotOverwritten
<1>4. CASE FailLoad
  BY <1>4 DEF FailLoad, RowsTypeOK, QuietMirror, LoadIsFresh, Idle,
     AllPuts, AloneUnloaded, TapNotOverwritten
<1> QED BY <1>1, <1>2, <1>3, <1>4

(* A tap keeps it: it cancels the load, and of the writes under way those  *)
(* of its row no longer stand alone.                                       *)
LEMMA ToggleStep ==
    ASSUME RowsInv, OnOff, NEW r \in Rows, Toggle(r)
    PROVE  RowsInv'
<1> USE DEF RowsInv
<1> DEFINE val == IF Ticked(r) THEN "off" ELSE "on"
           tap == [kind |-> "put", row |-> r, value |-> val, by |-> "tap"]
           new == [kind |-> "put", row |-> r, value |-> val, by |-> "tap",
                   n |-> begun + 1, previous |-> rows, stage |-> "sent",
                   alone |-> TRUE]
           Aside(v) == [v EXCEPT !.alone = @ /\ v.row # r]
<1>1. /\ begun < MaxWrites /\ begun' = begun + 1
      /\ writes' = {Aside(v) : v \in writes} \cup {new}
      /\ rows' = Patched(Held, tap)
      /\ server' = server /\ stale' = stale /\ load' = Idle
  BY DEF Toggle, BeginWrite, Begin
<1>2. val \in Values BY DEF OnOff
<1> HIDE DEF val
<1>3. rows' \in Table /\ rows' # Unloaded
      /\ Idle \in [at : {"idle", "asked", "read"}, seen : Table]
  BY <1>1, <1>2, HeldIsTable, PatchedIsTable DEF Idle
<1>4. rows'[r] = val /\ \A q \in Rows : q # r => rows'[q] = Held[q]
  BY <1>1, HeldIsTable, PutPatches
<1>5. new \in Write
  BY <1>1, <1>2, RowsAssumption DEF RowsTypeOK, Write
<1>6. \A v \in writes :
          /\ Aside(v) \in Write /\ Aside(v).kind = "put"
          /\ Aside(v).row = v.row /\ Aside(v).value = v.value
          /\ Aside(v).alone => v.alone /\ v.row # r
  BY DEF RowsTypeOK, Write, AllPuts
<1>61. new.kind = "put" /\ new.row = r /\ new.value = val OBVIOUS
<1>62. \A w \in writes' : w = new \/ \E v \in writes : w = Aside(v) BY <1>1
<1>63. writes' # {} BY <1>1
<1> HIDE DEF new, Aside
<1>7. RowsTypeOK'
  <2>1. writes' \subseteq Write BY <1>5, <1>6, <1>62
  <2> QED BY <2>1, <1>1, <1>3, RowsAssumption DEF RowsTypeOK
<1>8. TapNotOverwritten'
  <2> SUFFICES ASSUME NEW w \in writes', w.alone
               PROVE  rows' # Unloaded /\ rows'[w.row] =
                          IF w.kind = "remove" THEN Gone ELSE w.value
    BY DEF TapNotOverwritten
  <2>1. CASE w = new BY <2>1, <1>3, <1>4, <1>61
  <2>2. CASE \E v \in writes : w = Aside(v)
    <3> PICK v \in writes : w = Aside(v) BY <2>2
    <3>1. rows # Unloaded /\ rows[v.row] = v.value /\ v.row \in Rows /\ v.row # r
      BY <1>6 DEF TapNotOverwritten, AllPuts, RowsTypeOK, Write
    <3> QED BY <3>1, <1>3, <1>4, <1>6 DEF Held
  <2> QED BY <1>62, <2>1, <2>2
<1>9. AllPuts' BY <1>6, <1>61, <1>62 DEF AllPuts
<1>10. AloneUnloaded' BY <1>1 DEF AloneUnloaded
<1>11. LoadIsFresh' /\ QuietMirror' BY <1>63 DEF LoadIsFresh, QuietMirror
<1> QED BY <1>7, <1>8, <1>9, <1>10, <1>11

(* What happens to a request on its way changes nothing that is shown.     *)
LEMMA RequestSteps ==
    ASSUME RowsInv, NEW w \in writes, ServerTakes(w) \/ LoseWrite(w)
    PROVE  RowsInv'
<1> USE DEF RowsInv
<1>1. PICK s \in {"taken", "failed"} :
          writes' = (writes \ {w}) \cup {[w EXCEPT !.stage = s]}
  BY DEF ServerTakes, LoseWrite
<1>2. rows' = rows /\ load' = load /\ stale' = stale /\ begun' = begun
  BY DEF ServerTakes, LoseWrite
<1>3. server' \in Table
  <2>1. w.kind \in {"put", "create", "update", "remove"} /\ w.value \in Values
    BY DEF RowsTypeOK, Write
  <2>2. server \in Table /\ Patched(server, w) \in Table
    BY <2>1, PatchedIsTable DEF RowsTypeOK
  <2>3. server' \in {server, Patched(server, w)} BY DEF ServerTakes, LoseWrite
  <2> QED BY <2>2, <2>3
<1> DEFINE v == [w EXCEPT !.stage = s]
<1>4. /\ v \in Write /\ v.kind = w.kind /\ v.row = w.row
      /\ v.value = w.value /\ v.alone = w.alone
  BY DEF RowsTypeOK, Write
<1>5. RowsTypeOK' BY <1>1, <1>2, <1>3, <1>4 DEF RowsTypeOK
<1>6. writes' # {} BY <1>1
<1>7. \A u \in writes' : u \in writes \/ u = v BY <1>1
<1> HIDE DEF v
<1> QED
  BY <1>2, <1>4, <1>5, <1>6, <1>7
  DEF LoadIsFresh, QuietMirror, AllPuts, AloneUnloaded, TapNotOverwritten

(* A write that settles takes every standing and asks for a new load.      *)
LEMMA SettleStep ==
    ASSUME RowsInv, NEW w \in writes, SettleWrite(w)
    PROVE  RowsInv'
<1> USE DEF RowsInv, SettleWrite
<1>1. ASSUME NEW v \in writes
      PROVE  /\ [v EXCEPT !.alone = FALSE] \in Write
             /\ [v EXCEPT !.alone = FALSE].kind = "put" /\ ~[v EXCEPT !.alone = FALSE].alone
  <2>1. v \in Write /\ v.kind = "put" BY DEF RowsTypeOK, AllPuts
  <2> QED BY <2>1 DEF Write
<1>2. \A v \in writes' : v \in Write /\ v.kind = "put" /\ ~v.alone BY <1>1
<1>3. rows' \in Table \cup {Unloaded} BY DEF RowsTypeOK, Write
<1>4. Asked \in [at : {"idle", "asked", "read"}, seen : Table] /\ Asked # Idle
      /\ Asked.at # "read"
  BY HeldIsTable DEF Asked, Idle
<1> QED
  BY <1>2, <1>3, <1>4
  DEF RowsTypeOK, LoadIsFresh, QuietMirror, AllPuts, AloneUnloaded, TapNotOverwritten

LEMMA StepKeepsInv == ASSUME OnOff, RowsInv, [ProgressNext]_rowVars PROVE RowsInv'
<1>1. CASE RowsStep BY <1>1, LoadSteps, RequestSteps DEF RowsStep
<1>2. CASE \E r \in Rows : Toggle(r) BY <1>2, ToggleStep
<1>3. CASE \E w \in writes : SettleWrite(w) BY <1>3, SettleStep
<1>4. CASE UNCHANGED rowVars
  BY <1>4 DEF rowVars, RowsInv, RowsTypeOK, LoadIsFresh, QuietMirror, AllPuts,
     AloneUnloaded, TapNotOverwritten
<1> QED BY <1>1, <1>2, <1>3, <1>4 DEF ProgressNext

-----------------------------------------------------------------------------
LEMMA RowsInvariant == ASSUME OnOff PROVE ProgressSpec => []RowsInv
BY InitInv, StepKeepsInv, PTL DEF ProgressSpec

(* The mirror, the load and the writes under way keep their types in every *)
(* behaviour of a checkbox (useProgress.ts).                               *)
THEOREM RowsTypeCorrect == ASSUME OnOff PROVE ProgressSpec => []RowsTypeOK
BY RowsInvariant, PTL DEF RowsInv

(* However taps overlap, fail and roll each other back, once nothing is    *)
(* under way and the last load was good the boxes are the server's.        *)
THEOREM QuietMirrorHolds == ASSUME OnOff PROVE ProgressSpec => []QuietMirror
BY RowsInvariant, PTL DEF RowsInv

(* A tap is not undone by a load that was under way when it was made.      *)
THEOREM TapsStand == ASSUME OnOff PROVE ProgressSpec => []TapNotOverwritten
BY RowsInvariant, PTL DEF RowsInv

-----------------------------------------------------------------------------
(***************************************************************************)
(* The placement of notes, for every set of notes and anchors, every       *)
(* content and any number of renders: PlacementSpec keeps NoNoteAbandoned  *)
(* and PaintedOnce. The inductive invariant ties the three things the hook *)
(* keeps by hand - what was tried, what is painted, what is published - to *)
(* the rows and the content.                                               *)
(***************************************************************************)
Attempt == [on : Anchors \cup {Missing}, stage : Stages, placed : BOOLEAN]
Content == [Anchors -> {"exact", "fuzzy", "nowhere"}]
RowAnchors == [Notes -> Anchors \cup {Missing}]

(* What was tried tells the truth about the content: nothing is tried      *)
(* without a row, and what is settled was placed iff the content holds it. *)
Truthful(as, f) ==
    \A n \in Notes :
        /\ as[n].on = Missing <=> as[n].stage = "new"
        /\ as[n].placed => as[n].stage = "settled"
        /\ as[n].stage = "settled" => (as[n].placed <=> f[as[n].on] # "nowhere")

(* The page carries one layer for each note that was placed. *)
Painted(as, laid) == laid = [n \in Notes |-> IF as[n].placed THEN 1 ELSE 0]

PlacementInv ==
    /\ anchors \in RowAnchors
    /\ found \in Content
    /\ attempts \in [Notes -> Attempt]
    /\ \A n \in Notes : attempts[n].on = anchors[n]
    /\ Truthful(attempts, found)
    /\ Painted(attempts, marks)
    /\ placements = Published(attempts)
    /\ scheduled = (AtStage(attempts, "fuzzy-pending") # {})
    /\ threw = FALSE

-----------------------------------------------------------------------------
(* A batch of notes that have a row and are not settled is resolved: every *)
(* one of them truthfully, the page and what is published with it; and no  *)
(* spoilt map is used.                                                     *)
LEMMA BatchResolved ==
    ASSUME NEW as \in [Notes -> Attempt], NEW m, NEW laid, NEW f \in Content,
           NEW batch \in SUBSET Notes, NEW fuzzy \in BOOLEAN,
           Painted(as, laid), threw = FALSE,
           \A n \in batch : as[n].on \in Anchors /\ ~as[n].placed,
           \A n \in Notes \ batch :
               /\ as[n].on = Missing <=> as[n].stage = "new"
               /\ as[n].placed => as[n].stage = "settled"
               /\ as[n].stage = "settled" => (as[n].placed <=> f[as[n].on] # "nowhere"),
           ResolveBatch(as, m, laid, f, batch, fuzzy)
    PROVE  /\ attempts' \in [Notes -> Attempt]
           /\ \A n \in Notes : attempts'[n].on = as[n].on
           /\ Truthful(attempts', f)
           /\ Painted(attempts', marks')
           /\ placements' = Published(attempts')
           /\ threw' = FALSE
<1> DEFINE hits == {n \in batch : attempts'[n].placed}
<1>1. /\ attempts' = Resolved(as, f, batch, fuzzy)
      /\ marks' = [n \in Notes |-> IF n \in hits THEN laid[n] + 1 ELSE laid[n]]
      /\ placements' = Published(attempts')
      /\ threw' = FALSE
  BY DEF ResolveBatch, MapOf
<1>2. \A n \in Notes \ batch : attempts'[n] = as[n]
  BY <1>1 DEF Resolved
<1>3. ASSUME NEW n \in batch
      PROVE  /\ attempts'[n] \in Attempt
             /\ attempts'[n].on = as[n].on
             /\ attempts'[n].stage = IF Hit(f, as[n].on, fuzzy) \/ fuzzy
                                     THEN "settled" ELSE "fuzzy-pending"
             /\ attempts'[n].placed = Hit(f, as[n].on, fuzzy)
  <2>1. as[n] \in Attempt /\ n \in Notes /\ ~as[n].placed
    OBVIOUS
  <2>2. CASE Hit(f, as[n].on, fuzzy)
    <3>1. attempts'[n] = [as[n] EXCEPT !.stage = "settled", !.placed = TRUE]
      BY <1>1, <2>1, <2>2 DEF Resolved
    <3> QED BY <2>1, <2>2, <3>1 DEF Attempt, Stages
  <2>3. CASE ~Hit(f, as[n].on, fuzzy)
    <3>1. attempts'[n] = [as[n] EXCEPT !.stage = IF fuzzy THEN "settled" ELSE "fuzzy-pending"]
      BY <1>1, <2>1, <2>3 DEF Resolved
    <3>2. Hit(f, as[n].on, fuzzy) \in BOOLEAN
      BY DEF Hit
    <3> QED BY <2>1, <2>3, <3>1, <3>2 DEF Attempt, Stages
  <2> QED BY <2>2, <2>3
<1>4. attempts' \in [Notes -> Attempt]
  BY <1>1, <1>2, <1>3 DEF Resolved
<1>5. \A n \in Notes : attempts'[n].on = as[n].on
  BY <1>2, <1>3
<1>6. Truthful(attempts', f)
  <2> SUFFICES ASSUME NEW n \in Notes
               PROVE  /\ attempts'[n].on = Missing <=> attempts'[n].stage = "new"
                      /\ attempts'[n].placed => attempts'[n].stage = "settled"
                      /\ attempts'[n].stage = "settled" =>
                            (attempts'[n].placed <=> f[attempts'[n].on] # "nowhere")
    BY DEF Truthful
  <2>1. CASE n \in batch
    <3>1. as[n].on \in Anchors /\ as[n].on # Missing
      BY <2>1, PlacementAssumption
    <3>2. f[as[n].on] \in {"exact", "fuzzy", "nowhere"}
      BY <3>1 DEF Content
    <3> QED BY <1>3, <2>1, <3>1, <3>2 DEF Hit
  <2>2. CASE n \notin batch
    BY <1>2, <2>2
  <2> QED BY <2>1, <2>2
<1>7. Painted(attempts', marks')
  <2>1. ASSUME NEW n \in Notes
        PROVE  (IF n \in hits THEN laid[n] + 1 ELSE laid[n])
                   = IF attempts'[n].placed THEN 1 ELSE 0
    <3>1. CASE n \in batch
      <4>1. laid[n] = 0
        BY <3>1 DEF Painted
      <4>2. laid[n] + 1 = 1
        BY <4>1
      <4>3. n \in hits <=> attempts'[n].placed
        BY <3>1
      <4> HIDE DEF hits
      <4> QED BY <4>1, <4>2, <4>3
    <3>2. CASE n \notin batch
      BY <1>2, <3>2 DEF Painted
    <3> QED BY <3>1, <3>2
  <2> QED BY <1>1, <2>1 DEF Painted
<1> QED BY <1>1, <1>4, <1>5, <1>6, <1>7

-----------------------------------------------------------------------------
(* The effect, run after anything that told the truth, leaves every note   *)
(* of the new rows tried on its own anchor.                                *)
LEMMA EffectKeeps ==
    ASSUME NEW as \in [Notes -> Attempt], NEW m, NEW laid,
           NEW news \in RowAnchors, NEW f \in Content,
           Truthful(as, f), Painted(as, laid), threw = FALSE,
           Effect(as, m, laid, news, f)
    PROVE  /\ attempts' \in [Notes -> Attempt]
           /\ \A n \in Notes : attempts'[n].on = news[n]
           /\ Truthful(attempts', f)
           /\ Painted(attempts', marks')
           /\ placements' = Published(attempts')
           /\ scheduled' = (AtStage(attempts', "fuzzy-pending") # {})
           /\ threw' = FALSE
<1> DEFINE retry == [n \in Notes |->
               IF as[n].on = news[n] THEN as[n] ELSE [NoAttempt EXCEPT !.on = news[n]]]
           left == Unpainted(as, laid, news)
           batch == AtStage(retry, "new")
           kept == IF left # laid THEN "none" ELSE m
<1>1. /\ ResolveBatch(retry, kept, left, f, batch, FALSE)
      /\ scheduled' = (AtStage(attempts', "fuzzy-pending") # {})
  BY DEF Effect
<1>2. \A n \in Notes : /\ news[n] \in Anchors \cup {Missing}
                       /\ as[n] \in Attempt
  BY DEF RowAnchors
<1>3. ASSUME NEW n \in Notes, as[n].on # news[n]
      PROVE  retry[n] = [on |-> news[n], stage |-> "new", placed |-> FALSE]
  BY <1>3 DEF NoAttempt
<1>4. retry \in [Notes -> Attempt]
  <2>1. ASSUME NEW n \in Notes PROVE retry[n] \in Attempt
    <3>1. CASE as[n].on = news[n]
      BY <1>2, <3>1
    <3>2. CASE as[n].on # news[n]
      <4>1. retry[n] = [on |-> news[n], stage |-> "new", placed |-> FALSE]
        BY <1>3, <3>2
      <4>2. [on |-> news[n], stage |-> "new", placed |-> FALSE] \in Attempt
        BY <1>2 DEF Attempt, Stages
      <4> QED BY <4>1, <4>2 DEF NoAttempt
    <3> QED BY <3>1, <3>2
  <2> HIDE DEF batch
  <2> QED BY <2>1
<1>5. \A n \in Notes : retry[n].on = news[n]
  BY <1>3
<1>6. \A n \in batch : retry[n].on \in Anchors /\ ~retry[n].placed
  <2> SUFFICES ASSUME NEW n \in batch
               PROVE  retry[n].on \in Anchors /\ ~retry[n].placed
    OBVIOUS
  <2>1. n \in Notes /\ retry[n].on # Missing /\ retry[n].stage = "new"
    BY DEF AtStage
  <2>2. retry[n].on \in Anchors
    BY <1>2, <1>5, <2>1
  <2>3. CASE as[n].on = news[n]
    BY <2>1, <2>3 DEF Truthful
  <2>4. CASE as[n].on # news[n]
    <3>1. retry[n] = [on |-> news[n], stage |-> "new", placed |-> FALSE]
      BY <1>3, <2>1, <2>4
    <3> HIDE DEF retry
    <3> QED BY <2>2, <3>1
  <2> QED BY <2>2, <2>3, <2>4
<1>7. \A n \in Notes \ batch :
          /\ retry[n].on = Missing <=> retry[n].stage = "new"
          /\ retry[n].placed => retry[n].stage = "settled"
          /\ retry[n].stage = "settled" => (retry[n].placed <=> f[retry[n].on] # "nowhere")
  <2> SUFFICES ASSUME NEW n \in Notes, n \notin batch
               PROVE  /\ retry[n].on = Missing <=> retry[n].stage = "new"
                      /\ retry[n].placed => retry[n].stage = "settled"
                      /\ retry[n].stage = "settled" =>
                            (retry[n].placed <=> f[retry[n].on] # "nowhere")
    OBVIOUS
  <2>1. CASE as[n].on = news[n]
    BY <2>1 DEF Truthful
  <2>2. CASE as[n].on # news[n]
    BY <1>3, <2>2 DEF AtStage
  <2> QED BY <2>1, <2>2
<1>8. Painted(retry, left)
  <2>1. ASSUME NEW n \in Notes
        PROVE  left[n] = IF retry[n].placed THEN 1 ELSE 0
    <3>1. laid[n] = IF as[n].placed THEN 1 ELSE 0
      BY DEF Painted
    <3>2. CASE as[n].on = news[n]
      BY <3>1, <3>2 DEF Unpainted
    <3>3. CASE as[n].on # news[n]
      <4>1. as[n].on = Missing => ~as[n].placed
        BY DEF Truthful
      <4> QED BY <1>3, <3>1, <3>3, <4>1 DEF Unpainted
    <3> QED BY <3>2, <3>3
  <2> QED BY <2>1 DEF Painted, Unpainted
<1>9. batch \in SUBSET Notes
  BY DEF AtStage
<1> HIDE DEF retry, left, batch, kept
<1> QED BY <1>1, <1>4, <1>5, <1>6, <1>7, <1>8, <1>9, BatchResolved

-----------------------------------------------------------------------------
LEMMA InitPlaces == InitPlacement => PlacementInv
<1> SUFFICES ASSUME InitPlacement PROVE PlacementInv
  OBVIOUS
<1>1. \A n \in Notes : /\ attempts[n] = NoAttempt /\ attempts[n] \in Attempt
                       /\ anchors[n] = Missing /\ marks[n] = 0
  BY DEF InitPlacement, NoAttempt, Attempt, Stages
<1>2. attempts \in [Notes -> Attempt] /\ anchors \in RowAnchors /\ found \in Content
  BY <1>1 DEF InitPlacement, RowAnchors, Content
<1>3. Truthful(attempts, found) /\ \A n \in Notes : attempts[n].on = anchors[n]
  BY <1>1 DEF Truthful, NoAttempt
<1>4. Painted(attempts, marks)
  BY <1>1 DEF InitPlacement, Painted, NoAttempt
<1>5. AtStage(attempts, "fuzzy-pending") = {}
  BY <1>1 DEF AtStage, NoAttempt
<1> QED BY <1>2, <1>3, <1>4, <1>5 DEF PlacementInv, InitPlacement

LEMMA NextPlaces == PlacementInv /\ [PlacementNext]_placementVars => PlacementInv'
<1> SUFFICES ASSUME PlacementInv, [PlacementNext]_placementVars PROVE PlacementInv'
  OBVIOUS
<1>1. ASSUME NEW news \in [Notes -> Anchors \cup {Missing}], RowsRender(news)
      PROVE  PlacementInv'
  <2>1. /\ Effect(attempts, map, marks, news, found)
        /\ anchors' = news /\ found' = found /\ news \in RowAnchors
    BY <1>1 DEF RowsRender, RowAnchors
  <2> QED BY <2>1, EffectKeeps DEF PlacementInv
<1>2. ASSUME NEW f \in [Anchors -> {"exact", "fuzzy", "nowhere"}], ContentRender(f)
      PROVE  PlacementInv'
  <2> DEFINE as == [n \in Notes |-> NoAttempt]
             laid == [n \in Notes |-> 0]
  <2>1. /\ Effect(as, "none", laid, anchors, f)
        /\ anchors' = anchors /\ found' = f /\ f \in Content
    BY <1>2 DEF ContentRender, Content
  <2>2. \A n \in Notes : as[n] = NoAttempt /\ NoAttempt \in Attempt
    BY DEF NoAttempt, Attempt, Stages
  <2>3. as \in [Notes -> Attempt]
    BY <2>2
  <2>4. Truthful(as, f) /\ Painted(as, laid)
    BY DEF Truthful, Painted, NoAttempt
  <2> HIDE DEF as, laid
  <2> QED BY <2>1, <2>3, <2>4, EffectKeeps DEF PlacementInv
<1>3. ASSUME Step PROVE PlacementInv'
  <2>1. PICK chunk \in SUBSET AtStage(attempts, "fuzzy-pending") :
            ResolveBatch(attempts, map, marks, found, chunk, TRUE)
    BY <1>3 DEF Step
  <2>2. /\ scheduled' = (AtStage(attempts', "fuzzy-pending") # {})
        /\ anchors' = anchors /\ found' = found
    BY <1>3 DEF Step
  <2>3. \A n \in chunk : /\ n \in Notes /\ attempts[n].on # Missing
                         /\ attempts[n].stage = "fuzzy-pending"
    BY DEF AtStage
  <2>4. chunk \in SUBSET Notes
    BY <2>3
  <2>5. \A n \in chunk : attempts[n].on \in Anchors /\ ~attempts[n].placed
    BY <2>3 DEF PlacementInv, Truthful, Attempt
  <2>6. /\ attempts \in [Notes -> Attempt] /\ found \in Content
        /\ Painted(attempts, marks) /\ threw = FALSE
        /\ \A n \in Notes \ chunk :
               /\ attempts[n].on = Missing <=> attempts[n].stage = "new"
               /\ attempts[n].placed => attempts[n].stage = "settled"
               /\ attempts[n].stage = "settled" =>
                     (attempts[n].placed <=> found[attempts[n].on] # "nowhere")
    BY DEF PlacementInv, Truthful
  <2>7. /\ attempts' \in [Notes -> Attempt]
        /\ \A n \in Notes : attempts'[n].on = attempts[n].on
        /\ Truthful(attempts', found) /\ Painted(attempts', marks')
        /\ placements' = Published(attempts') /\ threw' = FALSE
    BY <2>1, <2>4, <2>5, <2>6, BatchResolved
  <2> QED BY <2>2, <2>7 DEF PlacementInv
<1>4. CASE PaintElsewhere
  BY <1>4 DEF PaintElsewhere, PlacementInv
<1>5. CASE UNCHANGED placementVars
  BY <1>5 DEF placementVars, passVars, PlacementInv
<1> QED BY <1>1, <1>2, <1>3, <1>4, <1>5 DEF PlacementNext

LEMMA PlacementKept == PlacementSpec => []PlacementInv
<1> QED BY InitPlaces, NextPlaces, PTL DEF PlacementSpec

-----------------------------------------------------------------------------
(* useAnnotations.ts: whatever the rows and the content went through, a    *)
(* live note is in list or in orphans once no chunk is due, and is called  *)
(* an orphan only if no tier of anchor.ts finds its quote.                 *)
THEOREM NoneAbandoned == PlacementSpec => []NoNoteAbandoned
<1>1. PlacementInv => NoNoteAbandoned
  <2> SUFFICES ASSUME PlacementInv PROVE NoNoteAbandoned
    OBVIOUS
  <2>1. ASSUME NEW n \in Notes
        PROVE  placements[n] = IF attempts[n].on # Missing /\ attempts[n].stage = "settled"
                               THEN IF attempts[n].placed THEN "list" ELSE "orphans"
                               ELSE "neither"
    BY DEF PlacementInv, Published, AtStage
  <2>2. ASSUME NEW n \in Notes, placements[n] = "orphans"
        PROVE  found[anchors[n]] = "nowhere"
    BY <2>1, <2>2 DEF PlacementInv, Truthful
  <2>3. ASSUME ~scheduled, NEW n \in Notes
        PROVE  placements[n] = IF anchors[n] = Missing THEN "neither"
                               ELSE IF found[anchors[n]] = "nowhere" THEN "orphans"
                               ELSE "list"
    <3>1. ~(attempts[n].on # Missing /\ attempts[n].stage = "fuzzy-pending")
      BY <2>3 DEF PlacementInv, AtStage
    <3>2. attempts[n].stage \in Stages
      BY DEF PlacementInv, Attempt
    <3> QED BY <2>1, <3>1, <3>2 DEF PlacementInv, Truthful, Stages
  <2> QED BY <2>2, <2>3 DEF NoNoteAbandoned
<1> QED BY <1>1, PlacementKept, PTL

(* useAnnotations.ts, highlights.ts: a note is painted once where it is in *)
(* list and nowhere else, and the page's map is never used stale.          *)
THEOREM PaintedExactlyOnce == PlacementSpec => []PaintedOnce
<1>1. PlacementInv => PaintedOnce
  BY DEF PlacementInv, PaintedOnce, Painted, Published, AtStage, Truthful
<1> QED BY <1>1, PlacementKept, PTL

-----------------------------------------------------------------------------
(***************************************************************************)
(* What is coloured on the page, for any rows, anchors and selections, and *)
(* any number of writes: SurfaceSpec keeps HighlightsAreNotes.             *)
(***************************************************************************)
MirrorInv == RowsTypeOK /\ LoadIsFresh /\ QuietMirror

(* The effects have run: the page carries the notes of the rows, a stored  *)
(* highlight waits only for a note that is not there, and what is rescued  *)
(* is an orphan. The toolbar keeps out of a rescue.                        *)
EffectsRan ==
    /\ painted = Listed(rows)
    /\ handovers \cap (Listed(rows) \cup Lost(rows)) = {}
    /\ rescuing \subseteq Lost(rows)
    /\ toolbar # "nothing" => rescuing = {}

WritesMeant ==
    \A w \in writes :
        /\ w.by = "rescue" => w.value \in Findable
        /\ w.by = "toolbar" => w.kind = "create"

(* A highlight that was not made is nowhere. *)
Unmade ==
    \A r \in unborn :
        /\ server[r] = Gone /\ load.seen[r] = Gone
        /\ rows # Unloaded => rows[r] = Gone
        /\ \A w \in writes : w.row # r /\ (w.previous # Unloaded => w.previous[r] = Gone)

(* A temporary paint whose note was not deleted under it is of a creation  *)
(* not answered yet, or of a note that is stored and was not seen: nothing *)
(* on its way deletes that note.                                           *)
Awaited ==
    \A r \in pending \ dropped :
        /\ \A w \in writes : w.row = r =>
              /\ w.kind # "remove"
              /\ w.by = "toolbar" /\ w.stage = "taken" => server[r] # Gone
        /\ \/ \E w \in writes : w.by = "toolbar" /\ w.row = r
           \/ r \in handovers /\ server[r] # Gone

SurfaceInv ==
    /\ MirrorInv /\ SurfaceTypeOK
    /\ EffectsRan /\ WritesMeant /\ Unmade /\ Awaited

(* The same write, whatever its standing. *)
Alike(u, v) ==
    /\ u.kind = v.kind /\ u.row = v.row /\ u.value = v.value /\ u.by = v.by
    /\ u.previous = v.previous /\ u.stage = v.stage

-----------------------------------------------------------------------------
LEMMA SetAside ==
    ASSUME NEW v \in Write
    PROVE  /\ [v EXCEPT !.alone = FALSE] \in Write
           /\ Alike([v EXCEPT !.alone = FALSE], v)
           /\ ~[v EXCEPT !.alone = FALSE].alone
BY DEF Write, Alike

LEMMA PatchedElsewhere ==
    ASSUME NEW table \in Table, NEW w \in Write
    PROVE  /\ Patched(table, w) \in Table
           /\ \A r \in Rows : r # w.row => Patched(table, w)[r] = table[r]
           /\ w.kind = "create" => Patched(table, w)[w.row] # Gone
           /\ w.kind # "remove" /\ table[w.row] # Gone => Patched(table, w)[w.row] # Gone
<1>1. /\ w.kind \in {"put", "create", "update", "remove"} /\ w.value \in Values
      /\ w.row \in Rows /\ w.value # Gone
  BY RowsAssumption DEF Write
<1>2. CASE w.kind \in {"put", "create"}
  BY <1>1, <1>2 DEF Patched, Table
<1>3. CASE w.kind = "update"
  BY <1>1, <1>3 DEF Patched, Table
<1>4. CASE w.kind = "remove"
  BY <1>1, <1>4 DEF Patched, Table
<1> QED BY <1>1, <1>2, <1>3, <1>4

(* What the steps do to the rows and the writes. *)
LEMMA LoadFacts ==
    ASSUME MirrorInv, StartLoad \/ ReadLoad \/ AnswerLoad \/ FailLoad
    PROVE  /\ MirrorInv' /\ server' = server
           /\ load'.seen = NoRows \/ load'.seen = server
           /\ rows' = rows \/ rows' = load.seen
           /\ \A u \in writes' : \E v \in writes : Alike(u, v)
           /\ \A v \in writes : \E u \in writes' : Alike(u, v)
<1> USE DEF MirrorInv
<1>0. /\ NoRows \in Table /\ Idle \in [at : {"idle", "asked", "read"}, seen : Table]
      /\ Asked \in [at : {"idle", "asked", "read"}, seen : Table]
      /\ Idle.seen = NoRows /\ Asked.seen = NoRows /\ Idle.at = "idle" /\ Asked.at = "asked"
  BY HeldIsTable DEF Idle, Asked
<1>1. \A v : Alike(v, v) BY DEF Alike
<1>2. CASE StartLoad
  <2>1. /\ writes' = {[w EXCEPT !.alone = FALSE] : w \in writes}
        /\ load' = Asked /\ UNCHANGED <<server, rows, stale, begun>>
    BY <1>2 DEF StartLoad
  <2>2. \A v \in writes : v \in Write BY DEF RowsTypeOK
  <2>3. writes' \subseteq Write BY <2>1, <2>2, SetAside
  <2>4. RowsTypeOK' BY <1>0, <2>1, <2>3 DEF RowsTypeOK
  <2>5. LoadIsFresh' /\ QuietMirror' BY <1>0, <2>1 DEF LoadIsFresh, QuietMirror
  <2>6. \A u \in writes' : \E v \in writes : Alike(u, v) BY <2>1, <2>2, SetAside
  <2>7. \A v \in writes : \E u \in writes' : Alike(u, v) BY <2>1, <2>2, SetAside
  <2> QED BY <1>0, <2>1, <2>4, <2>5, <2>6, <2>7
<1>3. CASE ReadLoad
  <2>1. /\ load' = [at |-> "read", seen |-> server]
        /\ UNCHANGED <<server, rows, stale, writes, begun>>
    BY <1>3 DEF ReadLoad
  <2>2. load'.seen = server /\ load'.at = "read" BY <2>1
  <2>3. load' \in [at : {"idle", "asked", "read"}, seen : Table] BY <2>1 DEF RowsTypeOK
  <2> QED BY <1>0, <1>1, <2>1, <2>2, <2>3 DEF RowsTypeOK, LoadIsFresh, QuietMirror
<1>4. CASE AnswerLoad
  <2>1. /\ rows' = load.seen /\ stale' = FALSE /\ load' = Idle /\ load.at = "read"
        /\ UNCHANGED <<server, writes, begun>>
    BY <1>4 DEF AnswerLoad
  <2> QED BY <1>0, <1>1, <2>1 DEF RowsTypeOK, LoadIsFresh, QuietMirror
<1>5. CASE FailLoad
  <2>1. load' = Idle /\ stale' = TRUE /\ UNCHANGED <<server, rows, writes, begun>>
    BY <1>5 DEF FailLoad
  <2> QED BY <1>0, <1>1, <2>1 DEF RowsTypeOK, LoadIsFresh, QuietMirror
<1> QED BY <1>2, <1>3, <1>4, <1>5

LEMMA BeginFacts ==
    ASSUME MirrorInv, NEW x, BeginWrite(x),
           x.kind \in {"put", "create", "update", "remove"}, x.row \in Rows,
           x.value \in Values, x.by \in {"tap", "card", "stash", "toolbar", "rescue"}
    PROVE  /\ MirrorInv' /\ server' = server /\ load'.seen = NoRows
           /\ rows' \in Table
           /\ \A r \in Rows : r # x.row =>
                 rows'[r] = IF rows = Unloaded THEN Gone ELSE rows[r]
           /\ \E new \in writes' :
                 /\ new.kind = x.kind /\ new.row = x.row /\ new.value = x.value
                 /\ new.by = x.by /\ new.previous = rows /\ new.stage = "sent"
                 /\ \A u \in writes' : u = new \/ \E v \in writes : Alike(u, v)
           /\ \A v \in writes : \E u \in writes' : Alike(u, v)
<1> USE DEF MirrorInv
<1> DEFINE new == [kind |-> x.kind, row |-> x.row, value |-> x.value,
                   by |-> x.by, n |-> begun + 1, previous |-> rows,
                   stage |-> "sent", alone |-> TRUE]
           Aside(v) == [v EXCEPT !.alone = @ /\ v.row # x.row]
<1>1. /\ begun < MaxWrites /\ begun' = begun + 1
      /\ writes' = {Aside(v) : v \in writes} \cup {new}
      /\ rows' = Patched(Held, x)
      /\ server' = server /\ stale' = stale /\ load' = Idle
  BY DEF BeginWrite, Begin
<1>2. new \in Write BY <1>1, RowsAssumption DEF RowsTypeOK, Write
<1>3. /\ new.kind = x.kind /\ new.row = x.row /\ new.value = x.value
      /\ new.by = x.by /\ new.previous = rows /\ new.stage = "sent"
  OBVIOUS
<1>4. \A v \in writes : Aside(v) \in Write /\ Alike(Aside(v), v)
  BY DEF RowsTypeOK, Write, Alike
<1>5. rows' \in Table BY <1>1, HeldIsTable, PatchedIsTable
<1>6. \A r \in Rows : r # x.row => rows'[r] = IF rows = Unloaded THEN Gone ELSE rows[r]
  <2> SUFFICES ASSUME NEW r \in Rows, r # x.row
               PROVE  rows'[r] = IF rows = Unloaded THEN Gone ELSE rows[r]
    OBVIOUS
  <2>1. Held[r] = IF rows = Unloaded THEN Gone ELSE rows[r] BY DEF Held, NoRows
  <2>2. Held \in Table BY HeldIsTable
  <2>3. Patched(Held, x)[r] = Held[r] BY <2>2 DEF Patched, Table
  <2> QED BY <1>1, <2>1, <2>3
<1>7. Idle \in [at : {"idle", "asked", "read"}, seen : Table] /\ Idle.seen = NoRows
  BY HeldIsTable DEF Idle
<1>8. writes' # {} /\ new \in writes' BY <1>1
<1> HIDE DEF new, Aside
<1>9. writes' \subseteq Write BY <1>1, <1>2, <1>4
<1>10. RowsTypeOK' BY <1>1, <1>5, <1>7, <1>9, RowsAssumption DEF RowsTypeOK
<1>11. LoadIsFresh' /\ QuietMirror' BY <1>8 DEF LoadIsFresh, QuietMirror
<1>12. \A u \in writes' : u = new \/ \E v \in writes : Alike(u, v) BY <1>1, <1>4
<1>13. \A v \in writes : \E u \in writes' : Alike(u, v) BY <1>1, <1>4
<1> QED BY <1>1, <1>3, <1>5, <1>6, <1>7, <1>8, <1>10, <1>11, <1>12, <1>13

LEMMA RequestFacts ==
    ASSUME MirrorInv, NEW w \in writes, ServerTakes(w) \/ LoseWrite(w)
    PROVE  /\ MirrorInv' /\ rows' = rows /\ load' = load
           /\ \A r \in Rows : r # w.row => server'[r] = server[r]
           /\ w.kind # "remove" /\ server[w.row] # Gone => server'[w.row] # Gone
           /\ \E z \in writes' :
                 /\ z.kind = w.kind /\ z.row = w.row /\ z.value = w.value /\ z.by = w.by
                 /\ z.previous = w.previous
                 /\ z.stage = "taken" /\ z.kind = "create" => server'[w.row] # Gone
                 /\ writes' = (writes \ {w}) \cup {z}
<1> USE DEF MirrorInv
<1>1. w \in Write /\ w.row \in Rows /\ server \in Table BY DEF RowsTypeOK, Write
<1>2. PICK s \in {"taken", "failed"} :
          /\ writes' = (writes \ {w}) \cup {[w EXCEPT !.stage = s]}
          /\ server' = IF s = "taken" THEN Patched(server, w) ELSE server
  <2>1. CASE LoseWrite(w) BY <2>1 DEF LoseWrite
  <2>2. CASE ServerTakes(w)
    <3> DEFINE possible == CASE w.kind = "put" -> TRUE
                             [] w.kind = "create" -> server[w.row] = Gone
                             [] w.kind \in {"update", "remove"} -> server[w.row] # Gone
    <3>1. /\ server' = IF possible THEN Patched(server, w) ELSE server
          /\ writes' = (writes \ {w}) \cup
                 {[w EXCEPT !.stage = IF possible THEN "taken" ELSE "failed"]}
      BY <2>2 DEF ServerTakes
    <3> HIDE DEF possible
    <3> QED BY <3>1
  <2> QED BY <2>1, <2>2
<1>3. rows' = rows /\ load' = load /\ stale' = stale /\ begun' = begun
  BY DEF ServerTakes, LoseWrite
<1> DEFINE z == [w EXCEPT !.stage = s]
<1>4. /\ z \in Write /\ z.kind = w.kind /\ z.row = w.row /\ z.value = w.value
      /\ z.by = w.by /\ z.previous = w.previous /\ z.stage = s
  BY <1>1 DEF Write
<1>5. writes' = (writes \ {w}) \cup {z} BY <1>2
<1> HIDE DEF z
<1>6. server' \in Table BY <1>1, <1>2, PatchedElsewhere
<1>7. writes' \subseteq Write /\ writes' # {} BY <1>4, <1>5 DEF RowsTypeOK
<1>8. MirrorInv'
  BY <1>3, <1>6, <1>7 DEF RowsTypeOK, LoadIsFresh, QuietMirror
<1>9. /\ \A r \in Rows : r # w.row => server'[r] = server[r]
      /\ w.kind # "remove" /\ server[w.row] # Gone => server'[w.row] # Gone
      /\ s = "taken" /\ w.kind = "create" => server'[w.row] # Gone
  BY <1>1, <1>2, PatchedElsewhere
<1>10. z \in writes' BY <1>5
<1> QED BY <1>3, <1>4, <1>5, <1>8, <1>9, <1>10

LEMMA SettleFacts ==
    ASSUME MirrorInv, NEW w \in writes, SettleWrite(w)
    PROVE  /\ MirrorInv' /\ server' = server /\ load'.seen = NoRows
           /\ rows' = rows \/ (rows' = w.previous /\ w.previous # Unloaded)
           /\ \A u \in writes' : \E v \in writes : Alike(u, v)
           /\ \A v \in writes : v # w => \E u \in writes' : Alike(u, v)
           /\ w.stage \in {"taken", "failed"}
<1> USE DEF MirrorInv
<1>1. /\ writes' = {[v EXCEPT !.alone = FALSE] : v \in writes \ {w}}
      /\ rows' = IF w.stage = "failed" /\ w.previous # Unloaded THEN w.previous ELSE rows
      /\ load' = Asked /\ UNCHANGED <<server, stale, begun>>
      /\ w.stage \in {"taken", "failed"}
  BY DEF SettleWrite
<1>2. \A v \in writes : v \in Write BY DEF RowsTypeOK
<1>3. writes' \subseteq Write BY <1>1, <1>2, SetAside
<1>4. rows' \in Table \cup {Unloaded} BY <1>1, <1>2 DEF RowsTypeOK, Write
<1>5. /\ Asked \in [at : {"idle", "asked", "read"}, seen : Table] /\ Asked.seen = NoRows
      /\ Asked # Idle /\ Asked.at # "read"
  BY HeldIsTable DEF Asked, Idle
<1>6. MirrorInv'
  BY <1>1, <1>3, <1>4, <1>5 DEF RowsTypeOK, LoadIsFresh, QuietMirror
<1>7. \A u \in writes' : \E v \in writes : Alike(u, v) BY <1>1, <1>2, SetAside
<1>8. \A v \in writes : v # w => \E u \in writes' : Alike(u, v) BY <1>1, <1>2, SetAside
<1> QED BY <1>1, <1>5, <1>6, <1>7, <1>8

(* The effects bring the page after the rows. *)
LEMMA FollowFacts ==
    ASSUME NEW wet \in SUBSET Rows, NEW stored \in SUBSET Rows, NEW rescue \in SUBSET Rows,
           toolbar' # "nothing" => rescue = {}, candidate \in {"none", "unusable", "ok"},
           Follow(wet, stored, rescue)
    PROVE  /\ EffectsRan'
           /\ painted' \subseteq Rows /\ handovers' \subseteq stored
           /\ pending' \subseteq wet /\ rescuing' \subseteq rescue
           /\ candidate' \in {"none", "unusable", "ok"}
           /\ pending' \cap stored \subseteq handovers'
<1>1. /\ painted' = Listed(rows')
      /\ handovers' = stored \ (Listed(rows') \cup Lost(rows'))
      /\ pending' = wet \ (stored \cap (Listed(rows') \cup Lost(rows')))
      /\ rescuing' = rescue \cap Lost(rows')
      /\ candidate' = IF rescuing' = rescuing THEN candidate ELSE "none"
  BY DEF Follow
<1>2. Listed(rows') \subseteq Rows BY DEF Listed
<1>3. EffectsRan' BY <1>1 DEF EffectsRan
<1> QED BY <1>1, <1>2, <1>3

(* The rows of highlights not made stay empty when nothing begins there. *)
LEMMA StaysUnmade ==
    ASSUME Unmade, unborn \subseteq Rows, unborn' \subseteq unborn,
           \A r \in unborn' : /\ server'[r] = Gone /\ load'.seen[r] = Gone
                              /\ rows' # Unloaded => rows'[r] = Gone,
           \A u \in writes' :
              \/ \E v \in writes : u.row = v.row /\ u.previous = v.previous
              \/ u.row \notin unborn' /\ u.previous = rows
    PROVE  Unmade'
BY DEF Unmade

-----------------------------------------------------------------------------
(* What leaves the rows alone. *)
LEMMA PageSteps ==
    ASSUME SurfaceInv,
           \/ Hear \/ Dismiss \/ CancelRescue \/ Redraw
           \/ \E what \in Selections : Select(what)
           \/ \E r \in Rows : StartRescue(r)
           \/ UNCHANGED surfaceVars
    PROVE  SurfaceInv'
<1>1. UNCHANGED rowVars /\ UNCHANGED unborn /\ UNCHANGED painted
  BY DEF Hear, Dismiss, CancelRescue, Redraw, Select, StartRescue, surfaceVars,
         ownSurfaceVars, paintVars
<1>2. MirrorInv' /\ WritesMeant' /\ Unmade'
  <2>1. UNCHANGED <<server, rows, load, stale, writes, begun>> BY <1>1 DEF rowVars
  <2>2. MirrorInv'
    BY <2>1 DEF SurfaceInv, MirrorInv, RowsTypeOK, LoadIsFresh, QuietMirror
  <2>3. WritesMeant' BY <2>1 DEF SurfaceInv, WritesMeant
  <2>4. Unmade' BY <1>1, <2>1 DEF SurfaceInv, Unmade
  <2> QED BY <2>2, <2>3, <2>4
<1>3. SurfaceTypeOK'
  <2> USE DEF SurfaceInv, SurfaceTypeOK
  <2>1. CASE Hear
    BY <1>1, <2>1 DEF Hear, paintVars
  <2>2. CASE Dismiss BY <1>1, <2>2 DEF Dismiss, paintVars, rescueVars, Selections
  <2>3. CASE CancelRescue BY <1>1, <2>3 DEF CancelRescue, paintVars, selectionVars
  <2>4. CASE Redraw BY <1>1, <2>4 DEF Redraw, Deselected, Selections
  <2>5. ASSUME NEW what \in Selections, Select(what) PROVE SurfaceTypeOK'
    BY <1>1, <2>5 DEF Select, paintVars, rescueVars
  <2>6. ASSUME NEW r \in Rows, StartRescue(r) PROVE SurfaceTypeOK'
    BY <1>1, <2>6 DEF StartRescue, paintVars, Selections
  <2>7. CASE UNCHANGED surfaceVars
    BY <2>7 DEF surfaceVars, ownSurfaceVars, selectionVars, paintVars, rescueVars
  <2> QED BY <2>1, <2>2, <2>3, <2>4, <2>5, <2>6, <2>7
<1>4. EffectsRan'
  <2> USE DEF SurfaceInv, EffectsRan, rowVars
  <2>1. CASE Hear BY <1>1, <2>1 DEF Hear, paintVars
  <2>2. CASE Dismiss BY <1>1, <2>2 DEF Dismiss, paintVars, rescueVars
  <2>3. CASE CancelRescue BY <1>1, <2>3 DEF CancelRescue, paintVars, selectionVars
  <2>4. CASE Redraw BY <1>1, <2>4 DEF Redraw
  <2>5. ASSUME NEW what \in Selections, Select(what) PROVE EffectsRan'
    BY <1>1, <2>5 DEF Select, paintVars, rescueVars
  <2>6. ASSUME NEW r \in Rows, StartRescue(r) PROVE EffectsRan'
    BY <1>1, <2>6 DEF StartRescue, paintVars
  <2>7. CASE UNCHANGED surfaceVars
    BY <2>7 DEF surfaceVars, ownSurfaceVars, selectionVars, paintVars, rescueVars
  <2> QED BY <2>1, <2>2, <2>3, <2>4, <2>5, <2>6, <2>7
<1>5. Awaited'
  <2>1. UNCHANGED <<writes, server>> BY <1>1 DEF rowVars
  <2>2. pending' = {} \/ UNCHANGED <<pending, handovers, dropped>>
    BY DEF Hear, Dismiss, CancelRescue, Redraw, Select, StartRescue, surfaceVars,
           ownSurfaceVars, paintVars
  <2> QED BY <2>1, <2>2 DEF SurfaceInv, Awaited
<1> QED BY <1>2, <1>3, <1>4, <1>5 DEF SurfaceInv

(* The steps of a load. *)
LEMMA SurfaceLoads ==
    ASSUME SurfaceInv, StartLoad \/ ReadLoad \/ AnswerLoad \/ FailLoad,
           Follow(pending, handovers, rescuing), UNCHANGED <<selectionVars, unborn, dropped>>
    PROVE  SurfaceInv'
<1>1. /\ MirrorInv' /\ server' = server
      /\ load'.seen = NoRows \/ load'.seen = server
      /\ rows' = rows \/ rows' = load.seen
      /\ \A u \in writes' : \E v \in writes : Alike(u, v)
      /\ \A v \in writes : \E u \in writes' : Alike(u, v)
  BY LoadFacts DEF SurfaceInv
<1>2. /\ EffectsRan'
      /\ painted' \subseteq Rows /\ handovers' \subseteq handovers
      /\ pending' \subseteq pending /\ rescuing' \subseteq rescuing
      /\ candidate' \in {"none", "unusable", "ok"}
      /\ pending' \cap handovers \subseteq handovers'
  BY FollowFacts DEF SurfaceInv, SurfaceTypeOK, EffectsRan, selectionVars
<1>3. SurfaceTypeOK' BY <1>2 DEF SurfaceInv, SurfaceTypeOK, selectionVars
<1>4. WritesMeant' BY <1>1 DEF SurfaceInv, WritesMeant, Alike
<1>5. Unmade'
  <2>1. \A r \in unborn : NoRows[r] = Gone
    BY DEF SurfaceInv, SurfaceTypeOK, NoRows
  <2>2. \A r \in unborn' : /\ server'[r] = Gone /\ load'.seen[r] = Gone
                           /\ rows' # Unloaded => rows'[r] = Gone
    BY <1>1, <2>1 DEF SurfaceInv, Unmade
  <2>3. \A u \in writes' : \E v \in writes : u.row = v.row /\ u.previous = v.previous
    BY <1>1 DEF Alike
  <2> QED BY <2>2, <2>3, StaysUnmade DEF SurfaceInv, SurfaceTypeOK
<1>6. Awaited'
  <2> SUFFICES ASSUME NEW r \in pending' \ dropped'
               PROVE  /\ \A w \in writes' : w.row = r =>
                            /\ w.kind # "remove"
                            /\ w.by = "toolbar" /\ w.stage = "taken" => server'[r] # Gone
                      /\ \/ \E w \in writes' : w.by = "toolbar" /\ w.row = r
                         \/ r \in handovers' /\ server'[r] # Gone
    BY DEF Awaited
  <2>1. r \in pending \ dropped BY <1>2
  <2>2. /\ \A w \in writes : w.row = r =>
              /\ w.kind # "remove"
              /\ w.by = "toolbar" /\ w.stage = "taken" => server[r] # Gone
        /\ \/ \E w \in writes : w.by = "toolbar" /\ w.row = r
           \/ r \in handovers /\ server[r] # Gone
    BY <2>1 DEF SurfaceInv, Awaited
  <2> QED BY <1>1, <1>2, <2>2 DEF Alike
<1> QED BY <1>1, <1>2, <1>3, <1>4, <1>5, <1>6 DEF SurfaceInv

(* What becomes of a request on its way. *)
LEMMA SurfaceRequests ==
    ASSUME SurfaceInv, NEW w \in writes, ServerTakes(w) \/ LoseWrite(w),
           Follow(pending, handovers, rescuing), UNCHANGED <<selectionVars, unborn, dropped>>
    PROVE  SurfaceInv'
<1>1. /\ MirrorInv' /\ rows' = rows /\ load' = load
      /\ \A r \in Rows : r # w.row => server'[r] = server[r]
      /\ w.kind # "remove" /\ server[w.row] # Gone => server'[w.row] # Gone
  BY RequestFacts DEF SurfaceInv
<1>2. PICK z \in writes' :
          /\ z.kind = w.kind /\ z.row = w.row /\ z.value = w.value /\ z.by = w.by
          /\ z.previous = w.previous
          /\ z.stage = "taken" /\ z.kind = "create" => server'[w.row] # Gone
          /\ writes' = (writes \ {w}) \cup {z}
  BY RequestFacts DEF SurfaceInv
<1>3. /\ EffectsRan'
      /\ painted' \subseteq Rows /\ handovers' \subseteq handovers
      /\ pending' \subseteq pending /\ rescuing' \subseteq rescuing
      /\ candidate' \in {"none", "unusable", "ok"}
      /\ pending' \cap handovers \subseteq handovers'
  BY FollowFacts DEF SurfaceInv, SurfaceTypeOK, EffectsRan, selectionVars
<1>4. SurfaceTypeOK' BY <1>3 DEF SurfaceInv, SurfaceTypeOK, selectionVars
<1>5. WritesMeant' BY <1>2 DEF SurfaceInv, WritesMeant
<1>6. Unmade'
  <2>1. \A r \in unborn' : /\ server'[r] = Gone /\ load'.seen[r] = Gone
                           /\ rows' # Unloaded => rows'[r] = Gone
    BY <1>1 DEF SurfaceInv, SurfaceTypeOK, Unmade
  <2>2. \A u \in writes' : \E v \in writes : u.row = v.row /\ u.previous = v.previous
    BY <1>2
  <2> QED BY <2>1, <2>2, StaysUnmade DEF SurfaceInv, SurfaceTypeOK
<1>7. Awaited'
  <2> SUFFICES ASSUME NEW r \in pending' \ dropped'
               PROVE  /\ \A u \in writes' : u.row = r =>
                            /\ u.kind # "remove"
                            /\ u.by = "toolbar" /\ u.stage = "taken" => server'[r] # Gone
                      /\ \/ \E u \in writes' : u.by = "toolbar" /\ u.row = r
                         \/ r \in handovers' /\ server'[r] # Gone
    BY DEF Awaited
  <2>1. r \in pending \ dropped /\ r \in Rows BY <1>3 DEF SurfaceInv, SurfaceTypeOK
  <2>2. /\ \A u \in writes : u.row = r =>
              /\ u.kind # "remove"
              /\ u.by = "toolbar" /\ u.stage = "taken" => server[r] # Gone
        /\ \/ \E u \in writes : u.by = "toolbar" /\ u.row = r
           \/ r \in handovers /\ server[r] # Gone
    BY <2>1 DEF SurfaceInv, Awaited
  <2>3. server[r] # Gone => server'[r] # Gone BY <1>1, <2>1, <2>2
  <2>4. w.by = "toolbar" => w.kind = "create" BY DEF SurfaceInv, WritesMeant
  <2>5. ASSUME NEW u \in writes', u.row = r
        PROVE  /\ u.kind # "remove"
               /\ u.by = "toolbar" /\ u.stage = "taken" => server'[r] # Gone
    <3>1. CASE u = z BY <1>2, <2>2, <2>4, <2>5, <3>1
    <3>2. CASE u # z BY <1>2, <2>2, <2>3, <2>5, <3>2
    <3> QED BY <3>1, <3>2
  <2>6. CASE \E u \in writes : u.by = "toolbar" /\ u.row = r
    <3>1. \E u \in writes' : u.by = "toolbar" /\ u.row = r BY <1>2, <2>6
    <3> QED BY <2>5, <3>1
  <2>7. CASE r \in handovers /\ server[r] # Gone BY <1>3, <2>3, <2>5, <2>7
  <2> QED BY <2>2, <2>6, <2>7
<1> QED BY <1>1, <1>3, <1>4, <1>5, <1>6, <1>7 DEF SurfaceInv

(* A write begins, under the paints that are left of it. *)
LEMMA SurfaceBegins ==
    ASSUME SurfaceInv, NEW x, BeginWrite(x),
           x.kind \in {"put", "create", "update", "remove"}, x.row \in Rows,
           x.value \in Values, x.by \in {"tap", "card", "stash", "toolbar", "rescue"},
           x.by = "rescue" => x.value \in Findable, x.by = "toolbar" => x.kind = "create",
           NEW wet \in SUBSET Rows, Follow(wet, handovers, rescuing),
           wet \subseteq pending \/ (/\ wet = pending \cup {x.row}
                                     /\ x.row \in unborn /\ x.by = "toolbar"),
           x.kind = "remove" => x.row \notin wet \ dropped',
           selected' \in Selections, heard' \in BOOLEAN,
           toolbar' \in Selections \cup {"blank"}, toolbar' # "nothing" => rescuing = {},
           unborn' \subseteq unborn, x.row \notin unborn',
           dropped \subseteq dropped', dropped' \subseteq Rows
    PROVE  SurfaceInv'
<1>1. /\ MirrorInv' /\ server' = server /\ load'.seen = NoRows
      /\ rows' \in Table
      /\ \A r \in Rows : r # x.row =>
            rows'[r] = IF rows = Unloaded THEN Gone ELSE rows[r]
      /\ \A v \in writes : \E u \in writes' : Alike(u, v)
  BY BeginFacts DEF SurfaceInv
<1>2. PICK new \in writes' :
          /\ new.kind = x.kind /\ new.row = x.row /\ new.value = x.value
          /\ new.by = x.by /\ new.previous = rows /\ new.stage = "sent"
          /\ \A u \in writes' : u = new \/ \E v \in writes : Alike(u, v)
  BY BeginFacts DEF SurfaceInv
<1>3. /\ EffectsRan'
      /\ painted' \subseteq Rows /\ handovers' \subseteq handovers
      /\ pending' \subseteq wet /\ rescuing' \subseteq rescuing
      /\ candidate' \in {"none", "unusable", "ok"}
      /\ pending' \cap handovers \subseteq handovers'
  BY FollowFacts DEF SurfaceInv, SurfaceTypeOK, EffectsRan
<1>4. SurfaceTypeOK' BY <1>3 DEF SurfaceInv, SurfaceTypeOK
<1>5. WritesMeant'
  <2> SUFFICES ASSUME NEW u \in writes'
               PROVE  /\ u.by = "rescue" => u.value \in Findable
                      /\ u.by = "toolbar" => u.kind = "create"
    BY DEF WritesMeant
  <2>1. CASE u = new BY <1>2, <2>1
  <2>2. CASE \E v \in writes : Alike(u, v) BY <2>2 DEF SurfaceInv, WritesMeant, Alike
  <2> QED BY <1>2, <2>1, <2>2
<1>6. Unmade'
  <2>1. \A r \in unborn' : /\ server'[r] = Gone /\ load'.seen[r] = Gone
                           /\ rows' # Unloaded => rows'[r] = Gone
    BY <1>1 DEF SurfaceInv, SurfaceTypeOK, Unmade, NoRows
  <2>2. \A u \in writes' :
           \/ \E v \in writes : u.row = v.row /\ u.previous = v.previous
           \/ u.row \notin unborn' /\ u.previous = rows
    BY <1>2 DEF Alike
  <2> QED BY <2>1, <2>2, StaysUnmade DEF SurfaceInv, SurfaceTypeOK
<1>7. Awaited'
  <2> SUFFICES ASSUME NEW r \in pending' \ dropped'
               PROVE  /\ \A u \in writes' : u.row = r =>
                            /\ u.kind # "remove"
                            /\ u.by = "toolbar" /\ u.stage = "taken" => server'[r] # Gone
                      /\ \/ \E u \in writes' : u.by = "toolbar" /\ u.row = r
                         \/ r \in handovers' /\ server'[r] # Gone
    BY DEF Awaited
  <2>1. r \in wet /\ r \notin dropped BY <1>3
  <2>2. new.row = r => new.kind # "remove" /\ new.stage # "taken" BY <1>2, <2>1
  <2>3. CASE r \in pending
    <3>1. /\ \A u \in writes : u.row = r =>
                /\ u.kind # "remove"
                /\ u.by = "toolbar" /\ u.stage = "taken" => server[r] # Gone
          /\ \/ \E u \in writes : u.by = "toolbar" /\ u.row = r
             \/ r \in handovers /\ server[r] # Gone
      BY <2>1, <2>3 DEF SurfaceInv, Awaited
    <3>2. ASSUME NEW u \in writes', u.row = r
          PROVE  /\ u.kind # "remove"
                 /\ u.by = "toolbar" /\ u.stage = "taken" => server'[r] # Gone
      <4>1. CASE u = new BY <2>2, <3>2, <4>1
      <4>2. CASE \E v \in writes : Alike(u, v) BY <1>1, <3>1, <3>2, <4>2 DEF Alike
      <4> QED BY <1>2, <4>1, <4>2
    <3>3. \/ \E u \in writes' : u.by = "toolbar" /\ u.row = r
          \/ r \in handovers' /\ server'[r] # Gone
      BY <1>1, <1>3, <3>1 DEF Alike
    <3> QED BY <3>2, <3>3
  <2>4. CASE r \notin pending
    <3>1. r = x.row /\ r \in unborn /\ x.by = "toolbar" BY <2>1, <2>4
    <3>2. \A v \in writes : v.row # r BY <3>1 DEF SurfaceInv, Unmade
    <3>3. \A u \in writes' : u.row = r => u = new BY <1>2, <3>2 DEF Alike
    <3> QED BY <1>2, <2>2, <3>1, <3>3
  <2> QED BY <2>3, <2>4
<1> QED BY <1>1, <1>3, <1>4, <1>5, <1>6, <1>7 DEF SurfaceInv

LEMMA HighlightStep ==
    ASSUME SurfaceInv, NEW r \in Rows, NEW anchor \in Findable, Highlight(r, anchor)
    PROVE  SurfaceInv'
<1>1. toolbar' = "nothing" /\ r \in unborn /\ dropped' = dropped BY DEF Highlight
<1>2. CASE Regarding(toolbar) \in {"formula", "words"}
  <2> DEFINE x == [kind |-> "create", row |-> r, value |-> anchor, by |-> "toolbar"]
  <2>1. /\ unborn' = unborn \ {r} /\ selected' = "nothing" /\ heard' = FALSE
        /\ BeginWrite(x) /\ Follow(pending \cup {r}, handovers, rescuing)
    BY <1>2 DEF Highlight, Deselected
  <2>2. x.kind = "create" /\ x.row = r /\ x.value = anchor /\ x.by = "toolbar"
    OBVIOUS
  <2>3. anchor \in Values BY SurfaceAssumption
  <2> HIDE DEF x
  <2>4. dropped \subseteq Rows /\ pending \cup {r} \in SUBSET Rows
    BY DEF SurfaceInv, SurfaceTypeOK
  <2>5. selected' \in Selections /\ heard' \in BOOLEAN /\ toolbar' \in Selections \cup {"blank"}
    BY <1>1, <2>1 DEF Selections
  <2> QED BY <1>1, <2>1, <2>2, <2>3, <2>4, <2>5, SurfaceBegins
<1>3. CASE Regarding(toolbar) \notin {"formula", "words"}
  <2>1. UNCHANGED <<rowVars, selected, heard, unborn, paintVars, rescueVars>>
    BY <1>3 DEF Highlight
  <2>2. UNCHANGED <<server, rows, load, stale, writes, begun>>
    BY <2>1 DEF rowVars
  <2>3. MirrorInv' BY <2>2 DEF SurfaceInv, MirrorInv, RowsTypeOK, LoadIsFresh, QuietMirror
  <2>4. WritesMeant' BY <2>2 DEF SurfaceInv, WritesMeant
  <2>5. Unmade' BY <2>1, <2>2 DEF SurfaceInv, Unmade
  <2>6. SurfaceTypeOK'
    BY <1>1, <2>1 DEF SurfaceInv, SurfaceTypeOK, Selections, paintVars, rescueVars
  <2>7. EffectsRan' BY <1>1, <2>1, <2>2 DEF SurfaceInv, EffectsRan, paintVars, rescueVars
  <2>8. Awaited' BY <1>1, <2>1, <2>2 DEF SurfaceInv, Awaited, paintVars
  <2> QED BY <2>3, <2>4, <2>5, <2>6, <2>7, <2>8 DEF SurfaceInv
<1> QED BY <1>2, <1>3

LEMMA RemoveNoteStep ==
    ASSUME SurfaceInv, NEW r \in Rows, RemoveNote(r)
    PROVE  SurfaceInv'
<1> DEFINE x == [kind |-> "remove", row |-> r, value |-> rows[r], by |-> "card"]
<1>1. /\ r \in painted /\ BeginWrite(x) /\ Follow(pending, handovers, rescuing)
      /\ dropped' = dropped \cup ({r} \cap pending)
      /\ UNCHANGED <<selected, heard, toolbar, unborn>>
  BY DEF RemoveNote, selectionVars
<1>2. x.kind = "remove" /\ x.row = r /\ x.value = rows[r] /\ x.by = "card"
  OBVIOUS
<1> HIDE DEF x
<1>3. rows # Unloaded /\ rows[r] \in Findable BY <1>1 DEF SurfaceInv, EffectsRan, Listed
<1>4. rows[r] \in Values /\ rows[r] # Gone BY <1>3, SurfaceAssumption, RowsAssumption
<1>5. r \notin unborn BY <1>3, <1>4 DEF SurfaceInv, Unmade
<1>6. /\ pending \in SUBSET Rows /\ dropped \subseteq dropped' /\ dropped' \subseteq Rows
      /\ selected' \in Selections /\ heard' \in BOOLEAN /\ toolbar' \in Selections \cup {"blank"}
      /\ toolbar' # "nothing" => rescuing = {}
      /\ r \notin pending \ dropped'
  BY <1>1 DEF SurfaceInv, SurfaceTypeOK, EffectsRan
<1> QED BY <1>1, <1>2, <1>4, <1>5, <1>6, SurfaceBegins

LEMMA ConfirmStep ==
    ASSUME SurfaceInv, NEW anchor \in Findable, Confirm(anchor)
    PROVE  SurfaceInv'
<1>1. PICK r \in rescuing :
          BeginWrite([kind |-> "update", row |-> r, value |-> anchor, by |-> "rescue"])
  BY DEF Confirm
<1> DEFINE x == [kind |-> "update", row |-> r, value |-> anchor, by |-> "rescue"]
<1>2. BeginWrite(x) BY <1>1
<1>3. x.kind = "update" /\ x.row = r /\ x.value = anchor /\ x.by = "rescue"
  OBVIOUS
<1> HIDE DEF x
<1>4. /\ Follow(pending, handovers, rescuing) /\ selected' = "nothing" /\ heard' = FALSE
      /\ UNCHANGED <<toolbar, unborn, dropped>>
  BY DEF Confirm, Deselected
<1>5. r \in Rows /\ rows # Unloaded /\ rows[r] \in Values
  BY DEF SurfaceInv, EffectsRan, Lost
<1>6. r \notin unborn BY <1>5, RowsAssumption DEF SurfaceInv, Unmade
<1>7. anchor \in Values BY SurfaceAssumption
<1>8. /\ pending \in SUBSET Rows /\ dropped' \subseteq Rows
      /\ selected' \in Selections /\ heard' \in BOOLEAN /\ toolbar' \in Selections \cup {"blank"}
      /\ toolbar' # "nothing" => rescuing = {}
  BY <1>4 DEF SurfaceInv, SurfaceTypeOK, EffectsRan, Selections
<1> QED BY <1>2, <1>3, <1>4, <1>5, <1>6, <1>7, <1>8, SurfaceBegins

-----------------------------------------------------------------------------
(* A write is answered: what becomes of its paint is said by wet and stored. *)
LEMMA SurfaceSettles ==
    ASSUME SurfaceInv, NEW w \in writes, SettleWrite(w),
           NEW wet \in SUBSET pending, NEW stored \in SUBSET Rows, handovers \subseteq stored,
           NEW rescue \in SUBSET rescuing, Follow(wet, stored, rescue),
           w.by = "toolbar" => (w.stage = "taken" /\ w.row \in stored) \/ w.row \notin wet,
           UNCHANGED <<selectionVars, unborn, dropped>>
    PROVE  SurfaceInv'
<1>1. /\ MirrorInv' /\ server' = server /\ load'.seen = NoRows
      /\ rows' = rows \/ (rows' = w.previous /\ w.previous # Unloaded)
      /\ \A u \in writes' : \E v \in writes : Alike(u, v)
      /\ \A v \in writes : v # w => \E u \in writes' : Alike(u, v)
  BY SettleFacts DEF SurfaceInv
<1>2. /\ EffectsRan'
      /\ painted' \subseteq Rows /\ handovers' \subseteq stored
      /\ pending' \subseteq wet /\ rescuing' \subseteq rescue
      /\ candidate' \in {"none", "unusable", "ok"}
      /\ pending' \cap stored \subseteq handovers'
  <2>1. /\ wet \in SUBSET Rows /\ rescue \in SUBSET Rows
        /\ toolbar' # "nothing" => rescue = {}
        /\ candidate \in {"none", "unusable", "ok"}
    BY DEF SurfaceInv, SurfaceTypeOK, EffectsRan, selectionVars
  <2> QED BY <2>1, FollowFacts
<1>3. SurfaceTypeOK' BY <1>2 DEF SurfaceInv, SurfaceTypeOK, selectionVars
<1>4. WritesMeant' BY <1>1 DEF SurfaceInv, WritesMeant, Alike
<1>5. Unmade'
  <2>1. \A r \in unborn' : /\ server'[r] = Gone /\ load'.seen[r] = Gone
                           /\ rows' # Unloaded => rows'[r] = Gone
    BY <1>1 DEF SurfaceInv, SurfaceTypeOK, Unmade, NoRows
  <2>2. \A u \in writes' : \E v \in writes : u.row = v.row /\ u.previous = v.previous
    BY <1>1 DEF Alike
  <2> QED BY <2>1, <2>2, StaysUnmade DEF SurfaceInv, SurfaceTypeOK
<1>6. Awaited'
  <2> SUFFICES ASSUME NEW r \in pending' \ dropped'
               PROVE  /\ \A u \in writes' : u.row = r =>
                            /\ u.kind # "remove"
                            /\ u.by = "toolbar" /\ u.stage = "taken" => server'[r] # Gone
                      /\ \/ \E u \in writes' : u.by = "toolbar" /\ u.row = r
                         \/ r \in handovers' /\ server'[r] # Gone
    BY DEF Awaited
  <2>1. r \in wet /\ r \in pending \ dropped BY <1>2
  <2>2. /\ \A u \in writes : u.row = r =>
              /\ u.kind # "remove"
              /\ u.by = "toolbar" /\ u.stage = "taken" => server[r] # Gone
        /\ \/ \E u \in writes : u.by = "toolbar" /\ u.row = r
           \/ r \in handovers /\ server[r] # Gone
    BY <2>1 DEF SurfaceInv, Awaited
  <2>3. \A u \in writes' : u.row = r =>
            /\ u.kind # "remove"
            /\ u.by = "toolbar" /\ u.stage = "taken" => server'[r] # Gone
    BY <1>1, <2>2 DEF Alike
  <2>4. CASE r \in handovers /\ server[r] # Gone BY <1>1, <1>2, <2>3, <2>4
  <2>5. ASSUME NEW v \in writes, v.by = "toolbar", v.row = r
        PROVE  \/ \E u \in writes' : u.by = "toolbar" /\ u.row = r
               \/ r \in handovers' /\ server'[r] # Gone
    <3>1. CASE v = w BY <1>1, <1>2, <2>1, <2>2, <2>5, <3>1
    <3>2. CASE v # w BY <1>1, <2>5, <3>2 DEF Alike
    <3> QED BY <3>1, <3>2
  <2> QED BY <2>2, <2>3, <2>4, <2>5
<1> QED BY <1>1, <1>2, <1>3, <1>4, <1>5, <1>6 DEF SurfaceInv

LEMMA SettleSurfaceStep ==
    ASSUME SurfaceInv, NEW w \in writes, SettleSurface(w)
    PROVE  SurfaceInv'
<1>1. SettleWrite(w) /\ UNCHANGED <<selectionVars, unborn, dropped>> BY DEF SettleSurface
<1>2. /\ pending \in SUBSET pending /\ handovers \in SUBSET Rows
      /\ pending \ {w.row} \in SUBSET pending /\ handovers \cup {w.row} \in SUBSET Rows
      /\ {} \in SUBSET rescuing /\ rescuing \in SUBSET rescuing
      /\ w.stage \in {"sent", "taken", "failed"}
  BY DEF SurfaceInv, SurfaceTypeOK, MirrorInv, RowsTypeOK, Write
<1>3. w.stage \in {"taken", "failed"} BY <1>1 DEF SettleWrite
<1>4. CASE w.by = "toolbar" /\ w.stage = "taken"
  <2>1. Follow(pending, handovers \cup {w.row}, rescuing) BY <1>4 DEF SettleSurface
  <2> QED BY <1>1, <1>2, <1>4, <2>1, SurfaceSettles
<1>5. CASE w.by = "toolbar" /\ w.stage = "failed"
  <2>1. Follow(pending \ {w.row}, handovers, rescuing) BY <1>5 DEF SettleSurface
  <2> QED BY <1>1, <1>2, <1>5, <2>1, SurfaceSettles
<1>6. CASE w.by = "rescue" /\ w.stage = "taken"
  <2>1. Follow(pending, handovers, {}) BY <1>6 DEF SettleSurface
  <2> QED BY <1>1, <1>2, <1>6, <2>1, SurfaceSettles
<1>7. CASE w.by # "toolbar" /\ ~(w.by = "rescue" /\ w.stage = "taken")
  <2>1. Follow(pending, handovers, rescuing) BY <1>7 DEF SettleSurface
  <2> QED BY <1>1, <1>2, <1>7, <2>1, SurfaceSettles
<1> QED BY <1>3, <1>4, <1>5, <1>6, <1>7

LEMMA SurfaceStep == SurfaceInv /\ [SurfaceNext]_surfaceVars => SurfaceInv'
<1> SUFFICES ASSUME SurfaceInv, [SurfaceNext]_surfaceVars PROVE SurfaceInv'
  OBVIOUS
<1>1. CASE SurfaceRows
  <2>1. /\ Follow(pending, handovers, rescuing) /\ UNCHANGED <<selectionVars, unborn, dropped>>
        /\ RowsStep
    BY <1>1 DEF SurfaceRows
  <2> QED BY <2>1, SurfaceLoads, SurfaceRequests DEF RowsStep
<1>2. CASE \/ Hear \/ Dismiss \/ CancelRescue \/ Redraw
           \/ \E what \in Selections : Select(what)
           \/ \E r \in Rows : StartRescue(r)
           \/ UNCHANGED surfaceVars
  BY <1>2, PageSteps
<1>3. CASE \E r \in Rows : RemoveNote(r) BY <1>3, RemoveNoteStep
<1>4. CASE \E r \in Rows, anchor \in Findable : Highlight(r, anchor) BY <1>4, HighlightStep
<1>5. CASE \E anchor \in Findable : Confirm(anchor) BY <1>5, ConfirmStep
<1>6. CASE \E w \in writes : SettleSurface(w) BY <1>6, SettleSurfaceStep
<1> QED BY <1>1, <1>2, <1>3, <1>4, <1>5, <1>6 DEF SurfaceNext

LEMMA InitSurfaceInv ==
    ASSUME NEW initial \in [Rows -> (Values \ Findable) \cup {Gone}],
           InitRows(initial), InitSurface
    PROVE  SurfaceInv
<1> USE DEF InitRows, InitSurface
<1>1. initial \in Table BY DEF Table
<1>2. Asked \in [at : {"idle", "asked", "read"}, seen : Table] /\ Asked.at = "asked"
      /\ Asked.seen = NoRows
  BY DEF Asked, NoRows, Table
<1>3. MirrorInv
  <2>1. 0 \in 0 .. MaxWrites BY RowsAssumption
  <2>2. RowsTypeOK BY <1>1, <1>2, <2>1 DEF RowsTypeOK
  <2>3. LoadIsFresh /\ QuietMirror BY <1>2 DEF LoadIsFresh, QuietMirror
  <2> QED BY <2>2, <2>3 DEF MirrorInv
<1>4. SurfaceTypeOK BY DEF SurfaceTypeOK, Selections
<1>5. EffectsRan BY DEF EffectsRan, Listed
<1>6. Unmade /\ WritesMeant /\ Awaited
  BY <1>2 DEF Unmade, WritesMeant, Awaited, NoRows
<1> QED BY <1>3, <1>4, <1>5, <1>6 DEF SurfaceInv

(* However highlights, rescues, deletions, loads and their failures        *)
(* interleave, one selection has one owner, a rescue keeps words that are  *)
(* found, and once all is answered what is coloured is what is stored      *)
(* (SelectionToolbar.tsx, OrphanPanel.tsx over useAnnotations.ts).         *)
THEOREM HighlightsStand == SurfaceSpec => []HighlightsAreNotes
<1>1. SurfaceInv => HighlightsAreNotes
  <2> SUFFICES ASSUME SurfaceInv PROVE HighlightsAreNotes OBVIOUS
  <2>1. ASSUME writes = {}, load = Idle, ~stale, rows # Unloaded
        PROVE  painted = Listed(server) /\ pending \subseteq dropped
    <3>1. rows = server /\ server \in Table
      BY <2>1 DEF SurfaceInv, MirrorInv, QuietMirror, RowsTypeOK
    <3>2. painted = Listed(server) BY <3>1 DEF SurfaceInv, EffectsRan
    <3>3. ASSUME NEW r \in pending, r \notin dropped PROVE FALSE
      <4>1. r \in handovers /\ server[r] # Gone /\ r \in Rows
        BY <2>1, <3>3 DEF SurfaceInv, Awaited, SurfaceTypeOK
      <4>2. server[r] \in Values BY <3>1, <4>1 DEF Table
      <4>3. r \in Listed(rows) \cup Lost(rows)
        BY <2>1, <3>1, <4>1, <4>2 DEF Listed, Lost
      <4> QED BY <4>1, <4>3 DEF SurfaceInv, EffectsRan
    <3> QED BY <3>2, <3>3
  <2> QED BY <2>1 DEF HighlightsAreNotes, SurfaceInv, EffectsRan, WritesMeant
<1>2. (\E initial \in [Rows -> (Values \ Findable) \cup {Gone}] : InitRows(initial))
         /\ InitSurface => SurfaceInv
  BY InitSurfaceInv
<1> QED BY <1>1, <1>2, SurfaceStep, PTL DEF SurfaceSpec

=============================================================================
