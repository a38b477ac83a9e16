--------------------------- MODULE NotePlacement ---------------------------
(***************************************************************************)
(* Finding the notes of a chapter on its page and painting them there: the *)
(* effect of annotations/useAnnotations.ts that runs whenever the rows or  *)
(* the content change, and the deferred pass it leaves behind. What finds  *)
(* a quote (anchor.ts) is abstracted to how it is found in this content:   *)
(* verbatim, only by the fuzzy tier, or not at all. What anchors are found *)
(* against is a map of the page (normalize.ts), spoilt by any painting.    *)
(***************************************************************************)
EXTENDS Naturals, FiniteSets

CONSTANTS
    Notes, Anchors,
    Missing,        \* no row; no attempt
    ChunkMax,       \* DEFERRED_CHUNK_MAX
    MaxRenders      \* bound: changes of the rows or the content

ASSUME PlacementAssumption ==
    Missing \notin Anchors /\ ChunkMax \in Nat \ {0} /\ MaxRenders \in Nat

VARIABLES
    anchors,        \* the anchor of each live row of the chapter
    found,          \* how this content holds the quote of an anchor
    attempts,       \* per note: the anchor tried, and how far it came
    map,            \* the pass's map of the page: none, fresh or spoilt
    marks,          \* layers of highlight of each note on the page
    scheduled,      \* the deferred pass has a chunk to run
    placements,     \* published: which notes are in list, and in orphans
    threw,          \* history: an anchor was looked up in a spoilt map
    renders

passVars == <<attempts, map, marks, scheduled, placements, threw>>
placementVars == <<anchors, found, passVars, renders>>

Stages == {"new", "fuzzy-pending", "settled"}
NoAttempt == [on |-> Missing, stage |-> "new", placed |-> FALSE]
AtStage(as, stage) == {n \in Notes : as[n].on # Missing /\ as[n].stage = stage}

Published(as) ==
    [n \in Notes |-> IF n \in AtStage(as, "settled")
                     THEN IF as[n].placed THEN "list" ELSE "orphans"
                     ELSE "neither"]

-----------------------------------------------------------------------------
(* anchorToRange for one note: the exact tiers, or all of them. *)
Hit(f, anchor, fuzzy) == f[anchor] = "exact" \/ (fuzzy /\ f[anchor] = "fuzzy")

Resolved(as, f, batch, fuzzy) ==
    [n \in Notes |->
        IF n \notin batch THEN as[n]
        ELSE IF Hit(f, as[n].on, fuzzy)
        THEN [as[n] EXCEPT !.stage = "settled", !.placed = TRUE]
        ELSE [as[n] EXCEPT !.stage = IF fuzzy THEN "settled" ELSE "fuzzy-pending"]]

(* Mutant: a map that was kept is used as it is. *)
MapKept(m) == IF m = "none" THEN "fresh" ELSE m

(* mapOf: a map that somebody else's painting spoilt is built again. *)
MapOf(m) == "fresh"

(* resolveBatch: looks a batch up in one map, then paints what it found. *)
ResolveBatch(as, m, laid, f, batch, fuzzy) ==
    LET after == Resolved(as, f, batch, fuzzy)
        hits == {n \in batch : after[n].placed}
        used == MapOf(m)
    IN  /\ attempts' = after
        /\ marks' = [n \in Notes |-> IF n \in hits THEN laid[n] + 1 ELSE laid[n]]
        /\ map' = IF batch = {} THEN m ELSE IF hits = {} THEN used ELSE "none"
        /\ threw' = (threw \/ (batch # {} /\ used = "spoilt"))
        /\ placements' = Published(after)

(* Mutant: a note whose anchor changed is tried again, not unpainted. *)
ForgetNothing(as, laid, rows) == laid

(* What is left on the page once the notes that are gone, or anchored      *)
(* elsewhere, are unpainted.                                               *)
Unpainted(as, laid, rows) ==
    [n \in Notes |-> IF as[n].on \notin {Missing, rows[n]} /\ as[n].placed
                     THEN 0 ELSE laid[n]]

(* The effect: forget, begin anew, resolve verbatim, publish, and leave     *)
(* the rest to a deferred pass in place of the one before.                  *)
Effect(as, m, laid, rows, f) ==
    LET begun == [n \in Notes |->
            IF as[n].on = rows[n] THEN as[n] ELSE [NoAttempt EXCEPT !.on = rows[n]]]
        left == Unpainted(as, laid, rows)
    IN  /\ ResolveBatch(begun, IF left # laid THEN "none" ELSE m, left, f,
                        AtStage(begun, "new"), FALSE)
        /\ scheduled' = (AtStage(attempts', "fuzzy-pending") # {})

InitPlacement ==
    /\ anchors = [n \in Notes |-> Missing]
    /\ found \in [Anchors -> {"exact", "fuzzy", "nowhere"}]
    /\ attempts = [n \in Notes |-> NoAttempt]
    /\ map = "none" /\ marks = [n \in Notes |-> 0] /\ scheduled = FALSE
    /\ placements = Published(attempts) /\ threw = FALSE /\ renders = 0

-----------------------------------------------------------------------------
(* The rows change: a load, an optimistic write, its rollback; or do not,  *)
(* and the effect runs again (StrictMode).                                 *)
RowsRender(rows) ==
    /\ renders < MaxRenders /\ renders' = renders + 1
    /\ anchors' = rows
    /\ Effect(attempts, map, marks, rows, found)
    /\ UNCHANGED found

(* Other content, or another revision of it: nothing painted is left. *)
ContentRender(f) ==
    /\ renders < MaxRenders /\ renders' = renders + 1
    /\ found' = f
    /\ Effect([n \in Notes |-> NoAttempt], "none", [n \in Notes |-> 0], anchors, f)
    /\ UNCHANGED anchors

(* Mutant: the deferred pass does not schedule its next chunk. *)
StepOnce ==
    /\ scheduled
    /\ \E chunk \in SUBSET AtStage(attempts, "fuzzy-pending") :
          /\ Cardinality(chunk) \in 1 .. ChunkMax
          /\ ResolveBatch(attempts, map, marks, found, chunk, TRUE)
    /\ scheduled' = FALSE
    /\ UNCHANGED <<anchors, found, renders>>

(* A chunk of the deferred pass: as many as the clock and ChunkMax allow,  *)
(* one at least.                                                           *)
Step ==
    /\ scheduled
    /\ \E chunk \in SUBSET AtStage(attempts, "fuzzy-pending") :
          /\ Cardinality(chunk) \in 1 .. ChunkMax
          /\ ResolveBatch(attempts, map, marks, found, chunk, TRUE)
    /\ scheduled' = (AtStage(attempts', "fuzzy-pending") # {})
    /\ UNCHANGED <<anchors, found, renders>>

(* SelectionToolbar paints a highlight whose row has not come round yet, or *)
(* takes it away.                                                           *)
PaintElsewhere ==
    /\ map = "fresh"
    /\ map' = "spoilt"
    /\ UNCHANGED <<anchors, found, attempts, marks, scheduled, placements,
                   threw, renders>>

PlacementNext ==
    \/ \E rows \in [Notes -> Anchors \cup {Missing}] : RowsRender(rows)
    \/ \E f \in [Anchors -> {"exact", "fuzzy", "nowhere"}] : ContentRender(f)
    \/ Step \/ PaintElsewhere

PlacementSpec == InitPlacement /\ [][PlacementNext]_placementVars

-----------------------------------------------------------------------------
PlacementTypeOK ==
    /\ anchors \in [Notes -> Anchors \cup {Missing}]
    /\ found \in [Anchors -> {"exact", "fuzzy", "nowhere"}]
    /\ attempts \in [Notes -> [on : Anchors \cup {Missing}, stage : Stages,
                               placed : BOOLEAN]]
    /\ map \in {"none", "fresh", "spoilt"}
    /\ marks \in [Notes -> Nat]
    /\ scheduled \in BOOLEAN /\ threw \in BOOLEAN
    /\ placements \in [Notes -> {"neither", "list", "orphans"}]
    /\ renders \in 0 .. MaxRenders

(* Once no chunk is due every live note is in list or in orphans, and in   *)
(* orphans only if no tier finds it: none is given up, none is called lost *)
(* that merely was not tried.                                              *)
NoNoteAbandoned ==
    /\ \A n \in Notes : placements[n] = "orphans" => found[anchors[n]] = "nowhere"
    /\ ~scheduled => \A n \in Notes :
          placements[n] = IF anchors[n] = Missing THEN "neither"
                          ELSE IF found[anchors[n]] = "nowhere" THEN "orphans"
                          ELSE "list"

(* A note is painted once where it is in list and nowhere else, whatever   *)
(* the rows went through meanwhile; and no anchor is looked up in a map of *)
(* a page painted since: StaleNormMapError, which nothing catches, is      *)
(* never thrown.                                                           *)
PaintedOnce ==
    /\ ~threw
    /\ \A n \in Notes : marks[n] = IF placements[n] = "list" THEN 1 ELSE 0

=============================================================================
