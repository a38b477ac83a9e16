---------------------------- MODULE NoteSurface ----------------------------
(***************************************************************************)
(* What a learner selects on the page and what becomes of it: a highlight  *)
(* (annotations/SelectionToolbar.tsx), painted under a temporary id before *)
(* its note is written, or the new home of a note that lost its place      *)
(* (annotations/OrphanPanel.tsx). Both listen to the one selection; the    *)
(* rescue of a note takes it from the toolbar. Beneath them are the rows   *)
(* of useAnnotations.ts: the value of a row is its anchor, found on this   *)
(* page or not; the notes that are found are painted (NotePlacement says   *)
(* how and when; here the effects have run before the next event).         *)
(*                                                                         *)
(* A row of its own stands for each highlight that may be made: a failed   *)
(* one is made again under another id.                                     *)
(***************************************************************************)
EXTENDS OptimisticRows

CONSTANTS
    Findable,       \* the anchors that this page holds
    Kinds           \* what a selection in the chapter is: only space,
                    \* only formulas, or words

ASSUME SurfaceAssumption ==
    Findable \subseteq Values /\ Kinds \subseteq {"blank", "formula", "words"}

VARIABLES
    selected, heard,    \* the selection, and whether its event came round
    toolbar,            \* lastRangeRef while the toolbar is shown
    unborn,             \* highlights not made yet
    painted, pending,   \* notes on the page, and temporary paints
    handovers,          \* stored highlights whose note is not seen yet
    rescuing,           \* reattaching: the one orphan, or none
    candidate,          \* the rescue's view of the selection; "ok": rangeRef is words
    dropped             \* history: deleted with their temporary paint on

selectionVars == <<selected, heard, toolbar>>
paintVars == <<painted, pending, handovers>>
rescueVars == <<rescuing, candidate>>
ownSurfaceVars == <<selectionVars, unborn, paintVars, rescueVars, dropped>>
surfaceVars == <<rowVars, ownSurfaceVars>>

Selections == Kinds \cup {"nothing"}

Listed(table) == {r \in Rows : table # Unloaded /\ table[r] \in Findable}
Lost(table) == {r \in Rows : table # Unloaded /\ table[r] \in Values \ Findable}

InitSurface ==
    /\ selected = "nothing" /\ heard = TRUE /\ toolbar = "nothing"
    /\ unborn = {r \in Rows : server[r] = Gone}
    /\ painted = {} /\ pending = {} /\ handovers = {}
    /\ rescuing = {} /\ candidate = "none"
    /\ dropped = {}

(* The effects after the rows, the stored highlights or the rescue changed: *)
(* notes are painted, a temporary paint gives way to its note, and a rescue *)
(* of what is no orphan ends.                                               *)
Follow(wet, stored, rescue) ==
    LET settled == Listed(rows') \cup Lost(rows')
    IN  /\ painted' = Listed(rows')
        /\ handovers' = stored \ settled
        /\ pending' = wet \ (stored \cap settled)
        /\ rescuing' = rescue \cap Lost(rows')
        /\ candidate' = IF rescuing' = rescuing THEN candidate ELSE "none"

-----------------------------------------------------------------------------
(* The selection.                                                          *)

Select(what) ==
    /\ what # selected
    /\ selected' = what /\ heard' = FALSE
    /\ UNCHANGED <<rowVars, toolbar, unborn, paintVars, rescueVars, dropped>>

(* onSelectionChange, of the toolbar or of the rescue. *)
Hear ==
    /\ ~heard /\ heard' = TRUE
    /\ IF rescuing = {}
       THEN toolbar' = selected /\ UNCHANGED candidate
       ELSE /\ candidate' = CASE selected = "nothing" -> "none"
                              [] selected = "words" -> "ok"
                              [] OTHER -> "unusable"
            /\ UNCHANGED toolbar
    /\ UNCHANGED <<rowVars, selected, unborn, paintVars, rescuing, dropped>>

(* What a click is about: the selection as it is, or as it was remembered. *)
Regarding(fallback) == IF selected = "nothing" THEN fallback ELSE selected

Deselected == selected' = "nothing" /\ heard' = FALSE

(* Escape, a click beside the toolbar, or its "dig deeper". *)
Dismiss ==
    /\ toolbar # "nothing" /\ toolbar' = "nothing"
    /\ UNCHANGED <<rowVars, selected, heard, unborn, paintVars, rescueVars, dropped>>

-----------------------------------------------------------------------------
(* A highlight.                                                            *)

(* createFrom, up to its await. *)
Highlight(r, anchor) ==
    /\ toolbar # "nothing" /\ r \in unborn
    /\ toolbar' = "nothing"
    /\ IF Regarding(toolbar) \in {"formula", "words"}
       THEN /\ unborn' = unborn \ {r}
            /\ Deselected
            /\ BeginWrite([kind |-> "create", row |-> r, value |-> anchor,
                           by |-> "toolbar"])
            /\ Follow(pending \cup {r}, handovers, rescuing)
       ELSE UNCHANGED <<rowVars, selected, heard, unborn, paintVars, rescueVars>>
    /\ UNCHANGED dropped

(* Mutant: a failure leaves the paint. *)
SettleSurfaceColoured(w) ==
    /\ SettleWrite(w)
    /\ IF w.by = "toolbar" /\ w.stage = "taken"
       THEN Follow(pending, handovers \cup {w.row}, rescuing)
       ELSE Follow(pending, handovers,
                   IF w.by = "rescue" /\ w.stage = "taken" THEN {} ELSE rescuing)
    /\ UNCHANGED <<selectionVars, unborn, dropped>>

(* A write is answered. A highlight that is stored waits for its note; one *)
(* that is not loses its paint. A rescue that is stored ends the rescue    *)
(* under way, which may be that of another note by now.                    *)
SettleSurface(w) ==
    /\ SettleWrite(w)
    /\ CASE w.by = "toolbar" /\ w.stage = "taken" ->
                Follow(pending, handovers \cup {w.row}, rescuing)
         [] w.by = "toolbar" /\ w.stage = "failed" ->
                Follow(pending \ {w.row}, handovers, rescuing)
         [] w.by = "rescue" /\ w.stage = "taken" -> Follow(pending, handovers, {})
         [] OTHER -> Follow(pending, handovers, rescuing)
    /\ UNCHANGED <<selectionVars, unborn, dropped>>

(* The card of a note deletes it. *)
RemoveNote(r) ==
    /\ r \in painted
    /\ BeginWrite([kind |-> "remove", row |-> r, value |-> rows[r], by |-> "card"])
    /\ Follow(pending, handovers, rescuing)
    /\ dropped' = dropped \cup ({r} \cap pending)
    /\ UNCHANGED <<selectionVars, unborn>>

-----------------------------------------------------------------------------
(* The rescue of a note.                                                   *)

(* "Reattach", on a row of the panel: the toolbar is suspended. *)
StartRescue(r) ==
    /\ r \in Lost(rows) \ rescuing
    /\ rescuing' = {r} /\ candidate' = "none"
    /\ toolbar' = "nothing"
    /\ UNCHANGED <<rowVars, selected, heard, unborn, paintVars, dropped>>

(* Mutant: what the button saw is not asked again on the click. *)
ConfirmUnasked(anchor) ==
    /\ rescuing # {} /\ candidate = "ok"
    /\ \E r \in rescuing, found \in IF Regarding("words") = "words" THEN {anchor}
                                    ELSE Values \ Findable :
          BeginWrite([kind |-> "update", row |-> r, value |-> found, by |-> "rescue"])
    /\ Deselected
    /\ Follow(pending, handovers, rescuing)
    /\ UNCHANGED <<toolbar, unborn, dropped>>

(* confirmReattach: the selection may have moved since it was offered; a   *)
(* space or a formula is refused. The note is shown in its new place, and  *)
(* the rescue is over, before the write is answered.                       *)
Confirm(anchor) ==
    /\ rescuing # {} /\ candidate = "ok"
    /\ Regarding("words") = "words"
    /\ \E r \in rescuing :
          BeginWrite([kind |-> "update", row |-> r, value |-> anchor, by |-> "rescue"])
    /\ Deselected
    /\ Follow(pending, handovers, rescuing)
    /\ UNCHANGED <<toolbar, unborn, dropped>>

(* Escape, or "cancel". *)
CancelRescue ==
    /\ rescuing # {}
    /\ rescuing' = {} /\ candidate' = "none"
    /\ UNCHANGED <<rowVars, selectionVars, unborn, paintVars, dropped>>

-----------------------------------------------------------------------------
(* The page is drawn again: the selection and every paint go with it; what *)
(* a toolbar still shown remembers is no longer in the chapter, and its    *)
(* click does no more than with a blank.                                   *)
Redraw ==
    /\ rows # Unloaded
    /\ Deselected
    /\ toolbar' = IF toolbar = "nothing" THEN "nothing" ELSE "blank"
    /\ pending' = {} /\ handovers' = {} /\ dropped' = {}
    /\ candidate' = "none"
    /\ UNCHANGED <<rowVars, unborn, painted, rescuing>>

SurfaceRows ==
    /\ RowsStep
    /\ Follow(pending, handovers, rescuing)
    /\ UNCHANGED <<selectionVars, unborn, dropped>>

SurfaceNext ==
    \/ SurfaceRows \/ Hear \/ Dismiss \/ CancelRescue \/ Redraw
    \/ \E what \in Selections : Select(what)
    \/ \E r \in Rows : RemoveNote(r) \/ StartRescue(r)
    \/ \E r \in Rows, anchor \in Findable : Highlight(r, anchor)
    \/ \E anchor \in Findable : Confirm(anchor)
    \/ \E w \in writes : SettleSurface(w)

SurfaceSpec ==
    /\ \E initial \in [Rows -> (Values \ Findable) \cup {Gone}] : InitRows(initial)
    /\ InitSurface
    /\ [][SurfaceNext]_surfaceVars

-----------------------------------------------------------------------------
SurfaceTypeOK ==
    /\ selected \in Selections /\ toolbar \in Selections \cup {"blank"} /\ heard \in BOOLEAN
    /\ unborn \subseteq Rows /\ painted \subseteq Rows /\ pending \subseteq Rows
    /\ handovers \subseteq Rows /\ rescuing \subseteq Rows /\ dropped \subseteq Rows
    /\ candidate \in {"none", "unusable", "ok"}

(* One selection has one owner, and a rescue never trades the words a note *)
(* is about for what cannot be found again, even when the selection moved  *)
(* between the offer and the click. And once every write is answered and   *)
(* the rows are loaded, what is coloured is what is stored: every note     *)
(* found on the page, and no temporary paint, however writes overlapped    *)
(* and rolled each other back; save that of a highlight deleted before its *)
(* creation was answered, which stays until the page is drawn again.       *)
HighlightsAreNotes ==
    /\ toolbar # "nothing" => rescuing = {}
    /\ \A w \in writes : w.by = "rescue" => w.value \in Findable
    /\ writes = {} /\ load = Idle /\ ~stale /\ rows # Unloaded =>
          painted = Listed(server) /\ pending \subseteq dropped

=============================================================================
