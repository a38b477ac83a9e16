----------------------------- MODULE NoteEditing -----------------------------
(***************************************************************************)
(* Writing in the margin: the card that is open, with what is typed in it  *)
(* (annotations/MarginCards.tsx), the copy of that text in localStorage    *)
(* which survives a page, and the store beneath both (useAnnotations.ts).  *)
(* A row is a note, its value the note's text; anchors, which `reattach'   *)
(* alone writes, and the placement of notes on the page are elsewhere:     *)
(* every note here is in `list'.                                           *)
(***************************************************************************)
EXTENDS OptimisticRows

CONSTANTS
    None,
    MaxReloads      \* bound: reloads of the page

VARIABLES
    focus, draft,   \* the open card, and [row, text] being typed in it
    written,        \* writtenRef: what flush last handed to the store
    stash,          \* [row, text] in localStorage, one slot
    recovered,      \* recoveredRef: the stash this mount already wrote
    emitted,        \* `list' changed and the effect on it has yet to run
    typed,          \* history: the last text typed, until the server took it
    reloads

cardVars == <<focus, draft, written, stash, recovered, emitted, typed, reloads>>
noteVars == <<rowVars, cardVars>>

InitCard ==
    /\ focus = None /\ draft = None /\ written = None /\ recovered = None
    /\ stash = None /\ emitted = FALSE /\ reloads = 0
    /\ typed = [r \in Rows |-> None]

Shows(r) == rows # Unloaded /\ rows[r] # Gone

Text(row, text) == [row |-> row, text |-> text]

(* updateNote; `list' changes with the rows. *)
UpdateNote(d, by) ==
    /\ BeginWrite([kind |-> "update", row |-> d.row, value |-> d.text, by |-> by])
    /\ emitted' = TRUE

-----------------------------------------------------------------------------
(* The card.                                                               *)

(* What flush still has to write. *)
Pending ==
    /\ draft # None
    /\ Shows(draft.row) /\ rows[draft.row] # draft.text
    /\ written # draft

Flushed ==
    IF Pending
    THEN UpdateNote(draft, "card") /\ written' = draft
    ELSE UNCHANGED <<rowVars, written, emitted>>

(* The timer, a blur, a page that is hidden. *)
FlushNow ==
    /\ Pending
    /\ Flushed
    /\ UNCHANGED <<focus, draft, stash, recovered, typed, reloads>>

(* A card opens, or the open one closes, which writes what was typed in it. *)
Focus(r) ==
    /\ r # focus
    /\ r # None => Shows(r)
    /\ Flushed
    /\ focus' = r
    /\ draft' = IF r = None THEN None ELSE Text(r, rows[r])
    /\ UNCHANGED <<stash, recovered, typed, reloads>>

(* onDraftChange: the stash follows every key. *)
Type(text) ==
    /\ focus # None /\ Shows(focus)
    /\ draft' = Text(focus, text) /\ draft' # draft
    /\ stash' = draft'
    /\ typed' = [typed EXCEPT ![focus] = text]
    /\ UNCHANGED <<rowVars, focus, written, recovered, emitted, reloads>>

(* onDelete drops the draft and its copy before it asks. *)
DeleteNote ==
    /\ focus # None /\ Shows(focus)
    /\ BeginWrite([kind |-> "remove", row |-> focus,
                   value |-> rows[focus], by |-> "card"])
    /\ stash' = IF stash # None /\ stash.row = focus THEN None ELSE stash
    /\ typed' = [typed EXCEPT ![focus] = None]
    /\ focus' = None /\ draft' = None /\ emitted' = TRUE
    /\ UNCHANGED <<written, recovered, reloads>>

(* The effect on `list': a stash that the list already shows is dropped,   *)
(* one that it does not is written, once.                                  *)
Recover ==
    /\ emitted
    /\ IF stash = None \/ ~Shows(stash.row)
       THEN emitted' = FALSE /\ UNCHANGED <<rowVars, stash, recovered>>
       ELSE IF rows[stash.row] = stash.text
       THEN emitted' = FALSE /\ stash' = None /\ UNCHANGED <<rowVars, recovered>>
       ELSE IF recovered = stash
       THEN emitted' = FALSE /\ UNCHANGED <<rowVars, stash, recovered>>
       ELSE UpdateNote(stash, "stash") /\ recovered' = stash /\ UNCHANGED stash
    /\ UNCHANGED <<focus, draft, written, typed, reloads>>

(* The answer to a write: taken, the stash it was for goes; failed, the    *)
(* text may be handed to the store again.                                  *)
NoteSettled(w) ==
    /\ SettleWrite(w)
    /\ emitted' = TRUE
    /\ IF w.stage = "taken"
       THEN /\ stash' = IF w.kind = "update" /\ stash = Text(w.row, w.value)
                        THEN None ELSE stash
            /\ UNCHANGED <<written, recovered>>
       ELSE /\ written' = IF w.by = "card" /\ w.kind = "update" THEN None ELSE written
            /\ recovered' = IF w.by = "stash" THEN None ELSE recovered
            /\ UNCHANGED stash
    /\ UNCHANGED <<focus, draft, typed, reloads>>

(* The page is reloaded: requests on their way are cut off. *)
Reload ==
    /\ reloads < MaxReloads /\ reloads' = reloads + 1
    /\ rows' = Unloaded /\ load' = Asked /\ stale' = FALSE /\ writes' = {}
    /\ focus' = None /\ draft' = None /\ written' = None /\ recovered' = None
    /\ emitted' = FALSE
    /\ UNCHANGED <<server, begun, stash, typed>>

(* What happens to the rows beneath: `list' follows, and what the server   *)
(* took is no longer only typed.                                           *)
RowsMove ==
    /\ RowsStep
    /\ emitted' = (emitted \/ rows' # rows)
    /\ typed' = [r \in Rows |-> IF server'[r] # server[r] /\ server'[r] = typed[r]
                                THEN None ELSE typed[r]]
    /\ UNCHANGED <<focus, draft, written, stash, recovered, reloads>>

NoteNext ==
    \/ RowsMove
    \/ FlushNow \/ DeleteNote \/ Recover \/ Reload
    \/ \E r \in Rows \cup {None} : Focus(r)
    \/ \E text \in Values : Type(text)
    \/ \E w \in writes : NoteSettled(w)

NoteSpec ==
    /\ \E initial \in [Rows -> Values] : InitRows(initial)
    /\ InitCard
    /\ [][NoteNext]_noteVars

-----------------------------------------------------------------------------
CardTypeOK ==
    /\ focus \in Rows \cup {None}
    /\ draft \in [row : Rows, text : Values] \cup {None}
    /\ written \in [row : Rows, text : Values] \cup {None}
    /\ stash \in [row : Rows, text : Values] \cup {None}
    /\ recovered \in [row : Rows, text : Values] \cup {None}
    /\ emitted \in BOOLEAN
    /\ typed \in [Rows -> Values \cup {None}]
    /\ reloads \in 0 .. MaxReloads

(* What a learner typed and the server did not take is still somewhere: in *)
(* the open card, in the stash, or in a write that may yet be taken.       *)
TypedTextNotLost ==
    \A r \in Rows : typed[r] # None =>
        \/ draft = Text(r, typed[r]) \/ stash = Text(r, typed[r])
        \/ \E w \in writes : w.kind = "update" /\ w.row = r /\ w.value = typed[r]

=============================================================================
