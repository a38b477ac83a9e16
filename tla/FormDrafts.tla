----------------------------- MODULE FormDrafts -----------------------------
(***************************************************************************)
(* Two forms over a query: the learner's agent (ai/AgentConfigPanel.tsx,   *)
(* GET and PUT /ai/config) and a row of the price list                     *)
(* (admin/AdminPricing.tsx, PricingRowEditor). The fields are a draft,     *)
(* seeded from the first answer and never again by a later load; a save    *)
(* that the server took seeds it with what the server keeps, which may be  *)
(* put differently than what was sent. The row reads that off the answer,  *)
(* the agent's form loads the query again and so joins a load under way    *)
(* (fetchQuery), which may have been read before the save.                 *)
(***************************************************************************)
EXTENDS Naturals

CONSTANTS
    Contents,       \* what can be saved
    Canon,          \* Canon[c]: how the server keeps c
    Invalid,        \* too long, or not a number: the button is off
    Unread,         \* not seeded yet
    MaxMoves        \* bound: edits, saves and writes by others

ASSUME DraftAssumption ==
    /\ Canon \in [Contents -> Contents]
    /\ Invalid \notin Contents /\ Unread \notin Contents \cup {Invalid}
    /\ MaxMoves \in Nat

VARIABLES
    which,          \* "agent" or "price"
    kept,           \* on the server
    fit,            \* the query has data and is not in error
    get,            \* the GET in flight, and whether a save waits for it
    entered,
    put,            \* the save, and whether this editor still shows it
    since,          \* history: what the server kept since it took the save
    edited,         \* history: edited since it was seeded
    early,          \* history: the save was seeded from an earlier reading
    moves

draftVars == <<which, kept, fit, get, entered, put, since, edited, early, moves>>

NoGet == [at |-> "idle", value |-> Unread, awaited |-> FALSE]
Getting == [NoGet EXCEPT !.at = "asked"]
NoPut == [at |-> "none", value |-> Unread]
Saving == put.at \in {"sent", "taken", "reading"}
Move == moves < MaxMoves /\ moves' = moves + 1

InitDrafts ==
    /\ which \in {"agent", "price"}
    /\ kept \in Contents /\ fit = FALSE /\ get = Getting
    /\ entered = Unread /\ put = NoPut
    /\ since = {} /\ edited = FALSE /\ early = FALSE /\ moves = 0

-----------------------------------------------------------------------------
LoadDraft ==
    /\ get.at = "idle"
    /\ get' = Getting
    /\ UNCHANGED <<which, kept, fit, entered, put, since, edited, early, moves>>

ReadDraft ==
    /\ get.at = "asked"
    /\ get' = [get EXCEPT !.at = "read", !.value = kept]
    /\ UNCHANGED <<which, kept, fit, entered, put, since, edited, early, moves>>

(* The answer seeds fields that are not seeded yet, or that a save seeds.  *)
AnswerDraft ==
    /\ get.at = "read"
    /\ fit' = TRUE /\ get' = NoGet
    /\ IF entered = Unread \/ get.awaited
       THEN entered' = get.value /\ edited' = FALSE
       ELSE UNCHANGED <<entered, edited>>
    /\ put' = IF get.awaited THEN [put EXCEPT !.at = "success"] ELSE put
    /\ UNCHANGED <<which, kept, since, early, moves>>

(* The agent's form is hidden, the price list is taken down with its rows; *)
(* a save that waits is told to have been refused.                         *)
FailDraft ==
    /\ get.at # "idle"
    /\ fit' = FALSE /\ get' = NoGet
    /\ CASE which = "price" -> entered' = Unread /\ edited' = FALSE /\ put' = NoPut
         [] which = "agent" ->
                /\ put' = IF get.awaited THEN [put EXCEPT !.at = "error"] ELSE put
                /\ UNCHANGED <<entered, edited>>
    /\ UNCHANGED <<which, kept, since, early, moves>>

-----------------------------------------------------------------------------
TypeDraft(content) ==
    /\ fit /\ entered # Unread /\ Move
    /\ entered' = content /\ edited' = TRUE
    /\ UNCHANGED <<which, kept, fit, get, put, since, early>>

SaveDraft ==
    /\ fit /\ entered \in Contents /\ ~Saving /\ Move
    /\ put' = [at |-> "sent", value |-> entered]
    /\ UNCHANGED <<which, kept, fit, get, entered, since, edited, early>>

TakeDraft ==
    /\ put.at = "sent"
    /\ kept' = Canon[put.value] /\ since' = {kept'}
    /\ put' = [at |-> "taken", value |-> kept']
    /\ UNCHANGED <<which, fit, get, entered, edited, early, moves>>

(* Mutant: the query is loaded again, and the fields stay as they are. *)
AnswerPutUnread ==
    /\ put.at = "taken"
    /\ put' = [put EXCEPT !.at = "success"]
    /\ IF which = "price" THEN entered' = put.value /\ UNCHANGED get
       ELSE get' = Getting /\ UNCHANGED entered
    /\ edited' = FALSE
    /\ UNCHANGED <<which, kept, fit, since, early, moves>>

(* onSuccess. *)
AnswerPut ==
    /\ put.at = "taken"
    /\ CASE which = "price" ->
                /\ put' = [put EXCEPT !.at = "success"]
                /\ entered' = put.value /\ edited' = FALSE
                /\ UNCHANGED <<get, early>>
         [] which = "agent" ->
                /\ put' = [put EXCEPT !.at = "reading"]
                /\ early' = (get.at = "read")
                /\ get' = [IF get.at = "idle" THEN Getting ELSE get EXCEPT !.awaited = TRUE]
                /\ UNCHANGED <<entered, edited>>
    /\ UNCHANGED <<which, kept, fit, since, moves>>

FailPut ==
    /\ put.at \in {"sent", "taken"}
    /\ put' = [put EXCEPT !.at = "error"]
    /\ UNCHANGED <<which, kept, fit, get, entered, since, edited, early, moves>>

(* The same form in another tab, or another operator's. *)
SavedElsewhere(content) ==
    /\ Move
    /\ kept' = Canon[content] /\ since' = since \cup {kept'}
    /\ UNCHANGED <<which, fit, get, entered, put, edited, early>>

DraftNext ==
    \/ LoadDraft \/ ReadDraft \/ AnswerDraft \/ FailDraft
    \/ \E content \in Contents \cup {Invalid} : TypeDraft(content)
    \/ SaveDraft \/ TakeDraft \/ AnswerPut \/ FailPut
    \/ \E content \in Contents : SavedElsewhere(content)

DraftSpec == InitDrafts /\ [][DraftNext]_draftVars

-----------------------------------------------------------------------------
DraftTypeOK ==
    /\ which \in {"agent", "price"} /\ kept \in Contents /\ fit \in BOOLEAN
    /\ get \in [at : {"idle", "asked", "read"}, value : Contents \cup {Unread},
                awaited : BOOLEAN]
    /\ entered \in Contents \cup {Invalid, Unread}
    /\ put \in [at : {"none", "sent", "taken", "reading", "success", "error"},
                value : Contents \cup {Unread}]
    /\ since \subseteq Contents /\ edited \in BOOLEAN /\ early \in BOOLEAN
    /\ moves \in 0 .. MaxMoves

(* Where a form says "saved" and nothing was typed since, it shows what the *)
(* server kept when it took the save, or later; unless the reading it is   *)
(* seeded from was under way already, and may be of before the save.       *)
SavedIsShown ==
    put.at = "success" /\ ~edited => entered \in since \/ early

=============================================================================
