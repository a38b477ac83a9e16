---------------------------- MODULE AdminSettings ----------------------------
(***************************************************************************)
(* The base prompt and the signup grant in admin/AdminPricing.tsx. The     *)
(* draft is seeded once from the first answer of GET /admin/ai/settings    *)
(* and again from the answer of each save; the query is loaded again when  *)
(* the window has the focus. A save carries the grant only if it differs   *)
(* from the grant in the query; UpdateSettings (ai/credits.go) leaves an   *)
(* absent grant alone and files an audit row for a present one. Another    *)
(* operator, or another tab, may save in between.                          *)
(***************************************************************************)
EXTENDS Naturals

CONSTANTS
    Prompts, Grants,
    Unsendable,     \* a text that the form does not send: an empty or too
                    \* long prompt, a grant that is no number or above its cap
    LeaveAlone,     \* the field is absent
    Unseeded,       \* null: no answer yet
    MaxSteps        \* bound: edits, saves and edits by others

ASSUME SettingsAssumption ==
    /\ Unsendable \notin Prompts \cup Grants /\ LeaveAlone \notin Grants
    /\ Unseeded \notin [prompt : Prompts \cup {Unsendable}, grant : Grants \cup {Unsendable}]
    /\ MaxSteps \in Nat

VARIABLES
    stored,         \* the settings on the server
    cached,         \* settingsQuery.data
    refetch,        \* the GET in flight and what it read
    fields,
    seed,           \* history: the grant that the draft was seeded with
    touched,        \* history: the grant's field was typed in since
    save,           \* the save: what it carries, what it was answered
    steps

settingsVars == <<stored, cached, refetch, fields, seed, touched, save, steps>>

Policy == [prompt : Prompts, grant : Grants]
Drafts == [prompt : Prompts \cup {Unsendable}, grant : Grants \cup {Unsendable}]
NoSave == [at |-> "none", prompt |-> Unsendable, grant |-> LeaveAlone,
           typed |-> FALSE, moved |-> FALSE, answer |-> Unseeded]
Within == steps < MaxSteps /\ steps' = steps + 1

InitSettings ==
    /\ stored \in Policy
    /\ cached = Unseeded /\ refetch = [at |-> "asked", read |-> Unseeded]
    /\ fields = Unseeded /\ seed = LeaveAlone /\ touched = FALSE
    /\ save = NoSave /\ steps = 0

-----------------------------------------------------------------------------
RefocusSettings ==
    /\ refetch.at = "idle"
    /\ refetch' = [at |-> "asked", read |-> Unseeded]
    /\ UNCHANGED <<stored, cached, fields, seed, touched, save, steps>>

ReadSettings ==
    /\ refetch.at = "asked"
    /\ refetch' = [at |-> "read", read |-> stored]
    /\ UNCHANGED <<stored, cached, fields, seed, touched, save, steps>>

(* The answer; the effects seed a draft that is not there yet. *)
AnswerSettings ==
    /\ refetch.at = "read"
    /\ cached' = refetch.read
    /\ IF fields = Unseeded
       THEN fields' = refetch.read /\ seed' = refetch.read.grant
       ELSE UNCHANGED <<fields, seed>>
    /\ refetch' = [at |-> "idle", read |-> Unseeded]
    /\ UNCHANGED <<stored, touched, save, steps>>

TypePrompt(text) ==
    /\ fields # Unseeded /\ Within
    /\ fields' = [fields EXCEPT !.prompt = text]
    /\ UNCHANGED <<stored, cached, refetch, seed, touched, save>>

TypeGrant(text) ==
    /\ fields # Unseeded /\ Within
    /\ fields' = [fields EXCEPT !.grant = text] /\ touched' = TRUE
    /\ UNCHANGED <<stored, cached, refetch, seed, save>>

(* The grant in the query is not the one that the draft was seeded with. *)
GrantMoved == cached.grant # seed

(* Mutant: the grant is compared with nothing. *)
SubmitSettingsWhole ==
    /\ fields # Unseeded /\ Unsendable \notin {fields.prompt, fields.grant}
    /\ save.at \notin {"sent", "taken"} /\ Within
    /\ save' = [at |-> "sent", prompt |-> fields.prompt,
                typed |-> touched, moved |-> GrantMoved,
                grant |-> fields.grant, answer |-> Unseeded]
    /\ UNCHANGED <<stored, cached, refetch, fields, seed, touched>>

(* canSave and grantChanged. *)
SubmitSettings ==
    /\ fields # Unseeded /\ Unsendable \notin {fields.prompt, fields.grant}
    /\ save.at \notin {"sent", "taken"} /\ Within
    /\ save' = [at |-> "sent", prompt |-> fields.prompt,
                typed |-> touched, moved |-> GrantMoved,
                grant |-> IF fields.grant # cached.grant THEN fields.grant ELSE LeaveAlone,
                answer |-> Unseeded]
    /\ UNCHANGED <<stored, cached, refetch, fields, seed, touched>>

(* The server stores what the save carries and answers with all of it. *)
TakeSave ==
    /\ save.at = "sent"
    /\ stored' = [prompt |-> save.prompt,
                  grant |-> IF save.grant = LeaveAlone THEN stored.grant ELSE save.grant]
    /\ save' = [save EXCEPT !.at = "taken", !.answer = stored']
    /\ UNCHANGED <<cached, refetch, fields, seed, touched, steps>>

(* onSuccess: the draft is what the server stored, and the query is loaded *)
(* again in place of any load in flight.                                   *)
AnswerSave ==
    /\ save.at = "taken"
    /\ fields' = save.answer /\ seed' = save.answer.grant /\ touched' = FALSE
    /\ save' = NoSave
    /\ refetch' = [at |-> "asked", read |-> Unseeded]
    /\ UNCHANGED <<stored, cached, steps>>

FailSave ==
    /\ save.at \in {"sent", "taken"}
    /\ save' = NoSave
    /\ UNCHANGED <<stored, cached, refetch, fields, seed, touched, steps>>

(* Another operator saves. *)
Elsewhere(policy) ==
    /\ stored' = policy /\ policy # stored /\ Within
    /\ UNCHANGED <<cached, refetch, fields, seed, touched, save>>

SettingsNext ==
    \/ RefocusSettings \/ ReadSettings \/ AnswerSettings
    \/ \E text \in Prompts \cup {Unsendable} : TypePrompt(text)
    \/ \E text \in Grants \cup {Unsendable} : TypeGrant(text)
    \/ SubmitSettings \/ TakeSave \/ AnswerSave \/ FailSave
    \/ \E policy \in Policy : Elsewhere(policy)

SettingsSpec == InitSettings /\ [][SettingsNext]_settingsVars

-----------------------------------------------------------------------------
SettingsTypeOK ==
    /\ stored \in Policy
    /\ cached \in Policy \cup {Unseeded}
    /\ refetch \in [at : {"idle", "asked", "read"}, read : Policy \cup {Unseeded}]
    /\ fields \in Drafts \cup {Unseeded}
    /\ seed \in Grants \cup {LeaveAlone} /\ touched \in BOOLEAN
    /\ save \in [at : {"none", "sent", "taken"}, prompt : Prompts \cup {Unsendable},
                 grant : Grants \cup {LeaveAlone}, typed : BOOLEAN, moved : BOOLEAN,
                 answer : Policy \cup {Unseeded}]
    /\ steps \in 0 .. MaxSteps

(* A save of the prompt leaves the grant alone, which an operator who only  *)
(* edits the prompt relies on, unless the operator typed in the grant's    *)
(* field, or the draft was seeded with another grant than the query holds. *)
(* That is what is left of GrantSentOnlyIfTouched: the query is loaded     *)
(* again after somebody else changed the grant, or not yet after a save of *)
(* this page changed it.                                                   *)
GrantIntended == save.grant # LeaveAlone => save.typed \/ save.moved

(* The grant is SENT ONLY WHEN IT ACTUALLY CHANGED (AdminPricing.tsx): a   *)
(* save that carries it was made by an operator who typed in its field.    *)
GrantSentOnlyIfTouched == save.grant # LeaveAlone => save.typed

=============================================================================
