----------------------------- MODULE SearchBox -----------------------------
(***************************************************************************)
(* The search box in the top bar (shell/TopNav.tsx, TopSearch) over        *)
(* GET /search (api/search.ts). What is typed is asked for once the typing *)
(* has stopped for 200 ms; each text has a query of its own, whose answer  *)
(* may come when another text is asked for, and which keeps its hits when  *)
(* a later load of it fails. The arrows walk the hits of the text asked    *)
(* for as one list, courses before chapters, and Enter opens one.          *)
(*                                                                         *)
(* The input stays in the page when the box is closed, so a learner may    *)
(* still type in it.                                                       *)
(***************************************************************************)
EXTENDS Naturals, Sequences

CONSTANTS
    Wordings,       \* texts that the server takes
    Answers,        \* lists of hits that it may answer with
    NoAnswer        \* a text has no answer yet

(* An empty input, and one that is longer than the server takes. *)
NothingTyped == ""
Overlong == "too long"

ASSUME SearchAssumption ==
    /\ Wordings \cap {NothingTyped, Overlong} = {}
    /\ NoAnswer \notin Answers

VARIABLES
    term, debounced,    \* what is in the input; what is asked for
    opened, focused,    \* the box is open; the input has the focus
    active,             \* the highlighted hit, or 0
    answers,            \* answers[t]: the query's data and whether it is in error
    asking,             \* texts being asked for
    aimed,              \* history: the text whose hits the arrows moved in
    reported            \* history: what came of the text's last load

searchVars == <<term, debounced, opened, focused, active, answers, asking, aimed,
                reported>>
boxVars == <<term, opened, focused>>
answerVars == <<answers, asking, reported>>

Terms == Wordings \cup {NothingTyped, Overlong}
LongEnough(text) == text # NothingTyped
TooLong(text) == text = Overlong

InitSearch ==
    /\ term = NothingTyped /\ debounced = NothingTyped /\ opened = FALSE /\ focused = FALSE
    /\ active = 0
    /\ answers = [t \in Wordings |-> [hits |-> NoAnswer, error |-> FALSE]]
    /\ asking = {} /\ aimed = NothingTyped /\ reported = [t \in Wordings |-> "none"]

PanelOpen == opened /\ LongEnough(debounced)

(* buildGroups, flattened. *)
Hits ==
    IF debounced \in Wordings /\ answers[debounced].hits # NoAnswer
    THEN answers[debounced].hits ELSE <<>>

(* Mutant: the data is looked at before the error. *)
PanelForgetful ==
    IF TooLong(debounced) THEN "too long"
    ELSE IF answers[debounced].hits = <<>> THEN "nothing found"
    ELSE IF answers[debounced].error THEN "error"
    ELSE IF answers[debounced].hits = NoAnswer THEN "loading" ELSE "hits"

(* SearchPanelBody: an error is said first, even over hits of before. *)
Panel ==
    IF TooLong(debounced) THEN "too long"
    ELSE IF answers[debounced].error THEN "error"
    ELSE IF answers[debounced].hits = NoAnswer THEN "loading"
    ELSE IF answers[debounced].hits = <<>> THEN "nothing found" ELSE "hits"

-----------------------------------------------------------------------------
TypeTerm(text) ==
    /\ focused /\ text # term
    /\ term' = text
    /\ UNCHANGED <<debounced, opened, focused, active, answerVars, aimed>>

(* Mutant: the highlight stays where it is. *)
TypingStopsUnreset ==
    /\ debounced # term
    /\ debounced' = term
    /\ UNCHANGED <<boxVars, active, answerVars, aimed>>

(* The timer; another text has other hits, of which none is highlighted.   *)
(* An answer to the same text leaves the highlight where it is.            *)
TypingStops ==
    /\ debounced # term
    /\ debounced' = term /\ active' = 0
    /\ UNCHANGED <<boxVars, answerVars, aimed>>

(* The text is loaded while the panel shows, now and whenever it is stale. *)
AskFor(text) ==
    /\ PanelOpen /\ text = debounced /\ text \in Wordings \ asking
    /\ asking' = asking \cup {text}
    /\ answers' = [answers EXCEPT ![text].error = @ /\ answers[text].hits # NoAnswer]
    /\ UNCHANGED <<boxVars, debounced, active, aimed, reported>>

AnswerWith(text, hits) ==
    /\ text \in asking
    /\ asking' = asking \ {text}
    /\ answers' = [answers EXCEPT ![text] = [hits |-> hits, error |-> FALSE]]
    /\ reported' = [reported EXCEPT ![text] = IF hits = <<>> THEN "empty" ELSE "hits"]
    /\ UNCHANGED <<boxVars, debounced, active, aimed>>

(* No answer, or one of another shape (assertSearchResults). *)
FailToAnswer(text) ==
    /\ text \in asking
    /\ asking' = asking \ {text}
    /\ answers' = [answers EXCEPT ![text].error = TRUE]
    /\ reported' = [reported EXCEPT ![text] = "failure"]
    /\ UNCHANGED <<boxVars, debounced, active, aimed>>

-----------------------------------------------------------------------------
(* The shortcut, or the button of a closed box. *)
OpenBox ==
    /\ ~(opened /\ focused)
    /\ opened' = TRUE /\ focused' = TRUE
    /\ UNCHANGED <<term, debounced, active, answerVars, aimed>>

(* A press elsewhere, or the button of an open box. *)
CloseBox ==
    /\ opened
    /\ opened' = FALSE /\ focused' = FALSE
    /\ UNCHANGED <<term, debounced, active, answerVars, aimed>>

(* The first clears the text, the next closes the box. *)
Escape ==
    /\ focused
    /\ term' = NothingTyped /\ opened' = (term # NothingTyped /\ opened)
    /\ UNCHANGED <<debounced, focused, active, answerVars, aimed>>

(* ArrowDown by 1, ArrowUp by the ring's last place. *)
Arrow(step) ==
    /\ focused /\ Hits # <<>>
    /\ active' = (active + step) % (Len(Hits) + 1)
    /\ aimed' = debounced
    /\ UNCHANGED <<boxVars, debounced, answerVars>>

(* go, to a page: the box closes and is cleared; a chapter has no box. *)
Go ==
    /\ opened' = FALSE /\ term' = NothingTyped
    /\ focused' \in {focused, FALSE}
    /\ UNCHANGED <<debounced, active, answerVars, aimed>>

(* The highlighted hit, or else the page of results for what is typed. *)
EnterKey ==
    /\ focused
    /\ active \in 1 .. Len(Hits) \/ LongEnough(term)
    /\ Go

(* A row of the panel, or "see all". *)
PickRow == PanelOpen /\ Panel = "hits" /\ Go

SearchNext ==
    \/ TypingStops \/ OpenBox \/ CloseBox \/ Escape \/ EnterKey \/ PickRow
    \/ \E text \in Terms : TypeTerm(text)
    \/ \E text \in Wordings : AskFor(text) \/ FailToAnswer(text)
    \/ \E text \in Wordings, hits \in Answers : AnswerWith(text, hits)
    \/ \E step \in {1, Len(Hits)} : Arrow(step)

SearchSpec == InitSearch /\ [][SearchNext]_searchVars

-----------------------------------------------------------------------------
SearchTypeOK ==
    /\ term \in Terms /\ debounced \in Terms /\ aimed \in Terms
    /\ opened \in BOOLEAN /\ focused \in BOOLEAN /\ active \in Nat
    /\ answers \in [Wordings -> [hits : Answers \cup {NoAnswer}, error : BOOLEAN]]
    /\ asking \subseteq Wordings
    /\ reported \in [Wordings -> {"none", "empty", "hits", "failure"}]

(* Enter opens a hit of the text in whose hits the arrows were moved, never *)
(* the hit that came to stand in its place in another text's list (a later  *)
(* load of the same text may put another there: the highlight is dropped    *)
(* for another text, not for other hits of it, TopNav.tsx:241); and the     *)
(* panel says that nothing was found only if the last load of the text it   *)
(* shows came back with nothing: a late answer to another text, or a        *)
(* failure, never reads as "there is no such thing".                        *)
SearchSpeaksTrue ==
    /\ active # 0 => aimed = debounced
    /\ PanelOpen /\ Panel = "nothing found" => reported[debounced] = "empty"

=============================================================================
