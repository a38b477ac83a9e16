----------------------------- MODULE StoryRoute -----------------------------
(***************************************************************************)
(* The page of a story (stories/components/StoryPage.tsx): which edition   *)
(* it shows while editions load, fail, are asked for again and the reader  *)
(* goes from one to another; and what the document then says of itself,    *)
(* its title and its language (useStoryDocumentMeta.ts), which the page    *)
(* borrows and gives back. A change of language or of route runs first     *)
(* every effect's end, then the beginnings, a component's children before  *)
(* itself. The language of the document is also kept by the whole          *)
(* application (i18n/LanguageProvider.tsx).                                *)
(***************************************************************************)
EXTENDS Naturals, FiniteSets

CONSTANTS
    StorySlugs,          \* the names in the addresses of stories
    Editions,       \* those of them that are stories
    OtherPage,      \* any page that is not a story's
    Tongues,        \* the languages
    PageTongue,     \* the language the page is delivered in
    MaxTrips        \* bound on what the reader does

ASSUME EditionsHaveNames == Editions \subseteq StorySlugs /\ OtherPage \notin StorySlugs

VARIABLES
    route,          \* a story's name, or OtherPage
    attempt,        \* how often the reader asked again on this page
    page,           \* what the page knows: of which story and attempt, and what
    imports,        \* editions under way that this page still waits for
    spoken,         \* the reader's language
    title,          \* the document's title: whose, and in which language
    docTongue,      \* the document's language
    borrowed,       \* what the page gives back: a title and a language
    trips           \* what the reader did so far

routeVars == <<route, attempt, page, imports, spoken, title, docTongue, borrowed, trips>>

Status(slug, n, what) == [slug |-> slug, attempt |-> n, status |-> what]
PlainTitle == [of |-> OtherPage, in |-> PageTongue]

-----------------------------------------------------------------------------
(* What the page shows: what it knows, if that is of this route and        *)
(* attempt, and otherwise that it loads or that there is no such story.    *)
VisibleStatus ==
    IF page.slug = route /\ page.attempt = attempt THEN page.status
    ELSE IF route \in Editions THEN "loading" ELSE "not-found"

IsReady(p, slug, n) == p = Status(slug, n, "ready")

(* Mutant: nothing is given back first.                                    *)
LendAnew(ready, slug, lang) ==
    IF ready
    THEN /\ borrowed' = {[title |-> title, tongue |-> docTongue]}
         /\ title' = [of |-> slug, in |-> lang] /\ docTongue' = lang
    ELSE UNCHANGED <<borrowed, title, docTongue>>

(* The document of the page shown: a story that is ready lends it a title  *)
(* and a language, after the one before it gave back its own.              *)
Lend(ready, slug, lang) ==
    LET back == IF borrowed = {} THEN [title |-> title, tongue |-> docTongue]
                ELSE CHOOSE b \in borrowed : TRUE
    IN  IF ready
        THEN /\ borrowed' = {back}
             /\ title' = [of |-> slug, in |-> lang] /\ docTongue' = lang
        ELSE /\ borrowed' = {}
             /\ title' = back.title /\ docTongue' = back.tongue

InitRoute ==
    /\ spoken \in Tongues /\ route \in StorySlugs \cup {OtherPage}
    /\ attempt = 0
    /\ page = Status(route, 0, IF route \in Editions THEN "loading" ELSE "not-found")
    /\ imports = IF route \in Editions THEN {<<route, 0>>} ELSE {}
    /\ title = PlainTitle /\ docTongue = spoken
    /\ borrowed = {} /\ trips = 0

-----------------------------------------------------------------------------
CountTrip == trips < MaxTrips /\ trips' = trips + 1

(* Mutant: what was under way is still waited for.                         *)
LoadBesides(slug, n) ==
    /\ page' = Status(slug, n, IF slug \in Editions THEN "loading" ELSE "not-found")
    /\ imports' = imports \cup IF slug \in Editions THEN {<<slug, n>>} ELSE {}

(* The page starts over for a route and an attempt: what is under way is   *)
(* no longer waited for.                                                   *)
Load(slug, n) ==
    /\ page' = Status(slug, n, IF slug \in Editions THEN "loading" ELSE "not-found")
    /\ imports' = IF slug \in Editions THEN {<<slug, n>>} ELSE {}

(* To another story on the same page, or away, or back to a new page. *)
GoTo(slug) ==
    /\ CountTrip /\ slug # route /\ route' = slug
    /\ attempt' = IF slug = OtherPage \/ route = OtherPage THEN 0 ELSE attempt
    /\ Load(slug, attempt')
    /\ Lend(FALSE, slug, spoken)
    /\ UNCHANGED spoken

Retry ==
    /\ CountTrip /\ VisibleStatus = "error"
    /\ attempt' = attempt + 1
    /\ Load(route, attempt')
    /\ UNCHANGED <<route, spoken, title, docTongue, borrowed>>

(* An edition arrives. *)
EditionLoads ==
    \E i \in imports :
        /\ page' = Status(i[1], i[2], "ready")
        /\ imports' = imports \ {i}
        /\ Lend(IsReady(page', route, attempt), route, spoken)
        /\ UNCHANGED <<route, attempt, spoken, trips>>

EditionFails ==
    \E i \in imports :
        /\ page' = Status(i[1], i[2], "error")
        /\ imports' = imports \ {i}
        /\ UNCHANGED <<route, attempt, spoken, title, docTongue, borrowed, trips>>

(* The application gives the document its language at once, and again      *)
(* after the page's effects.                                               *)
SetLang(lang) ==
    /\ CountTrip /\ lang # spoken /\ spoken' = lang
    /\ IF borrowed # {} THEN Lend(TRUE, route, lang)
       ELSE docTongue' = lang /\ UNCHANGED <<title, borrowed>>
    /\ UNCHANGED <<route, attempt, page, imports>>

RouteNext ==
    \/ \E slug \in StorySlugs \cup {OtherPage} : GoTo(slug)
    \/ Retry \/ EditionLoads \/ EditionFails
    \/ \E lang \in Tongues : SetLang(lang)

RouteSpec == InitRoute /\ [][RouteNext]_routeVars

-----------------------------------------------------------------------------
(* A page that loads will be answered; a story that is shown has the       *)
(* document speak its title in the reader's language, and no other page    *)
(* keeps a story's title (StoryPage.tsx 67-86).                            *)
RouteHolds ==
    /\ VisibleStatus = "loading" => <<route, attempt>> \in imports
    /\ VisibleStatus = "ready" =>
          title = [of |-> route, in |-> spoken] /\ docTongue = spoken
    /\ VisibleStatus # "ready" => title = PlainTitle

(* "<html lang> agrees with the state": on every page the document has the *)
(* reader's language (LanguageProvider.tsx 52-54). It is not so: a story   *)
(* gives back the language that the document had when the story began.     *)
DocumentSpeaksTongue == docTongue = spoken

=============================================================================
