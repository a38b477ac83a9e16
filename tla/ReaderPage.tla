----------------------------- MODULE ReaderPage -----------------------------
(***************************************************************************)
(* A chapter on screen (reader/ChapterView.tsx). The chapter's HTML is     *)
(* written by an effect into a div that React does not look into; the      *)
(* extras of a reader who is signed in (AuthedReaderExtras) put live       *)
(* checkboxes into that div (injectExerciseCheckboxes.ts); the div is used *)
(* again for the next chapter, or built anew, as the queries go. The       *)
(* runtime that draws formulas is loaded once (useCourseKit.ts).           *)
(*                                                                         *)
(* A step is an event, which changes what the next render reads, or a      *)
(* render: its commit and the effects of that commit, children first.      *)
(* Effects that are due run before the next event.                         *)
(***************************************************************************)
EXTENDS Naturals, FiniteSets

CONSTANTS
    Chapters, CourseOf,
    Exercises,      \* the exercises in a chapter
    Nothing,
    MaxVersions,    \* bound: contents a chapter has in turn
    MaxEvents       \* bound: what the reader and the clock do

(* A chapter's text in one of its versions, or none; a checkbox in it,    *)
(* with the row that its listener writes.                                  *)
ChapterText == [chapter : Chapters \cup {Nothing}, version : Nat]
Checkbox == [n : Exercises, checked : BOOLEAN, row : Chapters]

ASSUME ReaderAssumption ==
    /\ DOMAIN CourseOf = Chapters
    /\ Nothing \notin Chapters \cup ChapterText
    /\ Nothing \notin [text : ChapterText, boxes : SUBSET Checkbox]
    /\ MaxVersions \in Nat /\ MaxEvents \in Nat

VARIABLES
    published,      \* version of each chapter on the server
    cache,          \* chapterQuery's entries: data, status, fetching
    trio, known,    \* the runtime's promise; courses it was ready for
    awaited,        \* courses that wait for it
    kit,            \* useCourseKit's result
    me,             \* who useMe says the reader is
    ticks,          \* the rows of progress that are done: [chapter, n]
    chapter,        \* the route
    shown,          \* the last render: chapter, body, extras
    div,            \* the mounted div: its text and checkboxes
    content,        \* annotationContent: its root, with the root's text
    given,          \* content as the last render passed it down
    drawn,          \* what the main effect last depended on
    source,         \* the chapter getContext answers for
    panel,          \* the text the open ask panel was given
    relapsed,       \* history: chapters that failed to refetch while read
    events

queryVars == <<published, cache, trio, known, awaited, kit>>
shownVars == <<shown, div, content, given, drawn, source>>
readerVars == <<queryVars, me, ticks, chapter, shownVars, panel, relapsed, events>>

Row == [chapter : Chapters, n : Exercises]
NoText == [chapter |-> Nothing, version |-> 0]
Bare == [text |-> NoText, boxes |-> {}]
Unfetched == [data |-> 0, status |-> "pending", fetching |-> FALSE]

InitReader ==
    /\ published = [c \in Chapters |-> 1]
    /\ chapter \in Chapters
    /\ cache = [c \in Chapters |-> [Unfetched EXCEPT !.fetching = c = chapter]]
    /\ trio = "loading" /\ known = {} /\ awaited = {CourseOf[chapter]} /\ kit = "waiting"
    /\ me = "unknown" /\ ticks = {}
    /\ shown = [chapter |-> chapter, body |-> "loading", extras |-> FALSE]
    /\ div = Nothing
    /\ content = [root |-> "none", text |-> NoText] /\ given = content
    /\ drawn = [ready |-> FALSE, chapter |-> chapter, data |-> 0]
    /\ source = Nothing /\ panel = Nothing
    /\ relapsed = {} /\ events = 0

Event == events < MaxEvents /\ events' = events + 1

-----------------------------------------------------------------------------
(* Queries and the runtime.                                                *)

(* A fetch begins when the chapter is opened, or the window is focused; an *)
(* entry without data is pending again, one with data keeps its status.    *)
Fetched(c) ==
    [cache EXCEPT ![c].fetching = TRUE,
                  ![c].status = IF cache[c].data = 0 THEN "pending" ELSE @]

Refetch ==
    /\ Event /\ ~cache[chapter].fetching
    /\ cache' = Fetched(chapter)
    /\ UNCHANGED <<published, trio, known, awaited, kit, me, ticks, chapter, shownVars,
                   panel, relapsed>>

(* The same content is the same data: entries share their structure. *)
AnswerFetch(c) ==
    /\ cache[c].fetching
    /\ cache' = [cache EXCEPT ![c] = [data |-> published[c], status |-> "success",
                                      fetching |-> FALSE]]
    /\ UNCHANGED <<published, trio, known, awaited, kit, me, ticks, chapter, shownVars,
                   panel, relapsed, events>>

(* After its retries. *)
FailFetch(c) ==
    /\ cache[c].fetching
    /\ cache' = [cache EXCEPT ![c].status = "error", ![c].fetching = FALSE]
    /\ relapsed' = IF cache[c].data = 0 THEN relapsed ELSE relapsed \cup {c}
    /\ UNCHANGED <<published, trio, known, awaited, kit, me, ticks, chapter, shownVars,
                   panel, events>>

Republish(c) ==
    /\ published[c] < MaxVersions
    /\ published' = [published EXCEPT ![c] = @ + 1]
    /\ UNCHANGED <<cache, trio, known, awaited, kit, me, ticks, chapter, shownVars,
                   panel, relapsed, events>>

(* Every course that awaits it hears of it, the one that is left as well; a *)
(* runtime that failed may be asked for again, by another course.          *)
LoadRuntime(ok) ==
    /\ awaited # {} /\ awaited' = {}
    /\ trio = "loading" \/ (trio = "loaded" /\ ok)
    /\ IF ok
       THEN trio' = "loaded" /\ kit' = "ready" /\ known' = known \cup awaited
       ELSE trio' = "none" /\ kit' = "failed" /\ UNCHANGED known
    /\ UNCHANGED <<published, cache, me, ticks, chapter, shownVars, panel,
                   relapsed, events>>

-----------------------------------------------------------------------------
(* The reader.                                                             *)

(* prev and next, the keys, the table of contents, a link. *)
Navigate(c) ==
    /\ Event /\ c # chapter /\ chapter' = c
    /\ cache' = Fetched(c)
    /\ IF CourseOf[c] = CourseOf[chapter] THEN UNCHANGED <<trio, awaited, kit>>
       ELSE /\ awaited' = awaited \cup ({CourseOf[c]} \ known)
            /\ kit' = IF CourseOf[c] \in known THEN "ready" ELSE "waiting"
            /\ trio' = IF trio = "none" THEN "loading" ELSE trio
    /\ UNCHANGED <<published, known, me, ticks, shownVars, panel, relapsed>>

(* GET /me answers; this tab, or another one, signs out or in. The rows of *)
(* progress go with the account.                                           *)
Identify(who) ==
    /\ Event /\ me # who /\ me' = who
    /\ ticks' = {}
    /\ UNCHANGED <<queryVars, chapter, shownVars, panel, relapsed>>

(* The rows arrive, or are patched by a tap elsewhere. *)
Progress(rows) ==
    /\ Event /\ me = "in" /\ ticks # rows /\ ticks' = rows
    /\ UNCHANGED <<queryVars, me, chapter, shownVars, panel, relapsed>>

(* A checkbox writes the row it was made for, whoever looks at it now. *)
Tick(box) ==
    /\ Event /\ div # Nothing /\ box \in div.boxes
    /\ LET row == [chapter |-> box.row, n |-> box.n]
       IN  ticks' = IF row \in ticks THEN ticks \ {row} ELSE ticks \cup {row}
    /\ div' = [div EXCEPT !.boxes = (@ \ {box}) \cup {[box EXCEPT !.checked = ~@]}]
    /\ UNCHANGED <<queryVars, me, chapter, shown, content, given, drawn, source,
                   panel, relapsed>>

(* askAboutChapter reads the root the last render was given. *)
AskAboutChapter ==
    /\ Event /\ panel = Nothing
    /\ shown.body = "chapter" /\ given = content /\ given.root # "none"
    /\ panel' = given.text
    /\ UNCHANGED <<queryVars, me, ticks, chapter, shownVars, relapsed>>

CloseAi ==
    /\ panel # Nothing /\ panel' = Nothing
    /\ UNCHANGED <<queryVars, me, ticks, chapter, shownVars, relapsed, events>>

-----------------------------------------------------------------------------
(* A render.                                                               *)

Body ==
    IF kit = "failed" \/ cache[chapter].status = "error" THEN "error"
    ELSE IF kit = "waiting" \/ cache[chapter].status = "pending" THEN "loading"
    ELSE "chapter"

Wanted == [chapter |-> chapter, body |-> Body,
           extras |-> Body = "chapter" /\ me = "in"]

(* Mutant: the main effect does not follow the data. *)
DependsOnRoute == [ready |-> kit = "ready", chapter |-> chapter, data |-> 0]

(* What the main effect depends on. *)
Depends == [ready |-> kit = "ready", chapter |-> chapter, data |-> cache[chapter].data]

Settled == shown = Wanted /\ drawn = Depends /\ given = content

(* injectExerciseCheckboxes: one that is there stays, with its listener. *)
Injected(d) ==
    IF d.text = NoText THEN d
    ELSE [d EXCEPT !.boxes =
             {[n |-> n, checked |-> [chapter |-> chapter, n |-> n] \in ticks,
               row |-> IF \E b \in d.boxes : b.n = n
                       THEN (CHOOSE b \in d.boxes : b.n = n).row ELSE chapter]
              : n \in Exercises}]

(* Mutant: a listener outlives the extras it is of. *)
LeaveBoxes(d, leaving) == d

(* The extras' cleanup when they unmount. *)
Removed(d, leaving) == IF leaving THEN [d EXCEPT !.boxes = {}] ELSE d

(* The main effect runs when what it depends on has changed. *)
Redrawn(before, now) == before # now

TicksShown ==
    div = Nothing \/ ~shown.extras \/ content.root # "mounted"
        \/ \A b \in div.boxes : b.checked = ([chapter |-> chapter, n |-> b.n] \in ticks)

Render ==
    /\ ~Settled \/ ~TicksShown
    /\ LET mounted == Wanted.body = "chapter"
           kept == mounted /\ div # Nothing
           root == IF content.root = "mounted" /\ ~kept THEN "detached" ELSE content.root
           built == IF kept THEN Removed(div, shown.extras /\ ~Wanted.extras) ELSE Bare
           boxed == IF Wanted.extras /\ root = "mounted" THEN Injected(built) ELSE built
           redrawn == Redrawn(drawn, Depends)
           writes == redrawn /\ mounted
           text == [chapter |-> chapter, version |-> cache[chapter].data]
       IN  /\ shown' = Wanted
           /\ given' = [content EXCEPT !.root = root]
           /\ drawn' = IF redrawn THEN Depends ELSE drawn
           /\ div' = IF ~mounted THEN Nothing
                     ELSE IF writes THEN [text |-> text, boxes |-> {}] ELSE boxed
           /\ content' = IF writes THEN [root |-> "mounted", text |-> text]
                         ELSE [content EXCEPT !.root = root]
           /\ source' = IF writes THEN chapter ELSE IF redrawn THEN Nothing ELSE source
           /\ panel' = IF shown.chapter # chapter THEN Nothing ELSE panel
    /\ UNCHANGED <<queryVars, me, ticks, chapter, relapsed, events>>

ReaderNext ==
    \/ \E c \in Chapters : AnswerFetch(c) \/ FailFetch(c) \/ Republish(c) \/ Navigate(c)
    \/ \E ok \in BOOLEAN : LoadRuntime(ok)
    \/ \E who \in {"in", "out"} : Identify(who)
    \/ \E rows \in SUBSET Row : Progress(rows)
    \/ div # Nothing /\ \E box \in div.boxes : Tick(box)
    \/ Refetch \/ AskAboutChapter \/ CloseAi \/ Render

ReaderSpec == InitReader /\ [][ReaderNext]_readerVars

-----------------------------------------------------------------------------
ReaderTypeOK ==
    /\ published \in [Chapters -> Nat \ {0}]
    /\ cache \in [Chapters -> [data : Nat, status : {"pending", "success", "error"},
                               fetching : BOOLEAN]]
    /\ trio \in {"none", "loading", "loaded"} /\ kit \in {"waiting", "ready", "failed"}
    /\ me \in {"unknown", "in", "out"} /\ ticks \subseteq Row
    /\ chapter \in Chapters /\ relapsed \subseteq Chapters
    /\ shown \in [chapter : Chapters, body : {"error", "loading", "chapter"},
                   extras : BOOLEAN]
    /\ div \in [text : ChapterText, boxes : SUBSET Checkbox] \cup {Nothing}
    /\ {content, given} \subseteq [root : {"none", "mounted", "detached"}, text : ChapterText]
    /\ drawn \in [ready : BOOLEAN, chapter : Chapters, data : Nat]
    /\ source \in Chapters \cup {Nothing} /\ panel \in ChapterText \cup {Nothing}

(* What the div holds is the chapter of the route, as last fetched, and    *)
(* that is what getContext and the ask panel speak of. The one exception:  *)
(* a refetch of a chapter that was there failed, and the next one brought  *)
(* the same data, for which the main effect does not run again: the div is *)
(* empty, and the panel is given what was on screen before.                *)
PageIsItsChapter ==
    Settled =>
        /\ div # Nothing =>
              \/ div.text = [chapter |-> chapter, version |-> cache[chapter].data]
              \/ div.text = NoText /\ chapter \in relapsed
        /\ source \in {Nothing, chapter}
        /\ div # Nothing /\ div.text # NoText => source = chapter
        /\ panel # Nothing => panel.chapter = chapter \/ chapter \in relapsed

(* A checkbox writes the row of the chapter whose exercise it stands at,   *)
(* and shows that row; there is one for every exercise, and none for a     *)
(* reader who is not signed in any more.                                   *)
BoxesAreTheirs ==
    div # Nothing =>
        /\ \A b \in div.boxes : b.row = div.text.chapter
        /\ Settled /\ ~shown.extras => div.boxes = {}
        /\ Settled /\ TicksShown /\ shown.extras /\ div.text # NoText =>
              {b.n : b \in div.boxes} = Exercises

(* The page and what the reader hung in it belong to one chapter, however  *)
(* loads, navigation, sign-in and progress interleave.                     *)
ReaderHolds == PageIsItsChapter /\ BoxesAreTheirs

=============================================================================
