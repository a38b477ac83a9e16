----------------------------- MODULE StudyHome ------------------------------
(***************************************************************************)
(* The reader's home page (pages/Dashboard.tsx) and the page of a course   *)
(* (pages/CourseHome.tsx): the courses the reader is enrolled in, which of *)
(* them the home page puts first, and enrolment itself, with the requests  *)
(* of the two pages answered in any order.                                 *)
(*                                                                         *)
(* The list of enrolments is one query, its requests take a while at the   *)
(* server and on the way back, and one on its way is dropped when an       *)
(* enrolment was changed after it. The reader's progress is another query; *)
(* the statistics only delay the page.                                     *)
(***************************************************************************)
EXTENDS Integers, Sequences, FiniteSets
LOCAL INSTANCE TLC
LOCAL INSTANCE Functions
LOCAL Seqs == INSTANCE SequencesExt

CONSTANTS
    Courses,        \* the courses
    LastRead,       \* the course read last, or None, as the progress may say
    Home, Reading,  \* the home page and a page of a chapter, besides the
                    \* pages of the courses
    NoList,         \* no list of enrolments
    MaxVisits       \* bound on what the reader does

VARIABLES
    at,             \* the page
    enrolled,       \* at the server: the courses, in the order of enrolment
    list,           \* the list kept by the page
    listFailed,     \* whether its last request failed
    listAsked,      \* whether a request is on its way to the server
    listSaid,       \* the list on its way back, or none
    last,           \* the progress: "pending", "failed" or the course read last
    stats,          \* the statistics: "pending" or "settled"
    jobs,           \* enrolments and ends of one under way, asked or taken,
                    \* and whether the page that asked is still there
    unsure,         \* an answer to one was lost
    visits          \* what the reader did so far

homeVars == <<at, enrolled, list, listFailed, listAsked, listSaid, last, stats,
              jobs, unsure, visits>>

NoCourse == "none"

ASSUME NoCourseAssumption == NoCourse \notin Courses

InitHome ==
    /\ at \in {Home} \cup Courses
    /\ enrolled \in {<<>>} \cup {<<c>> : c \in Courses}
    /\ list = NoList /\ listFailed = FALSE /\ listAsked = TRUE /\ listSaid = {}
    /\ last = "pending" /\ stats = "pending"
    /\ jobs = {} /\ unsure = FALSE /\ visits = 0

-----------------------------------------------------------------------------
(* What the pages show. *)

ListIsPending == list = NoList /\ ~listFailed
EnrolledIds == IF list = NoList THEN <<>> ELSE list

LastStudied == IF last \in Courses THEN last ELSE NoCourse

(* Mutant: the course read last, enrolled or not.                          *)
PickFocusCourseAnyway(ids, lastStudied) ==
    CASE lastStudied # NoCourse -> lastStudied
      [] ids # <<>> -> Head(ids)
      [] OTHER -> NoCourse

PickFocusCourse(ids, lastStudied) ==
    IF lastStudied \in Range(ids) THEN lastStudied
    ELSE IF ids # <<>> THEN Head(ids) ELSE NoCourse

FocusCourse == PickFocusCourse(EnrolledIds, LastStudied)

HomeSettled == ~ListIsPending /\ stats = "settled" /\ last # "pending"

(* Mutant: the page does not wait before it says that it is empty.         *)
HomePartsUnsettled ==
    {p \in {"continue", "loading", "error", "empty"} :
        CASE p = "continue" -> FocusCourse # NoCourse
          [] p = "loading" -> FocusCourse = NoCourse /\ ~HomeSettled
          [] p = "error" -> FocusCourse = NoCourse /\ listFailed
          [] p = "empty" -> FocusCourse = NoCourse /\ ~listFailed}

(* The parts of the home page, and the courses below the first. *)
HomeParts ==
    {p \in {"continue", "loading", "error", "empty"} :
        CASE p = "continue" -> FocusCourse # NoCourse
          [] p = "loading" -> FocusCourse = NoCourse /\ ~HomeSettled
          [] p = "error" -> FocusCourse = NoCourse /\ listFailed
          [] p = "empty" -> FocusCourse = NoCourse /\ HomeSettled /\ ~listFailed}

(* filter: all but one of the courses, in their order. *)
Without(ids, course) ==
    LET kept[i \in 0 .. Len(ids)] ==
            IF i = 0 THEN <<>>
            ELSE IF ids[i] = course THEN kept[i - 1] ELSE Append(kept[i - 1], ids[i])
    IN  kept[Len(ids)]

MyCourses == Without(EnrolledIds, FocusCourse)

(* What the page of a course offers: to read on, and to enrol or to end it *)
(* where the list says which. Neither while one of them is under way.      *)
CourseOffers ==
    LET known == list # NoList /\ ~listFailed
        listed == at \in Range(EnrolledIds)
    IN  (IF known /\ ~listed THEN {"enroll"} ELSE {"read"})
        \cup (IF known /\ listed THEN {"unenroll"} ELSE {})

-----------------------------------------------------------------------------
(* The queries. *)

FetchList ==
    /\ listAsked' = (listAsked \/ listSaid = {})
    /\ listFailed' = (listFailed /\ list # NoList)
    /\ UNCHANGED listSaid

(* Mutant: a request under way is joined, not dropped.                     *)
InvalidateListGently == FetchList

(* A change of the enrolments drops the request under way and asks anew. *)
InvalidateList ==
    /\ listAsked' = TRUE /\ listSaid' = {}
    /\ listFailed' = (listFailed /\ list # NoList)

ServeList ==
    /\ listAsked
    /\ listAsked' = FALSE /\ listSaid' = {enrolled}
    /\ UNCHANGED <<at, enrolled, list, listFailed, last, stats, jobs, unsure, visits>>

AnswerList ==
    /\ list' \in listSaid /\ listFailed' = FALSE /\ listSaid' = {}
    /\ UNCHANGED <<at, enrolled, listAsked, last, stats, jobs, unsure, visits>>

(* No answer, or one that is not a list of enrolments. *)
FailList ==
    /\ listAsked \/ listSaid # {}
    /\ listFailed' = TRUE /\ listAsked' = FALSE /\ listSaid' = {}
    /\ UNCHANGED <<at, enrolled, list, last, stats, jobs, unsure, visits>>

(* The progress names the course of its latest row, and no course where no *)
(* row can be dated; a failure leaves the page without it.                 *)
AnswerProgress ==
    /\ last = "pending"
    /\ last' \in LastRead \cup {"failed"}
    /\ UNCHANGED <<at, enrolled, list, listFailed, listAsked, listSaid, stats,
                   jobs, unsure, visits>>

AnswerStats ==
    /\ stats = "pending" /\ stats' = "settled"
    /\ UNCHANGED <<at, enrolled, list, listFailed, listAsked, listSaid, last,
                   jobs, unsure, visits>>

-----------------------------------------------------------------------------
(* The reader. A visit of a page asks for the list again; the pages of two *)
(* courses are one component, any other change of page leaves it.          *)

Pages == {Home, Reading} \cup Courses

Moved(page) ==
    IF at \in Courses /\ page \in Courses THEN jobs
    ELSE {[j EXCEPT !.here = FALSE] : j \in jobs}

Visit(page) ==
    /\ visits < MaxVisits /\ visits' = visits + 1
    /\ at' = page /\ FetchList /\ jobs' = Moved(page)
    /\ UNCHANGED <<enrolled, list, last, stats, unsure>>

(* A button is off while what it asked for is under way. *)
AskEnrolment(verb) ==
    /\ visits < MaxVisits /\ visits' = visits + 1
    /\ at \in Courses /\ verb \in CourseOffers
    /\ ~\E j \in jobs : j.here /\ j.verb = verb
    /\ jobs' = jobs \cup {[stage |-> "asked", verb |-> verb, course |-> at, here |-> TRUE]}
    /\ UNCHANGED <<at, enrolled, list, listFailed, listAsked, listSaid, last, stats, unsure>>

TakeEnrolment(j) ==
    /\ j \in jobs /\ j.stage = "asked"
    /\ jobs' = (jobs \ {j}) \cup {[j EXCEPT !.stage = "taken"]}
    /\ enrolled' = CASE j.verb = "unenroll" -> Without(enrolled, j.course)
                     [] j.verb = "enroll" /\ j.course \in Range(enrolled) -> enrolled
                     [] OTHER -> Append(enrolled, j.course)
    /\ UNCHANGED <<at, list, listFailed, listAsked, listSaid, last, stats, unsure, visits>>

(* Success asks for the list anew, and an enrolment opens a first chapter, *)
(* wherever the reader has gone meanwhile.                                 *)
EnrolmentDone(j) ==
    /\ j \in jobs /\ j.stage = "taken"
    /\ InvalidateList
    /\ IF j.verb = "enroll"
       THEN at' = Reading /\ jobs' = {[k EXCEPT !.here = FALSE] : k \in jobs \ {j}}
       ELSE jobs' = jobs \ {j} /\ UNCHANGED at
    /\ UNCHANGED <<enrolled, list, last, stats, unsure, visits>>

(* The page says that it failed; the list is not asked for. *)
EnrolmentFails(j) ==
    /\ j \in jobs
    /\ unsure' = (unsure \/ j.stage = "taken")
    /\ jobs' = jobs \ {j}
    /\ UNCHANGED <<at, enrolled, list, listFailed, listAsked, listSaid, last, stats, visits>>

HomeNext ==
    \/ \E page \in Pages : Visit(page)
    \/ AskEnrolment("enroll") \/ AskEnrolment("unenroll")
    \/ ServeList \/ AnswerList \/ FailList
    \/ AnswerProgress \/ AnswerStats
    \/ \E j \in jobs : TakeEnrolment(j) \/ EnrolmentDone(j) \/ EnrolmentFails(j)

HomeSpec == InitHome /\ [][HomeNext]_homeVars

-----------------------------------------------------------------------------
(* Once nothing is under way the pages know the enrolments that are, if    *)
(* the last request for them was answered and no answer to a change of     *)
(* them was lost (CourseHome.tsx 101-126).                                 *)
ListIsCurrent ==
    ~listAsked /\ listSaid = {} /\ jobs = {} /\ ~listFailed /\ ~unsure
        => list = enrolled

(* "You have no course yet" is said only to who has none as far as the     *)
(* server has answered; a settled page says one thing; and each course is  *)
(* shown once, the one read last first (Dashboard.tsx 100-136).            *)
HomeSpeaksTrue ==
    /\ "empty" \in HomeParts => list = <<>>
    /\ HomeSettled => \E part \in HomeParts : HomeParts = {part}
    /\ FocusCourse # NoCourse =>
          /\ Range(MyCourses) \cup {FocusCourse} = Range(EnrolledIds)
          /\ Len(MyCourses) + 1 = Len(EnrolledIds)
          /\ LastStudied \in Range(EnrolledIds) => FocusCourse = LastStudied

-----------------------------------------------------------------------------
(* The choices as functions of what was read. A row that has no date has   *)
(* the time Undated.                                                       *)
Undated == -1

PickLastStudied(rows) ==
    LET dated == {i \in DOMAIN rows : rows[i].at # Undated}
        best == CHOOSE i \in dated : \A j \in dated :
                    rows[i].at > rows[j].at \/ (rows[i].at = rows[j].at /\ i <= j)
    IN  IF dated = {} THEN NoCourse ELSE rows[best].course

(* Undated notes count as the oldest; of two as old the first by its id. *)
PickRecentNotes(rows, limit) ==
    LET age(n) == IF n.at = Undated THEN 0 ELSE n.at
        sorted == SortSeq(rows, LAMBDA a, b :
                    age(a) > age(b) \/ (age(a) = age(b) /\ a.id < b.id))
    IN  SubSeq(sorted, 1, IF limit < Len(sorted) THEN limit ELSE Len(sorted))

NextChapter(chapters, done) ==
    LET open == {i \in DOMAIN chapters : chapters[i] \notin done}
    IN  IF open = {} THEN 0 ELSE CHOOSE i \in open : \A j \in open : i <= j

(* What the page says of a course: how much is read, where to go on, and   *)
(* with which verb; and the share of it in percent, for the rows that the  *)
(* progress has of it.                                                     *)
ContinueOf(chapters, done) ==
    LET next == NextChapter(chapters, done)
        read == Cardinality({i \in DOMAIN chapters : chapters[i] \in done})
    IN  [read |-> read,
         target |-> IF next # 0 THEN next ELSE Len(chapters),
         verb |-> CASE read = 0 -> "start" [] next # 0 -> "continue" [] OTHER -> "reread"]

CoursePercent(chapters, done) ==
    LET total == Len(chapters)
        read == IF Cardinality(done) < total THEN Cardinality(done) ELSE total
    IN  IF total = 0 THEN 0 ELSE (200 * read + total) \div (2 * total)

(* The page leads to the first chapter not read, and to a chapter read     *)
(* only where all are; the share is whole exactly where as many chapters   *)
(* were read as the course has (Dashboard.tsx 184-191, Progress.tsx 448).  *)
ShelfHolds(chapters, done) ==
    LET c == ContinueOf(chapters, done)
    IN  /\ chapters # <<>> /\ chapters[c.target] \in done =>
              Range(chapters) \subseteq done /\ c.verb = "reread"
        /\ \A i \in DOMAIN chapters : i < c.target => chapters[i] \in done
        /\ c.verb = "continue" => chapters[c.target] \notin done /\ c.read > 0
        /\ CoursePercent(chapters, done) \in 0 .. 100
        /\ Range(chapters) \subseteq done /\ chapters # <<>> => CoursePercent(chapters, done) = 100

(* The notes shown are the latest, in order, and the answer does not       *)
(* depend on the order in which the server lists them; the course read     *)
(* last is that of a latest row that has a date.                           *)
RecentHolds(rows, limit) ==
    LET shown == PickRecentNotes(rows, limit)
        picked == PickLastStudied(rows)
        left == Range(rows) \ Range(shown)
        dated == {r \in Range(rows) : r.at # Undated}
    IN  /\ \A i, j \in DOMAIN shown : i < j => shown[i].at >= shown[j].at
        /\ Len(shown) = IF limit < Len(rows) THEN limit ELSE Len(rows)
        /\ \A l \in left, s \in Range(shown) : l.at <= s.at
        /\ PickRecentNotes(Seqs!Reverse(rows), limit) = shown
        /\ picked = NoCourse <=> dated = {}
        /\ dated # {} => \E r \in dated : r.course = picked /\ \A o \in dated : o.at <= r.at

=============================================================================
