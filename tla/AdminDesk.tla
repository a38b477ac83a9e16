------------------------------ MODULE AdminDesk ------------------------------
(***************************************************************************)
(* An operator changes something on the server and reads the result off    *)
(* the same page: admin/AdminCredits.tsx moves a learner's credit and      *)
(* shows the learner's account and the list of learners;                   *)
(* admin/AdminCourses.tsx publishes, unpublishes and rolls back and shows  *)
(* the list of courses. Both lean on TanStack Query: a mutation that       *)
(* settles asks again for what it may have changed, in place of a load     *)
(* under way. A load carries what the server held when it read, so what a  *)
(* page knows of a subject is the number of its changes it has seen.       *)
(*                                                                         *)
(* The learner whose account is asked for again is the one inspected when   *)
(* the answer comes (a pending mutation takes the callbacks of the last    *)
(* render), not the one the adjustment was for. And a request may reach    *)
(* the server after the page was told that it failed: a proxy gave it up,  *)
(* or the connection broke behind it.                                      *)
(***************************************************************************)
EXTENDS Naturals, FiniteSets

CONSTANTS
    Learners,
    List,           \* the list of learners, or of courses
    Nobody,         \* no learner is inspected
    MaxJobs         \* bound: mutations begun

ASSUME DeskAssumption ==
    List \notin Learners /\ Nobody \notin Learners \cup {List} /\ MaxJobs \in Nat

VARIABLES
    desk,           \* the page: credits or courses
    listed,         \* the learners that the search found
    taken,          \* taken[k]: changes of k the server has made
    held,           \* held[k]: the query's data and whether it stands
    loading,        \* loading[k]: the GET in flight
    inspected,
    form,           \* the amount and note, and what became of this filling
    job,            \* the mutation
    late,           \* late[k]: requests for k on their way that failed here
    left,           \* how many may yet begin
    due,            \* history: due[k]: changes the page must know of
    passed          \* history: k's load was passed by such a change and left
                    \* to answer, and no other has begun since

owed == <<due, passed>>
deskVars == <<desk, listed, taken, held, loading, inspected, form, job, late, left, owed>>

Keys == Learners \cup {List}
NoLoad == [at |-> "idle", seen |-> 0]
Sent == [at |-> "asked", seen |-> 0]
EmptyForm == [filled |-> FALSE, kept |-> 0, errors |-> 0]
NoJob == [at |-> "none", of |-> List]

Underway == job.at \in {"sent", "taken"}
OnPage(k) == k = List \/ k = inspected

InitDesk ==
    /\ desk \in {"credits", "courses"} /\ listed \in SUBSET Learners
    /\ taken = [k \in Keys |-> 0]
    /\ held = [k \in Keys |-> [has |-> FALSE, good |-> FALSE, seen |-> 0]]
    /\ loading = [k \in Keys |-> IF k = List THEN Sent ELSE NoLoad]
    /\ inspected = Nobody
    /\ form = EmptyForm /\ job = NoJob /\ left \in 0 .. MaxJobs
    /\ late = [k \in Keys |-> 0]
    /\ due = [k \in Keys |-> 0] /\ passed = {}

-----------------------------------------------------------------------------
(* The queries.                                                            *)

(* The window has the focus again: what is observed is loaded again,       *)
(* unless it is being loaded.                                              *)
Refocus(k) ==
    /\ OnPage(k) /\ loading[k] = NoLoad
    /\ loading' = [loading EXCEPT ![k] = Sent] /\ passed' = passed \ {k}
    /\ UNCHANGED <<desk, listed, taken, held, inspected, form, job, late, left, due>>

(* The server reads for the answer. *)
ServeEntry(k) ==
    /\ loading[k].at = "asked"
    /\ loading' = [loading EXCEPT ![k] = [at |-> "read", seen |-> taken[k]]]
    /\ UNCHANGED <<desk, listed, taken, held, inspected, form, job, late, left, owed>>

AnswerEntry(k) ==
    /\ loading[k].at = "read"
    /\ held' = [held EXCEPT ![k] = [has |-> TRUE, good |-> TRUE, seen |-> loading[k].seen]]
    /\ loading' = [loading EXCEPT ![k] = NoLoad]
    /\ UNCHANGED <<desk, listed, taken, inspected, form, job, late, left, owed>>

(* An error, or a body that is not JSON: retry is off. *)
FailEntry(k) ==
    /\ loading[k] # NoLoad
    /\ held' = [held EXCEPT ![k].good = FALSE]
    /\ loading' = [loading EXCEPT ![k] = NoLoad]
    /\ UNCHANGED <<desk, listed, taken, inspected, form, job, late, left, owed>>

(* What is on screen of k: an account or a list whose query stands. *)
Shown(k) == OnPage(k) /\ held[k].has /\ held[k].good

-----------------------------------------------------------------------------
(* The credits page.                                                       *)

(* A row of the list; data of no age is stale, so it is loaded again, but  *)
(* for a load of it that is under way.                                     *)
Inspect(l) ==
    /\ desk = "credits" /\ l \in listed /\ inspected # l
    /\ inspected' = l
    /\ loading' = [loading EXCEPT ![l] = IF @ = NoLoad THEN Sent ELSE @]
    /\ passed' = passed \ {k \in {l} : loading[k] = NoLoad}
    /\ UNCHANGED <<desk, listed, taken, held, form, job, late, left, due>>

(* The fields stay open while an adjustment is under way. *)
Fill ==
    /\ desk = "credits" /\ inspected # Nobody /\ Shown(inspected)
    /\ ~form.filled
    /\ form' = [EmptyForm EXCEPT !.filled = TRUE]
    /\ UNCHANGED <<desk, listed, taken, held, loading, inspected, job, late, left, owed>>

Submit ==
    /\ desk = "credits" /\ inspected # Nobody /\ Shown(inspected)
    /\ form.filled /\ ~Underway
    /\ left > 0 /\ left' = left - 1
    /\ job' = [at |-> "sent", of |-> inspected]
    /\ UNCHANGED <<desk, listed, taken, held, loading, inspected, form, late, owed>>

(* Publish, unpublish after its confirmation, or roll back. *)
Change ==
    /\ desk = "courses" /\ ~Underway
    /\ left > 0 /\ left' = left - 1
    /\ job' = [at |-> "sent", of |-> List]
    /\ UNCHANGED <<desk, listed, taken, held, loading, inspected, form, late, owed>>

(* The server makes a change of k; an adjustment also shows in the list. *)
MakeChange(k) == taken' = [j \in Keys |-> taken[j] + IF j \in {k, List} THEN 1 ELSE 0]

Take ==
    /\ job.at = "sent"
    /\ job' = [job EXCEPT !.at = "taken"]
    /\ MakeChange(job.of)
    /\ form' = IF desk = "credits" THEN [form EXCEPT !.kept = @ + 1] ELSE form
    /\ UNCHANGED <<desk, listed, held, loading, inspected, late, left, owed>>

(* The same for a request that failed here before: the filling it was of   *)
(* met an error.                                                           *)
TakeLate(k) ==
    /\ late[k] > 0 /\ late' = [late EXCEPT ![k] = @ - 1]
    /\ MakeChange(k)
    /\ form' = IF desk = "credits" /\ form.errors = 1
               THEN [form EXCEPT !.kept = @ + 1] ELSE form
    /\ UNCHANGED <<desk, listed, held, loading, inspected, job, left, owed>>

(* Mutant: a load under way is left to answer. *)
AskAgainUnlessAsked(keys) ==
    loading' = [k \in Keys |->
        IF k \in keys /\ loading[k] = NoLoad THEN Sent ELSE loading[k]]

(* invalidateQueries: an observed query loads anew, in place of its load. *)
AskAgain(keys) ==
    loading' = [k \in Keys |-> IF k \in keys THEN Sent ELSE loading[k]]

Evidence == IF desk = "credits" THEN {List, inspected} \ {Nobody} ELSE {List}

(* A load of k has read what the server held before its last change. *)
Behind(k) == loading[k].at = "read" /\ loading[k].seen < taken[k]

(* From here on the page must know of what was changed, wherever the       *)
(* operator looks when the answer comes.                                   *)
NoteDue ==
    /\ due' = [k \in Keys |-> IF k \in Evidence \cup {job.of} THEN taken[k] ELSE due[k]]
    /\ passed' = (passed \cup {k \in {job.of} : Behind(k)}) \ Evidence

(* Mutant: the fields keep their text. *)
SucceedKeepingForm ==
    /\ job.at = "taken"
    /\ job' = [job EXCEPT !.at = "success"]
    /\ AskAgain(Evidence) /\ NoteDue
    /\ UNCHANGED <<desk, listed, taken, held, inspected, form, late, left>>

(* The answer comes: the fields are cleared, and the page asks again. *)
Succeed ==
    /\ job.at = "taken"
    /\ job' = [job EXCEPT !.at = "success"]
    /\ form' = EmptyForm
    /\ AskAgain(Evidence) /\ NoteDue
    /\ UNCHANGED <<desk, listed, taken, held, inspected, late, left>>

(* A request that the server has not had may be lost, or still on its way. *)
GiveUp ==
    \/ late' = late
    \/ job.at = "sent" /\ late' = [late EXCEPT ![job.of] = @ + 1]

(* Mutant: only a success asks again. *)
FailQuietly ==
    /\ Underway
    /\ job' = [job EXCEPT !.at = "error"]
    /\ form' = [form EXCEPT !.errors = 1]
    /\ GiveUp
    /\ IF desk = "credits" THEN NoteDue ELSE UNCHANGED owed
    /\ UNCHANGED <<desk, listed, taken, held, loading, inspected, left>>

(* Refused, or the answer is lost, whether the server made the change or   *)
(* not: adjustMutation asks again as on success, the courses page does not. *)
Fail ==
    /\ Underway
    /\ job' = [job EXCEPT !.at = "error"]
    /\ form' = [form EXCEPT !.errors = 1]
    /\ GiveUp
    /\ IF desk = "credits" THEN AskAgain(Evidence) /\ NoteDue
       ELSE UNCHANGED <<loading, owed>>
    /\ UNCHANGED <<desk, listed, taken, held, inspected, left>>

DeskNext ==
    \/ \E k \in Keys :
        Refocus(k) \/ ServeEntry(k) \/ AnswerEntry(k) \/ FailEntry(k) \/ TakeLate(k)
    \/ \E l \in Learners : Inspect(l)
    \/ Fill \/ Submit \/ Change \/ Take \/ Succeed \/ Fail

DeskSpec == InitDesk /\ [][DeskNext]_deskVars

-----------------------------------------------------------------------------
DeskTypeOK ==
    /\ desk \in {"credits", "courses"} /\ listed \subseteq Learners
    /\ taken \in [Keys -> 0 .. MaxJobs]
    /\ held \in [Keys -> [has : BOOLEAN, good : BOOLEAN, seen : 0 .. MaxJobs]]
    /\ loading \in [Keys -> [at : {"idle", "asked", "read"}, seen : 0 .. MaxJobs]]
    /\ inspected \in Learners \cup {Nobody}
    /\ form \in [filled : BOOLEAN, kept : 0 .. MaxJobs, errors : 0 .. 1]
    /\ job \in [at : {"none", "sent", "taken", "success", "error"}, of : Keys]
    /\ left \in 0 .. MaxJobs
    /\ late \in [Keys -> 0 .. MaxJobs] /\ due \in [Keys -> 0 .. MaxJobs]
    /\ passed \subseteq Learners

(* Once nothing is being loaded, what the operator sees includes every     *)
(* change the server had made when a mutation of this page settled, of the *)
(* learner it was for and of the one on the page then: on the credits page *)
(* also one whose answer was lost, which otherwise reads as "nothing       *)
(* happened" and is made a second time. Two things the page shows are not  *)
(* fresh. One is the answer to a load of the learner changed that read the *)
(* old account and was under way while another learner was inspected       *)
(* (passed): onSettled replaces only the load of the one inspected, and to *)
(* come back joins it. The other is a change that reached the server after *)
(* the page was told of its failure, which nothing asks for again.         *)
EvidenceFresh ==
    \A k \in Keys \ passed : Shown(k) /\ loading[k] = NoLoad => held[k].seen >= due[k]

(* One filling of the form moves the credit once, unless the operator saw  *)
(* an error before sending it again.                                       *)
OneMovePerFilling == form.kept <= 1 \/ form.errors = 1

=============================================================================
