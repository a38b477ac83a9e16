---------------------------- MODULE CourseCatalog ----------------------------
(***************************************************************************)
(* One course of the catalogue (internal/catalog): operators publish it,   *)
(* roll it back, withdraw it, hide it and grant access to it, in           *)
(* transactions at READ COMMITTED, while readers fetch a chapter in two    *)
(* statements and keep it under the ETag of its version, and a booting     *)
(* server fills in the plain text of chapters older than the column.       *)
(*                                                                         *)
(* A statement that waits for a row looks at the row it chose again when   *)
(* it gets it: a row deleted meanwhile is passed over, and a row inserted  *)
(* meanwhile under the same key is not seen.                               *)
(***************************************************************************)
EXTENDS Integers, Sequences, FiniteSets

CONSTANTS
    Packages,       \* packages of the course that pass pkgcheck.Validate
    WidgetsOf,      \* the widgets a package ships, all named by its chapter
    Operators,      \* requests of operators that may be open at one time
    Readers, Admins,
    NoCourse, NoText, NoPage, Quiet,
    MaxVersions,    \* bound: versions ever published
    MaxFlips        \* bound: changes of visibility

Visibilities == {"public", "private"}

ASSUME CatalogAssumption ==
    /\ DOMAIN WidgetsOf = Packages
    /\ Admins \subseteq Readers
    /\ MaxVersions \in Nat /\ MaxFlips \in Nat
    /\ NoText \notin Packages
    /\ NoCourse \notin [version : Nat, package : Packages, visibility : Visibilities,
                        plain : Packages \cup {NoText}]

VARIABLES
    live,       \* the row of published_courses with the rows that hang on it
    archive,    \* course_versions: version v holds archive[v]
    audited,    \* the visibility that admin_audit says the course has
    raced,      \* it changed after a publish under way had read it
    flips,      \* changes of visibility so far
    granted,    \* course_access
    office,     \* each operator's transaction
    scanned,    \* what BackfillPlainText derived from a chapter, to be written
    asking,     \* each reader's request between its two statements
    held        \* what each reader's browser holds, under its ETag

catalogVars ==
    <<live, archive, audited, raced, flips, granted, office, scanned, asking, held>>

InitCatalog ==
    /\ live \in {NoCourse}
         \cup [version : {1}, package : Packages, visibility : {"public"}, plain : {NoText}]
    /\ archive = IF live = NoCourse THEN <<>> ELSE <<live.package>>
    /\ audited = "public" /\ raced = FALSE /\ flips = 0
    /\ granted = {}
    /\ office = [o \in Operators |-> Quiet]
    /\ scanned = NoText
    /\ asking = [r \in Readers |-> NoPage]
    /\ held = [r \in Readers |-> NoPage]

-----------------------------------------------------------------------------
(* The transactions of operators.                                          *)

Publishing(o) == office[o] # Quiet /\ office[o].action \in {"publish", "rollback"}
At(o, step) == office[o] # Quiet /\ office[o].step = step
HasRow(o) == At(o, "row") /\ office[o].row # 0
Move(o, step) == office' = [office EXCEPT ![o].step = step]
Leave(o) == office' = [office EXCEPT ![o] = Quiet]

Open(o, action, package, visibility) ==
    /\ office[o] = Quiet
    /\ office' = [office EXCEPT ![o] =
           [action |-> action, package |-> package, visibility |-> visibility,
            version |-> 0, row |-> 0, step |-> "begun"]]
    /\ UNCHANGED <<live, archive, audited, raced, flips, granted, scanned, asking, held>>

(* Publish and Rollback check the package, the second one a stored package *)
(* that it reads before the transaction begins.                            *)
Publish(o) == Len(archive) < MaxVersions /\ \E p \in Packages : Open(o, "publish", p, "public")
Rollback(o) ==
    Len(archive) < MaxVersions /\ \E v \in DOMAIN archive : Open(o, "rollback", archive[v], "public")
SetVisibility(o) ==
    /\ flips + Cardinality({p \in Operators : office[p] # Quiet /\ office[p].action = "visibility"})
            < MaxFlips
    /\ \E v \in Visibilities : Open(o, "visibility", NoText, v)
Unpublish(o) == live # NoCourse /\ Open(o, "unpublish", NoText, "public")

(* nextVersionSQL: the number is counted from the committed versions, then *)
(* the insert waits for whoever holds that key. If that one commits, this  *)
(* one fails on the key.                                                   *)
CountVersions(o) ==
    /\ Publishing(o) /\ At(o, "begun")
    /\ office' = [office EXCEPT ![o].version = Len(archive) + 1, ![o].step = "counted"]
    /\ UNCHANGED <<live, archive, audited, raced, flips, granted, scanned, asking, held>>

KeyHeld(o) ==
    \E p \in Operators \ {o} :
        /\ Publishing(p) /\ office[p].step \notin {"begun", "counted"}
        /\ office[p].version = office[o].version

InsertVersion(o) ==
    /\ At(o, "counted") /\ ~KeyHeld(o)
    /\ IF office[o].version \in DOMAIN archive THEN Leave(o) ELSE Move(o, "numbered")
    /\ UNCHANGED <<live, archive, audited, raced, flips, granted, scanned, asking, held>>

(* Mutant: the column's default instead of what the row says. *)
ReadVisibilityNever(o) ==
    /\ At(o, "numbered") /\ Move(o, "read")
    /\ UNCHANGED <<live, archive, audited, raced, flips, granted, scanned, asking, held>>

(* What does not come from the package is read before the row is replaced. *)
ReadVisibility(o) ==
    /\ At(o, "numbered")
    /\ office' = [office EXCEPT ![o].step = "read",
           ![o].visibility = IF live = NoCourse THEN "public" ELSE live.visibility]
    /\ UNCHANGED <<live, archive, audited, raced, flips, granted, scanned, asking, held>>

(* DELETE or UPDATE of the live row, whichever it is now ...               *)
ChooseRow(o) ==
    /\ IF Publishing(o) THEN At(o, "read") ELSE At(o, "begun")
    /\ office' = [office EXCEPT ![o].step = "waiting",
           ![o].row = IF live = NoCourse THEN 0 ELSE live.version]
    /\ UNCHANGED <<live, archive, audited, raced, flips, granted, scanned, asking, held>>

(* ... and once nobody else has it: the first publish of a course needs no *)
(* row, the other transactions end with ErrNotFound without one.           *)
TakeRow(o) ==
    /\ At(o, "waiting")
    /\ office[o].row # 0 => \A p \in Operators \ {o} : ~HasRow(p)
    /\ LET there == live # NoCourse /\ live.version = office[o].row
       IN  IF there THEN Move(o, "row")
           ELSE IF Publishing(o)
           THEN office' = [office EXCEPT ![o].step = "row", ![o].row = 0]
           ELSE Leave(o)
    /\ UNCHANGED <<live, archive, audited, raced, flips, granted, scanned, asking, held>>

(* The row and its chapters, widgets and assets are written whole.         *)
CommitPublish(o) ==
    /\ Publishing(o) /\ At(o, "row")
    /\ archive' = Append(archive, office[o].package)
    /\ live' = [version |-> office[o].version, package |-> office[o].package,
                visibility |-> office[o].visibility, plain |-> office[o].package]
    /\ Leave(o)
    /\ UNCHANGED <<audited, raced, flips, granted, scanned, asking, held>>

VisibilityRead == \E p \in Operators : Publishing(p) /\ office[p].step \in {"read", "waiting", "row"}

CommitVisibility(o) ==
    /\ At(o, "row") /\ office[o].action = "visibility"
    /\ live' = [live EXCEPT !.visibility = office[o].visibility]
    /\ audited' = office[o].visibility
    /\ raced' = VisibilityRead
    /\ flips' = flips + 1
    /\ Leave(o)
    /\ UNCHANGED <<archive, granted, scanned, asking, held>>

(* Mutant: a course that is withdrawn takes its history with it. *)
CommitUnpublishWhole(o) ==
    /\ At(o, "row") /\ office[o].action = "unpublish"
    /\ live' = NoCourse /\ audited' = "public" /\ raced' = VisibilityRead /\ archive' = <<>>
    /\ Leave(o)
    /\ UNCHANGED <<flips, granted, scanned, asking, held>>

(* The versions stay, so the numbers go on; so do the grants.              *)
CommitUnpublish(o) ==
    /\ At(o, "row") /\ office[o].action = "unpublish"
    /\ live' = NoCourse /\ audited' = "public" /\ raced' = VisibilityRead
    /\ Leave(o)
    /\ UNCHANGED <<archive, flips, granted, scanned, asking, held>>

(* An error at any statement, or at the commit: the deferred Rollback.     *)
Abandon(o) ==
    /\ office[o] # Quiet /\ Leave(o)
    /\ UNCHANGED <<live, archive, audited, raced, flips, granted, scanned, asking, held>>

(* The grant of a course that is there, to an account that is there; once  *)
(* or twice is the same. A grant outlives the course's row.                *)
GrantAccess(r) ==
    /\ live # NoCourse /\ granted' = granted \cup {r}
    /\ UNCHANGED <<live, archive, audited, raced, flips, office, scanned, asking, held>>

RevokeAccess(r) ==
    /\ r \in granted /\ granted' = granted \ {r}
    /\ UNCHANGED <<live, archive, audited, raced, flips, office, scanned, asking, held>>

-----------------------------------------------------------------------------
(* BackfillPlainText: one pass that reads, strips, then writes.            *)

ScanChapters ==
    /\ scanned = NoText /\ live # NoCourse /\ live.plain = NoText
    /\ scanned' = live.package
    /\ UNCHANGED <<live, archive, audited, raced, flips, granted, office, asking, held>>

(* The chapter hangs on the row: who is about to delete the row has it.    *)
ChapterFree ==
    \A o \in Operators : HasRow(o) => office[o].action = "visibility"

(* Mutant: what is there already is written over. *)
FillPlainTextAnyway ==
    /\ scanned # NoText /\ ChapterFree
    /\ live' = IF live = NoCourse THEN live ELSE [live EXCEPT !.plain = scanned]
    /\ scanned' = NoText
    /\ UNCHANGED <<archive, audited, raced, flips, granted, office, asking, held>>

FillPlainText ==
    /\ scanned # NoText /\ ChapterFree
    /\ live' = IF live # NoCourse /\ live.plain = NoText
               THEN [live EXCEPT !.plain = scanned] ELSE live
    /\ scanned' = NoText
    /\ UNCHANGED <<archive, audited, raced, flips, granted, office, asking, held>>

-----------------------------------------------------------------------------
(* Readers.                                                                *)

(* VisibilityPredicate, which every statement of a reader asks again.      *)
MayRead(r) ==
    /\ live # NoCourse
    /\ live.visibility = "public" \/ r \in Admins \/ r \in granted

(* GetPublishedChapter: the page, the names of its widgets and the version *)
(* are one statement. Whoever may not read is told "not found".            *)
ReadChapter(r) ==
    /\ asking[r] = NoPage /\ MayRead(r)
    /\ asking' = [asking EXCEPT ![r] = [tag |-> live.version, page |-> live.package]]
    /\ UNCHANGED <<live, archive, audited, raced, flips, granted, office, scanned, held>>

(* GetPublishedWidgets: of the names those that the course ships now, if   *)
(* it may still be read; a chapter without any asks nothing.               *)
Resolved(r, names) ==
    [n \in IF MayRead(r) THEN names \cap WidgetsOf[live.package] ELSE {} |-> live.package]

(* Mutant: the tag of the version that the widgets were read from. *)
AnswerChapterTaggedLate(r) ==
    /\ asking[r] # NoPage /\ live # NoCourse
    /\ LET names == WidgetsOf[asking[r].page]
           body == [tag |-> live.version, page |-> asking[r].page,
                    widgets |-> Resolved(r, names), barred |-> names # {} /\ ~MayRead(r)]
       IN  \E conditional \in BOOLEAN :
               held' = IF conditional /\ held[r] # NoPage /\ held[r].tag = body.tag
                       THEN held ELSE [held EXCEPT ![r] = body]
    /\ asking' = [asking EXCEPT ![r] = NoPage]
    /\ UNCHANGED <<live, archive, audited, raced, flips, granted, office, scanned>>

(* The answer: "not modified" for a browser that holds this tag and says   *)
(* so, otherwise the body, which the browser holds from now on.            *)
AnswerChapter(r) ==
    /\ asking[r] # NoPage
    /\ LET names == WidgetsOf[asking[r].page]
           body == [tag |-> asking[r].tag, page |-> asking[r].page,
                    widgets |-> Resolved(r, names), barred |-> names # {} /\ ~MayRead(r)]
       IN  \E conditional \in BOOLEAN :
               held' = IF conditional /\ held[r] # NoPage /\ held[r].tag = body.tag
                       THEN held ELSE [held EXCEPT ![r] = body]
    /\ asking' = [asking EXCEPT ![r] = NoPage]
    /\ UNCHANGED <<live, archive, audited, raced, flips, granted, office, scanned>>

CatalogNext ==
    \/ \E o \in Operators :
          \/ Publish(o) \/ Rollback(o) \/ SetVisibility(o) \/ Unpublish(o)
          \/ CountVersions(o) \/ InsertVersion(o) \/ ReadVisibility(o)
          \/ ChooseRow(o) \/ TakeRow(o)
          \/ CommitPublish(o) \/ CommitVisibility(o) \/ CommitUnpublish(o) \/ Abandon(o)
    \/ \E r \in Readers :
          GrantAccess(r) \/ RevokeAccess(r) \/ ReadChapter(r) \/ AnswerChapter(r)
    \/ ScanChapters \/ FillPlainText

CatalogSpec == InitCatalog /\ [][CatalogNext]_catalogVars

-----------------------------------------------------------------------------
(* Properties.                                                             *)

(* However operators, failures and the backfill interleave, the live row   *)
(* is the newest version of the archive, its package is what the archive   *)
(* has under that number, and its plain text is its own (Publish replaces  *)
(* the rows in one transaction behind the key of its version, and the      *)
(* backfill leaves what is there alone). Its visibility is what admin_audit *)
(* says, unless that changed while a publish was past reading it.          *)
LiveIsArchived ==
    live # NoCourse =>
        /\ live.version = Len(archive)
        /\ archive[live.version] = live.package
        /\ live.plain \in {NoText, live.package}
        /\ raced \/ live.visibility = audited

(* A chapter is read in two statements, between which it may be published  *)
(* again: the answer pairs a page with other widgets, under the page's     *)
(* version. It never comes back as "not modified": what a browser holds    *)
(* under the live version's tag is that version's page with all of its     *)
(* widgets, because the version is read first and no number returns. The   *)
(* exception is a reader who lost the right to read between the two.       *)
NotModifiedIsWhole ==
    \A r \in Readers :
        live # NoCourse /\ held[r] # NoPage /\ held[r].tag = live.version =>
            /\ held[r].page = live.package
            /\ held[r].barred \/ held[r].widgets = [n \in WidgetsOf[live.package] |-> live.package]

(* Publish "keeps" the visibility (repo.go: without reading it first,      *)
(* publishing again would quietly make a private course public): what the  *)
(* operator last set, and admin_audit has, is what the course has.         *)
VisibilityStands == live # NoCourse => live.visibility = audited

=============================================================================
