# Verification of TuHoc

TuHoc is a course reader with notes, progress, a catalogue and an AI assistant
that learners pay for in prepaid credit. The server is Go (fiber, pgx,
PostgreSQL) under `apps/api`, the client TypeScript (React, TanStack Query)
under `apps/web`; the format of courses and its tools are under `packages` and
`tools`. This directory holds TLA+ models of the parts where concurrency,
failure, ordering or arithmetic decide whether the program is right, the TLC
runs that check them on small instances, and TLAPS proofs for every value of
the constants.

To run it, inside this directory:

    tlc -workers 2 -config LedgerMoney.cfg MCCreditLedger.tla
    tlc -workers 2 -config Server.cfg MCServer.tla
    tlc -workers 2 -config Web.cfg MCWeb.tla
    tlapm CreditLedgerProofs.tla

## The system

### The server

**AI credit ledger** (`internal/ai/credits.go`, `internal/auth/repo.go`,
migrations 0007 and 0008). State: `ai_credits.balance_micro` per user,
`ai_usage` (one row per charge), `admin_audit` (one row per adjustment or change
of the signup grant), `ai_pricing`, `ai_settings`. Operations: `EnsureCredit`
(a read that reserves nothing), `ChargeTurn` (deduct and record in one
transaction, no retry), `CreateUserWithSignupCredit` (user row and grant in one
transaction), `AdjustCredit`, `UpdateSettings`, `UpdatePricing`. Hard: all of
them run at once at READ COMMITTED, any statement can fail, and the process can
restart with transactions open. Right when: a balance is always explained by
its records, nobody is charged without a record, no update is lost, no account
exists without its user, and every minted amount can be traced.

**Charge arithmetic** (`internal/ai/cost.go`). Pure: tokens times price per
thousand, rounded up per band, plus a surcharge per search, in int64. Right
when: the result never falls below the exact price, never wraps, and is refused
only when it does not fit.

**Admission** (`internal/ai/ratelimit.go`, `Chat` in `internal/ai/handler.go`).
State: a slice of call times per user, in memory. `Allow` comes before
`EnsureCredit`; the turn it lets through may outlast the window and is charged
when it ends. Right when: no stretch of one window sees more than the budget,
refusals cost nothing, and the debt that unreserved checks allow is that of the
turns in flight and no more.

**Agent turn** (`streamTurn` in `handler.go`, `RunStream` and `CompleteStream`
in `stream.go`, `tool_search.go`). A turn asks the provider up to
`max_tool_rounds_per_turn` times, runs the tools it is asked for, streams text
to the learner over SSE and is charged on every exit. Hard: the provider, the
search provider, the learner's connection and the deadline fail independently
at any point. Right when: what the provider reported is what is charged,
searches are surcharged only if served and are bounded, the learner is told
once how it ended, and the turn ends.

**Catalogue** (`internal/catalog`). State: the live row of a course with its
chapters, the archive of every version, visibility, grants of access, the
audit. Hard: publish deletes and inserts the row others update, a reader takes
two statements, a backfill writes text it read before. Right when: what is live
is the newest archived version, and a browser that is told "not modified" holds
what is live.

**The learner's rows** (`internal/sync`, `internal/userdata`). Marks and notes
come in batches from old clients, with times of their own, and by single calls.
Right when: the newest stays, and a batch that comes twice changes nothing.

**Ratings and study events** (`internal/rating`, `internal/stats`). Both read
before they insert. Right when: the cap on ratings is exceeded only by requests
that ran together, and an event is stored once unless two deliveries of it ran
together.

**Discussion** (`internal/discuss`). A cache with two lifetimes and a budget of
calls to GitHub. Right when: the budget bounds the calls, and what is served is
fresh.

`Chat` calls `Allow`, then `EnsureCredit`, then `streamTurn`; `streamTurn` runs
`RunStream` and gives its `Result` to `ChargeTurn`, which prices it with
`Charge` and posts it to the ledger. `AgentTurn` produces the usage that
`CreditLedger.EndTurn` takes from `Usages`; `ChargeArithmetic` is the inside of
`CreditLedger.Charge`; `ChatAdmission` bounds how many of the turns of
`CreditLedger` overlap for one account. The catalogue, the learner's rows, the
counted rows and the discussion share no row with those or with each other.

### The web client

**Sessions of a browser** (`auth/sessionIdentity.ts`, `session.ts`,
`useLogout.ts`, `api/useMe.ts`, `api/events.ts`, `progress/heartbeat.ts`,
`db/legacyDrain.ts`). Tabs share one cookie and learn of changes over a
BroadcastChannel; each has a queue of study events, paused writes, and perhaps
an old database to drain. Right when: nothing of one account is shown or sent
under another's session once the tab could know.

**Rows and notes** (`progress/useProgress.ts`, `annotations/`). Optimistic
patches with snapshots, rollbacks and refetches; quotes found again in a text
that changed; notes painted in slices while the page goes on changing; a card
being typed in; a highlight painted before its note is stored; the rescue of a
note that lost its place. Right when: after quiescence the page shows the
server's rows, each placed note is painted once, and a rescue keeps the words.

**Ask panel, reader, search, forms** (`ai/`, `reader/`, `shell/TopNav.tsx`,
`admin/`, `pages/`). Each keeps local state over queries whose answers come
late, in any order, or never. Right when: what is shown belongs to what was
asked: the thread to its chapter, the page to its route, the hits to their
text, the draft to its save, the evidence after an adjustment to that
adjustment.

**Stories and labs** (`stories/`). Codes, channels and small machines computed
in the page, labs that show results beside settings, a message carried from lab
to lab, scenes that follow the reader's scrolling, pictures that fade. Right
when: a result is shown with the settings it is of, and the algorithms do what
the lab says of them.

**Packages** (`packages/course-format`, `tools/tuhoc-cli`, `tools/registry`).
Right when: what one side packs the other publishes, and what it refuses is not
packed.

### What is not modelled

| Part | Why |
|---|---|
| Read-only tools of the agent, provider clients, the GitHub client | one call each, no state; `AgentTurn` and `DiscussionCache` have their outcomes |
| Server accounts and sessions | rows the cookie names; `BrowserSession` has them as the cookie's user, and registration is in `CreditLedger` |
| The server's package check and text extraction | the same rules as `CoursePackage`, written again in Go |
| Server assembly, configuration, logging, search | wiring, I/O, one read-only query |
| `registry/Rating.tsx`, `Discussion.tsx` | mounted by no page |
| Course kit, translations, build scripts | scripts a course page loads, tables of sentences |
| Lists, search and assets of the catalogue; enrolment rows and reads of `userdata`; withdrawal of a vote; aggregates of statistics | single statements that share nothing with the races modelled |
| Geometry of margin cards, drawing, the theme, the copy | nothing to state that a model would decide |
| `SaveAgentConfig`, the non-streaming `Run` | one row of one user; called by no route |

`PROJECT.json` lists every component with the modules that model it, and every
definition with the lines it stands for.

## Modules

### The paid path

`AccountBook` is the abstract specification: an account is a balance beside the
totals of the records that explain it; one step posts one record.

`CreditLedger` is the ledger as it runs. A *request* (turn, registration,
adjustment, edit of the settings) is one call of the code, and `pc[p]` is how
far it got; one action is one statement sent to PostgreSQL or one decision
between statements. The database is modelled by what the code relies on:

- committed rows are variables; a write takes the row's lock (`Write` waits
  while another transaction holds it) and its new value stays in `pending`
  until commit, as at READ COMMITTED;
- `began[p]` is the transaction's `now()`;
- an error return, the deferred Rollback included, is `GiveUp`; a restart of
  the process is `Crash`, after which no request resumes.

| Action | Code |
|---|---|
| `StartTurn`, `EndTurn` | `Chat`, `streamTurn` up to the charge |
| `PriceTurn`, `DeductCredit`, `RecordUsage`, `CommitCharge`, `LoseCharge` | `ChargeTurn`, statement by statement |
| `BeginRegistration`, `InsertUser`, `GrantSignupCredit`, `CommitRegistration` | `CreateUserWithSignupCredit` |
| `FindUser`, `MoveBalance`, `AuditAdjustment`, `CommitAdjustment` | `AdjustCredit` |
| `BeginEdit`, `WriteSettings`, `CommitEdit` | `AdminUpdateSettings`, `UpdateSettings` |
| `UpdatePricing` | `UpdatePricing` (one row, one step) |

`charged`, `adjusted` and `timeline` stand for the rows of `ai_usage` and
`admin_audit`, as the totals and the set the properties ask about. `granted`
is a history variable: the code stores the minted amount nowhere, which is what
`GrantSignupCredit`'s comment is about. Prices are one number, and the
conversion of tokens to credits is a product; the rounding and the width are in
`ChargeArithmetic`.

`ChatAdmission` models one account: the limiter's slice, calls between `Allow`
and `EnsureCredit`, turns running, the balance, and a discrete clock, which
waits for nobody: the reads before a turn are under no deadline, and a flush
outlasts the turn's own. `allowed` and `overstayed` are history variables.
`Allow` is one step because it holds the mutex throughout.

`ChargeArithmetic` has `mulDivUp`, `mulChecked`, `sumChecked` and `Charge` as
operators; every product and sum goes through `Wrap`, two's complement of the
machine's width, so the guards are what keeps it from wrapping.

`AgentTurn` is one turn, sequential in the server, against an environment: the
provider sends text, tool calls, a last chunk with or without usage, or breaks;
`DeadlinePasses` is the turn's deadline; `client` is reading, stalled or gone, and a
write flushes, so it waits for a stalled client and fails on a lost one.
`produced` and `burned` count what the provider generated, `reported` what it
told the server, `served` the searches it performed: the truth against which
`result` and `charged` are compared. "done" is sent before the charge commits
(`stream.go:296`); no client reads the balance on it.

### The other rows of the server

In all of them a transaction runs statement by statement at READ COMMITTED: a
statement that waits for a row looks at the row it chose again when it gets it,
passes over one that was deleted, and does not see one inserted meanwhile.

`CourseCatalog` is one course. `Publish`, `Rollback`, `SetVisibility` and
`Unpublish` begin a case of an operator; `CountVersions`, `InsertVersion` (which
waits for the key of its version), `ReadVisibility`, `ChooseRow`, `TakeRow` and
a commit follow; `ScanChapters` and `FillPlainText` are the backfill;
`ReadChapter` and `AnswerChapter` are a reader's two statements, whose answer a
browser keeps in `held` under the tag of the version. The operators' check of a
grant and its insert are one step.

`LearnerRows` has the two doors: `Push` with `Apply` for each item of a batch,
clamped to the server's time, and `PutProgress`, `CreateAnnotation`,
`PatchAnnotation`, `DeleteAnnotation`. `after` and `marked` are history: what a
batch left behind, and which marks were written.

`CountedRows` is two machines: a vote (count, look, put) and a batch of events
(one insert after another, each unless present). `DiscussionCache` is the cache
and the budget, each one step under its mutex, with `Look`, `Take`, the call to
GitHub and its end as steps of each reader, and a clock that no call outlives
its timeout by. Both live in the memory of one process: a restart begins anew.

### The client

`BrowserSession` has the tabs, the cookie, the announcements on their way
(`bus`), the query of `useMe` (`me`, `asking`), the module state of
`sessionIdentity.ts`, and what must not cross accounts: the queue with its stamp
and the flushes in flight, paused writes, the old outbox. `leaked` records what
was sent under an account other than the cookie's, except by a tab that had no
way to know yet (`Blind`). `delivered` are the batches of the old outbox that
the server took for the account that wrote them. Two logins do not overlap between the POST and
`clearSession`, one `GET /me` is in flight per tab, writes that were paused when
their account was replaced are excused (`stranded`: the code says so), and
`clearSession` succeeds in deleting the outbox.

`OptimisticRows` is one query entry with its patches, snapshots and refetches;
a request that failed for the client was taken before, or never is.
`NoteEditing` puts the open card, its stash in `localStorage` and a reload above
it; `NoteSurface` the selection, the toolbar, temporary paint and the rescue.
`NotePlacement` is the effect and its deferred slices, over how a quote is found
(verbatim, fuzzily, not at all). `PageText` and `QuoteAnchor` are the text below:
leaves that painting cuts and joins, and the quotes with their search (the
budget of cells, `MAX_DP_CELLS`, and `EXACT_CAP` are left out). Unpainting does
not undo painting piece for piece, although `painter.ts` (552) says so: white
space beside a block is cut for a note that is then not painted on it, and only
the parents of unwrapped marks are normalized. No word stays cut
(`WordsJoinAgain`), and the text and its paint are right with any cuts
(`PaintShowsSpans`).

`AskPanel` is the thread and its calls; `ReaderPage` the chapter's div, its
boxes, what is drawn and what the assistant is told; `SearchBox` the box, its
pause, answers and arrows; `FormDrafts` and `AdminSettings` drafts over queries;
`AdminDesk` an operator's mutation and the evidence of it: a load that reads
before the change and answers after it, a learner inspected meanwhile, and a
request that reaches the server after the page was told of its failure
(`TakeLate`). Effects that are due
run before the next input event.

`MessageLabs`, `LabBench`, `LabFigures` and `IdeaLabs` hold the codes and
machines of the labs and each lab as it is used; `MessageJourney` the message
that goes through a story and the results about it; `StoryStage`,
`StoryScenes` and `StoryRoute` the pictures, the scenes and the page of a story;
`StudyYears` and `StudyHome` the progress page, the home page and enrolment;
`CoursePackage` packing, checking, the zip and publishing (a file is its size,
what it would be refused for and what it refers to; a zip its entries and the
names of its index). Amplitudes are fixed
point numbers and probabilities fractions of `DrawRange`.

`MCCreditLedger`, `MCServer`, `MCEndings` and `MCWeb` give the constants values;
`WebPages` puts the forms, and the pages that keep what they were last told,
side by side and states what each owes its reader (`FormsHold`, `PagesHold`).
`MCServer`, `MCEndings` and `MCWeb` put parts that share no state together in one run: a
behaviour picks one part and is one of its behaviours while the others rest in
an initial state, so a run checks each of them from each of its own initial
states and never their product. `WorkHolds` in `MCWeb` asks the rest of the part
that a behaviour picked: the pieces of the text and the quotes in it, the labs.

Definitions commented *Mutant* are plausible bugs, each of which breaks the
property it was written for; nothing else refers to them.

## Runs

| Run | Bounds | Checks |
|---|---|---|
| `LedgerMoney.cfg` | two turns and an adjustment on one account, a registration and an adjustment on another, two prices, one restart; beside that, two registrations against two edits of the grant, one restart | `BalanceExplained`, `NoOrphanAccount`, `NoLostUpdate`, `MintTraceable`, refinement of `AccountBook`, `TurnSettles`, `RowsReleased` |
| `LedgerGrantTimeline.cfg` | the registrations and edits | `GrantReconstructable`: **violated** |
| `Endings.cfg` | a turn of 3 rounds, 2 searches, 2 chunks a round; 2 tabs, 2 accounts, 2 changes of account, nothing but sessions | `ReportedUsageCharged`, `SurchargeOnlyForServed`, `SearchBudgetHolds`, `SearchIsRead`, `ToldOnce`, `EveryTurnEnds`, `EveryTabReturns` |
| `AgentTurnCutOff.cfg` | the same turn | `CutOffTurnBilled`: **violated** |
| `AgentTurnStalled.cfg` | one round | `TurnEndsByDeadline`: **violated** |
| `Server.cfg` | charge: 7-bit integers, prices per 5 tokens; chat: 2 calls per window of 3 ticks, turns of 4 and longer; catalogue: 2 operators, 1 reader, 2 packages, 2 versions; learner: 2 requests at once, 3 batches of two learners; ratings: 2 votes at once, a cap of 1; events: 2 deliveries; discussion: 2 readers, 2 threads | `NeverUndercharged`, `RefusedOnlyWhenTooLarge`, `WindowBound`, `RefusalsJustified`, `OverdraftBounded`, `LiveIsArchived`, `NotModifiedIsWhole`, `LastWriterWins`, `CountsHold`, `DiscussionHolds` |
| `CatalogVisibility.cfg` | the same | `VisibilityStands`: **violated** |
| `BrowserSession.cfg` | 2 tabs, 2 accounts, 2 changes of account | `EventsStayWithOwner`, `WritesStayWithOwner`, `ShownIsCurrent`, `OutboxNotLost` |
| `BrowserLegacy.cfg` | the same, with the old outbox | `LegacyStaysWithOwner`: **violated** |
| `Web.cfg` | per part 2 or 3 of everything: rows, notes, questions, chapters, learners, drafts, texts, scenes; inputs of the algorithms enumerated up to a few characters or bytes | `QuietMirror`, `TapNotOverwritten`, `NoNoteAbandoned`, `PaintedOnce`, `ThreadIsTrue`, `PackagesHold`, `ReaderHolds`, `HighlightsAreNotes`, `FormsHold`, `PagesHold`, `WorkHolds` |
| `AdminGrant.cfg` | one prompt, two grants, 3 edits or saves | `GrantSentOnlyIfTouched`: **violated** |
| `NoteEditing.cfg` | one note, 2 writes, one reload | `TypedTextNotLost`: **violated** |

Why the bounds are enough to be interesting. Two transactions on one row are
all that a lock can tell apart, and a third request on another row shows that
rows do not interfere; one price in two makes a charge exceed `MaxCharge`, so
the overflow path runs; the adjustment of -2 with a grant of 3 and charges of 2
takes an account below zero. Two edits are needed for a grant to change and
change back. In `ChatAdmission` a turn spans more than one window, as the
deployed ten minutes and fifteen seconds do against five minutes, so that
`MaxInTime` exceeds `Max`, and the clock goes on long enough for turns to
outstay their deadlines while new ones are admitted (`overstayed`). In `ChargeArithmetic` tokens and prices lie on both
sides of every guard. In `AgentTurn` three rounds give a failure after success
and a last round beside two that run tools. The catalogue begins empty or with
one archived version, so a second publish finds a row to delete and two
versions exist; one package has a widget that the other has not. The batches
hold a note edited after it was made, one made and deleted by a clock that is
ahead, and another learner's with the same id and a clock far ahead. The cap of
one rating with two votes at once is the smallest at which the cap is exceeded.
In the discussion a failure is kept shorter than an answer and a call takes as
long as half the window. Two tabs and two accounts are the smallest at which a
tab can be wrong. `MaxNews` lets three announcements be on their way to a tab, one
sign-out and sign-in and the answer that repeats it. Where a card or a selection stands above the rows, a reload
takes the place of a write (`WriteOrReload`) and with the last write loads
succeed (`OneFailsOrTwo`): two writes overlap and the first fails, which is
what a rollback is about. The reader's course starts at one of two chapters
that are alike. The safety of the server, of the sessions, of the rows, of the
placement, of the thread, of the forms, of the reader's page, of its
highlights and of the packages rests on none of these bounds: it is proved.

### What the violations show

- **`GrantReconstructable`.** `credits.go:330` says an account's grant can be
  reconstructed from `users.created_at` and the audit timeline. Both times are
  `now()`, the start of a transaction, while the grant is read when its
  statement runs. An edit that begins after a registration and commits before
  that registration reads the grant mints its new value under an older
  `created_at`. That every minted value is *somewhere* in the timeline
  (`MintTraceable`) holds, and is proved.
- **`CutOffTurnBilled`.** `handler.go:267` says a turn cut off by
  `DefaultTurnTimeout` must still be billed for what it burned. It is billed
  for the rounds that finished; the usage of the round that was cut is in a
  last chunk that never arrives. `ReportedUsageCharged`, which holds, is the
  exact contract: all that was reported is charged, on every exit.
- **`TurnEndsByDeadline`.** `handler.go:202` calls `DefaultTurnTimeout` the
  ceiling on one turn. It bounds the context that reads and queries use; a
  flush to a learner who keeps the connection open and reads nothing is not
  under it, and `server.go` sets no write timeout. The turn, with its charge,
  waits for the network.
- **`VisibilityStands`.** `repo.go:325` (catalog) says that Publish reads the
  visibility so that a private course does not come back public. A
  `SetVisibility` that commits between that read (`:329`) and the delete
  (`:341`) has been answered and audited, and is undone by the reinsert.
  `LiveIsArchived` says the rest: the visibility is the audited one unless
  that race happened (`raced`).
- **`LegacyStaysWithOwner`.** `legacyDrain.ts:75` says that an outbox belongs to
  exactly one account and that sending it to another is strictly worse than not
  sending it; before each batch the drain asks whether *another* tab took the
  session (`:109`). A change of account in its own tab never answers yes to
  that: a log-out that leaves the drain running and a sign-in as somebody else
  in that tab send the batches left under the new cookie. Where another tab
  signs in, a batch that leaves before the announcement comes is excepted
  (`Blind`). What holds is `OutboxNotLost`: the old database goes only when the
  server has every batch for the account that wrote it, or a session on this
  browser was ended or replaced.
- **`GrantSentOnlyIfTouched`.** `AdminPricing.tsx:349` says of the signup grant
  that it is SENT ONLY WHEN IT ACTUALLY CHANGED. It is compared with the query's
  data, while the draft keeps what it was seeded with: after another operator's
  change and a refetch, or between this page's own save and the refetch behind
  it, a save of the prompt sends the draft's grant. It files an audit row for a
  change nobody made and takes the other operator's back. `GrantIntended`, in
  `FormsHold`, is what is left: it happens in no other way.
- **`TypedTextNotLost`.** `MarginCards.tsx:420` keeps the stash until the write
  has landed. The effect at `:455` drops it as soon as the row shows the text,
  which the optimistic patch does at once; a reload then finds neither.

### What else the models made visible

Behaviours the models have, which the properties therefore except by name, and
some that have no run of their own:

- Catalogue. A `SetVisibility` that waits behind a publish answers "not found"
  for a course that is live, since the row it chose was deleted. A private
  course that is unpublished and published anew is public, with its grants. A
  page may come with another version's widgets, though `Publish` says that a
  half-published course can never be observed; it never comes back as "not
  modified". A reader who loses the right between the statements gets no
  widgets, and a later 304 confirms that answer (`barred`).
- The learner's rows. A batch with times ahead is clamped anew each time it
  comes and may beat an edit made in between; items clamped to one time tie, and
  the first stays; a note deleted for good comes back with a replayed batch; a
  PATCH has no guard on time; two batches in opposite order of rows deadlock,
  and one is rolled back (`Abort`).
- Ratings: the cap is exceeded by at most the requests that ran together less
  one. Discussion: a slower answer replaces a newer one, a failure included.
- Administration. `AdminDesk`: `AdminCredits.tsx:128` says that the evidence on
  screen is never stale after an attempt, success or not. The account asked for
  again is the learner's who is inspected when the answer comes; a load of the
  learner adjusted that read before the change and answers after it is left to
  land, and whoever returns to that learner meanwhile joins it (`passed`, which
  `EvidenceFresh` excepts). A request that reaches the server after its failure
  was shown, by a proxy's timeout say, is asked for by nothing (`TakeLate`,
  which makes no change that the page must know of). `FormDrafts`: the read
  after a save joins a load under way and may seed the form with what was there
  before (`early`); if that read fails, a stored save is called rejected.
- Search: the highlight is dropped for another text, not for other hits of the
  same one that a later load brings; arrows walk hits that an error or a closed
  box hides; Escape takes
  200 ms to clear the panel. Notes: a highlight deleted while its creation is
  unanswered leaves temporary paint until the page is drawn again (`dropped`).
- Reader: after a refetch that failed, the same text that comes again is not
  drawn, and the page is blank (`relapsed`, `ChapterView.tsx:613`).
- Stories: leaving a story gives the document the language it had when the
  story was opened, though it was changed since (`useStoryDocumentMeta.ts:51`);
  `DocumentSpeaksTongue` in `StoryRoute` says otherwise and is no run's property.
- Packages: two names that differ only in case are packed, and refused when
  published (`NoFoldClash`). An entry that has a name ending in a slash and is
  not empty is a file to `unpackZip`, which keeps it so as not to drop a real
  file (`zip.ts:550`), and no file to the server (`pkgcheck.go:341`).

## Fairness

Safety properties use a specification without fairness.
`CreditLedger.FairSpec` has weak fairness on serving each accepted request
(`ServeTurn(t)` and the like): the goroutine runs, each wait is bounded by a
context, and PostgreSQL grants a row lock once it is free. It does not have the
client send a request, and a failure or a restart is never forced. Weak
fairness is enough because each request is served at most once and other
requests can hold a row only finitely often.

`AgentTurn.ServerFairness` is strong fairness on `Serve` (a connection that
becomes writable again and again is written to), weak fairness on the deadline
and on a read failing once the deadline is over. The provider has no
obligation to send anything. `TurnFairSpec` adds that a stalled connection is in
time read or lost: without it `TurnEnds` fails, which is what
`AgentTurnStalled.cfg` shows. `ChatAdmission`, which is about safety, therefore
lets a turn outlive its deadline.

`BrowserSession.FairSpec` has announcements arrive and a sign-in or sign-out
that has begun its last step end (nothing is awaited there): weak fairness on
`Receive`, `LeaveSession` and `EnterSession`; the learner returns to each tab
again and again, which is when `useMe` refetches on focus, and an answer comes:
weak fairness, for each tab, on its asking or being answered. Not every
`GET /me` fails, as `MaxTurns` bounds the failures.

`MCEndings.EndingsSpec` is `TurnFairSpec` of one part and `FairSpec` of the
other: a behaviour is of one part, so one fairness condition serves an action of
each. The questions of one tab share theirs with `Serve`, which is strong; that
asks more than `FairSpec` only where the bound `MaxNews` keeps an answer from
being announced.

`CHECK_DEADLOCK FALSE` is in the runs whose system stops: requests are served
once, a turn ends, and the bounded numbers of writes, events and steps run out.

## Proofs

Each theorem is for any value of the constants that satisfies the assumption of
its module: numbers are natural, names that stand for "nothing" are none of the
things, sets that are counted are finite. The assumptions are evaluated by the
runs.

`CreditLedgerProofs`: for any sets of users and requests, any prices, grants
and adjustments, any `MaxCharge` and any number of restarts, `TypeCorrect`,
`BalanceAlwaysExplained`, `AccountsNeverOrphaned`, `UpdatesNeverLost`,
`MintAlwaysTraceable`, and `Refinement`: `Spec => ImplementsAccountBook`.
`BalanceExplained` is not inductive. A commit publishes a value computed by an
earlier statement, so the invariant must say that this value is still the
committed balance moved by the request's own amount. That is `NoLostUpdate`,
and it holds because the request still owns the row's lock. It also needs the
ranges of the requests' locals (`LocalsOK`) and that an address not yet
registered has no records (`Fresh`), or opening its account would overwrite
something. `IInv` is the conjunction; there is one lemma per action, and
`NextStep` combines them. `MintTraceable` has an invariant of its own,
`MintInv`, on top of `IInv`: the grant in force, and the grant a registration
has read and not committed, are in the timeline, which only grows. The
refinement maps each commit to one posting of `AccountBook` and every other
step to a stutter; it uses `IInv` to know what a commit publishes.

`MeteringProofs`, on the arithmetic: for any width, any unit `Per` no larger
than the largest integer (in the code 999 against 2^63 - 1), any usage and any
prices: `MulDivUpExact`, `MulCheckedExact` and `AddCheckedExact` (the guarded
operation is the exact mathematical one, or an error exactly when an argument
is negative or the result would not fit), then `TotalExact` and `ChargeExact`,
and from them `ChargeTypeCorrect`, `ChargeNeverUndercharges` and
`ChargeRefusedOnlyWhenTooLarge`. On admission: `WindowHolds`,
`OverdraftHolds` and the action property `RefusalsAreJustified`. The slice of
the limiter says nothing of the calls it dropped. What makes the window hold is
that the times are in order, so that the filter keeps an end of them
(`KeptIsAnEnd`), and that what it dropped is too old to matter (`Remembers`);
through stretches of several windows (`Stretches`), which one call extends by
one window, the turns that keep their deadlines are among the last `MaxInTime`
calls (`InTimeIsBounded`). Others may run on, their connection stalled or a
read before the turn slow: `overstayed` is the number of them when the credit was used up. The turns in flight bound the debt
(`Payable`, `Spare`), and so `OverdraftBounded` is stated with both.

`AgentTurnProofs`: for any number of rounds, searches and chunks,
`UsageChargedAsReported`, `SurchargesWereServed`, `BudgetIsKept`,
`LearnerToldOnce` and the action property `SearchesAreRead`. The charge needs to
know where the usage of the round under way is (`Metered`), the surcharge and
the budget that a call is counted and not answered yet (`Searched`), what the
learner was told what the sink knew of the connection (`Told`).

`ServerRowsProofs`, on the catalogue: for any operators, readers and packages, `CatalogLive` and
`CatalogNotModified`. Between the statements of interleaved transactions there
remains `GoodCase`: a publish that has its number holds the next number, alone,
because others wait for its key; a publish that has chosen a row finds that row
or none; who holds the row is the only one, and the row is the live one. On top
of it a version's tag names one package for good, which is what a 304 relies
on.

On the rows of learners: `LearnerRowsSafe` (`LastWriterWins`: the newest mark
stands; no older item wins; a replay changes nothing). The hard case is a batch
that writes a note and erases it: what a row says after it is traced to the
last item that wrote it and was not erased (`LeftBy`, over the pure definitions
`Outcome`, `Killed`, `WroteIt`), and for a request under way to what it will
have left once it commits. `CountsAreRight` (`CountsHold`): each vote on its way
was counted when the others were not there, so the votes held and those on the
way stay below the cap plus the voters (`RatingInv`); an open delivery knows
what it inserted, and that it was alone if nothing was beside it since it began
(`EventInv`). `DiscussionServes` (`DiscussionHolds`): the calls are an account of
the budget (`Rationed`): the window holds the last of them, and those before
the ration of the window before are older than a window; `AccountNext` says what
one call does to such an account.

`BrowserSessionProofs`: for any tabs and accounts, `EventsKeptApart`,
`WritesKeptApart`, `ShownStaysCurrent` and `OutboxKept`; that no batch of the
outbox goes to another account is not among them, since it is not so
(`LegacyStaysWithOwner`). What carries them is
`Warned`: a tab that still shows an account the cookie has left has either asked
too early, or a sign-in is about to be announced, or the announcement lies in
its channel. `OutboxKept` needs that a drain under way
has delivered what is no longer left to it (`Stored`), or that a session was
ended or replaced (`Replaced`).

`AnnotationProofs`: for any rows, values and writes `QuietMirrorHolds` and
`TapsStand`, since with no write under way what a load has read is what the
server holds (`LoadIsFresh`), and a write that stands alone has no load beside
it (`AloneUnloaded`); for any notes, anchors and renders `NoneAbandoned` and
`PaintedExactlyOnce`, from an invariant that ties what was tried, what is
painted and what is published to the rows and the content (`Truthful`,
`Painted`). Above the rows, `HighlightsStand`: for any rows, anchors and
selections the page colours what is stored once every write is answered. A
quiet page says nothing of the paint that a write under way left, so the
invariant `SurfaceInv` follows each temporary paint: its highlight is a creation
not answered yet, or stored and not seen, and nothing on its way deletes it
(`Awaited`); a highlight that was not made is in no row, snapshot or load
(`Unmade`), or a rollback would bring it back.

`ClientProofs`: for any number of questions and chunks `ThreadStaysTrue` (the
only call that is open and wanted is the current one, and each turn says of its
call what the call has read), and `QuestionsFit` for every limit of the wire.
`FormsStand`, for any texts, contents, policies and learners, proves `FormsHold`
with the exceptions its parts name: each form has an invariant of its own, since
they share nothing. A query of the search box that
has no hits was last reported as empty (`SearchInv`). A grant that nobody typed
in is the one the draft was seeded with (`SettingsInv`), so a save that sends it
found another in the query than the draft's. Since the server took a
save, what it keeps, and what a read that began after it brings, is one of what
it kept since (`DraftInv`). Every answer on the operator's desk that is to come,
or that came and stands, was read after the changes the page must know of, or
is one that `passed` excepts (`FreshEnough` in `DeskInv`). `PagesStand`, for any years, courses, stories,
scenes, texts and messages, from an invariant for each page. An answer kept, or on its
way, is of the year it was asked for and names that year if it names any
(`YearInv`). With nothing asked and no change under way that the server has
taken, the list is what the server has, and so is a list on its way back
(`ListInv`): a change that is done drops the request beside it, or an older
answer could land last. For what the home page says of the list
(`HomeSpeaksTrue`), `ListsKept` adds that neither the server's list nor any copy
of it names a course twice; that the courses below the first are the list
without it is proved of the recursive function by induction (`KeptExists`,
`WithoutOne`). A story's page waits for the import of its own route and
attempt, and exactly the edition on screen has borrowed the document
(`RouteInv`). The active scene is the pending one, or one of those last reported,
unless the reader named another (`SceneInv`); a scene picked by its distance is
one of those reported because distances have a least (`ClosestIsReported`), and
the two plates are on two layers. A result that a lab keeps is of an earlier
revision, or of the message in use; a comparison under way is of that message and
of what the lab still keeps, as any change aborts it (`JourneyInv`). A reset
counts revisions from 0 again, so it has to leave nothing of the session before
behind. The paint of the notes (`PaintShowsSpans`) is proved for any page, notes
and spans, in whatever order they are painted and unpainted: the page `Stands`,
that is, it has edges between its leaves, each leaf reads as the page did at
first between its edges, is within the span of each note that is painted on it,
and is white space where a span covers it unpainted. Cutting a leaf adds an edge
and joining two takes one away; a note is wrapped only where its span has edges,
so no leaf is half within it (`WrapStands`), which is why the text is cut for a
whole batch first. Where nothing was painted and the cuts are undone, the page
stands for the new spans all the same, as they cover nothing but white space
(`BlanksStand`). `Ends`, `Flat`, `ApplyCuts`, `Wrapped` and `Normalized` are
recursive functions: that each exists is `RunExists`, what it keeps is proved by
`Induction`. `PageStands`: for any chapters,
exercises and number of events the div, its boxes and what the assistant is told
belong to the chapter on the route. The div is written by an effect that only
runs when what it depends on has changed, so `ScreenKept` says what it last
depended on, and that where it wrote nothing although there was data a refetch
had failed; `DivKept` says which text and boxes it left.

`PackageProofs`: for any folders, any zips of other tools, any limit and any
number of commands, `PackagesAlwaysHold` (`PackagesHold`). Two theorems about the
zip, of any content, carry it. `PackedReads`: for files that `validatePackage`
accepts and no two of whose names clash, `unpackZip` undoes `packZip` and the
server finds the same files. `PublishedReads`: in any zip, `publish` and the
server see the same files entry for entry, or one of them refuses it; the step
that matters counts: as many entries were read as the index has names, each name
read is in the index and none twice, so the index has no name twice and none
that was not read. Sizes and entries are added up by recursive functions
(`Totals`, `Readings`); what holds after each step is proved by induction, as the
least counterexample of a set of numbers (`LeastOf`, `Induction`). `PackageInv`
adds what lies around: what is published was found and accepted, what was packed
is an accepted folder and the zip is made of it, and the registry holds accepted
folders. The assumptions are the shape of the inputs: folders are finite and hold
no file named like a directory, a zip is a list of entries beside a list of names,
and "nothing" is not a code of refusal. The first attempt failed, rightly, on a
zip with a non-empty entry whose name ends in a slash: `unpackZip` keeps it, on
purpose (`zip.ts:550`), and the server's check takes every such name for a
directory and leaves it out (`pkgcheck.go`), so the two sides do *not* see the
same files in it. The bounds of the run had no such entry. It has one now, and
`PublishedIsReadable` says what is true: they differ in such entries only, and
what the server serves is complete without them.

Checked by TLC only:

- every liveness property (`TurnSettles`, `RowsReleased`,
  `EveryTurnEnds`, `EveryTabReturns`): the prover has no rules for fairness and ENABLED;
- `WorkHolds`: what codes, machines and diffs compute, written with the folds of
  the community modules and, in `MessageLabs`, with a RECURSIVE operator, and
  that no word stays cut (`WordsJoinAgain`), which counts pieces.

## What the models leave out

- The ledger has one row per account. An adjustment's and an edit's fields
  other than the amounts are left out, and with them the validation of their
  text. PostgreSQL is assumed to do what READ COMMITTED says. A commit whose
  answer is lost on the way back is not modelled in the ledger: nothing
  retries, so to the books it is a commit.
- `ChatAdmission` has one server process, as deployed; the budget is per
  process and empty after a restart (`Restart`).
- `AgentTurn` leaves out what the messages say, and the idle and total timeouts
  of a read as causes distinct from a broken stream.
- `LearnerRows` has one chapter and one note: rows interfere only through their
  keys. A statement that waits for a row deleted and inserted again is not told
  from one that starts later.
- `CountedRows` has one user: the cap and the keys of events are a user's.
- The client's models have one component each; what two pages mounted together
  share is only the query cache, which each has for itself.
- Stories: a deferred scroll to an address is not cancelled, a dragged
  scrollbar does not release the scene that was asked for; the cover, the
  preloading of pictures and retries of a lab's code are not modelled.

## Plan

1. `AgentTurn` composed with `CreditLedger`: the charge of a turn as the
   ledger's request.
2. The withdrawal of a vote in `CountedRows`, enrolment rows in `LearnerRows`.
3. The algorithms of `WorkHolds` as recursive functions, for the induction that
   `PackageProofs` and `ClientProofs` use.
