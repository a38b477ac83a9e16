--------------------------- MODULE BrowserSession ---------------------------
(***************************************************************************)
(* One browser, several tabs, one session cookie. Each tab has its own     *)
(* answer of GET /me (api/useMe.ts), its own idea of the account the       *)
(* browser belongs to (auth/sessionIdentity.ts), its queue of study events *)
(* (api/events.ts), optimistic writes that TanStack Query may pause, and   *)
(* perhaps a drain of the old outbox (db/legacyDrain.ts). Signing in       *)
(* (pages/Login.tsx) and out (auth/useLogout.ts) happen in one tab; the    *)
(* others learn of it from a BroadcastChannel, later.                      *)
(*                                                                         *)
(* A request carries the cookie the browser holds when it leaves. What one *)
(* carried for an account other than the cookie's goes into `leaked',      *)
(* unless the tab had no way to know yet; see Blind.                       *)
(***************************************************************************)
EXTENDS Naturals, Sequences, FiniteSets

CONSTANTS
    Tabs, Users,
    Nobody,         \* null: settled, nobody is signed in
    Unknown,        \* undefined: this tab has not found out
    Works,          \* kinds of work, of which a behaviour has one
    Workers,        \* the tabs whose events and writes are followed
    LegacyOwner,    \* whose outbox the old build left on this browser
    Batches,        \* requests its rows fill
    MaxTurns,       \* bound: sign-ins, sign-outs, expiries, reloads and
                    \* failures of GET /me
    MaxFlights,     \* bound: flushes of a tab in flight
    MaxNews         \* bound: announcements on their way to a tab

ASSUME SessionAssumption ==
    /\ Nobody \notin Users /\ Unknown \notin Users /\ Nobody # Unknown
    /\ LegacyOwner \in Users
    /\ Workers \subseteq Tabs /\ Works # {} /\ Works \subseteq {"none", "events", "writes", "legacy"}
    /\ Batches \in Nat \ {0}
    /\ MaxTurns \in Nat /\ MaxFlights \in Nat \ {0} /\ MaxNews \in Nat

VARIABLES
    cookie,         \* the account the browser's cookie is valid for
    bus,            \* bus[t]: announcements on their way to t
    localUser, superseded,          \* sessionIdentity's module state
    me,             \* the query: its data, and whether its last answer came
    asking,         \* a GET /me in flight, with the answer it will bring
    queue, queueOwner,              \* events by account, and the stamp
    flights,        \* flushes in flight; fresh while queueGeneration holds
    paused,         \* accounts with a write paused by networkMode 'online'
    stranded,       \* history: ... when this tab's account was replaced
    heard,          \* history: its last news of its account was hearsay
    pc, arriving,   \* where a sign-in or sign-out is, and who signs in
    drain, left,    \* the drain: undecided, on, off; batches left to it
    outbox,         \* whether the old database is on disk
    work,           \* what this browser's learner does besides signing in
    turns,
    overtaken,      \* history: the last answer was older than the cookie
    delivered,      \* history: batches of the outbox the server took for
                    \* their owner
    cleared,        \* history: clearSession ran
    leaked          \* history: kinds of request sent under a wrong account

identity == <<localUser, superseded>>
writes == <<paused, stranded>>
trust == <<heard, overtaken>>
events == <<queue, queueOwner, flights>>
transition == <<pc, arriving>>
legacy == <<drain, left, outbox, delivered>>
bounds == <<work, turns>>
vars == <<cookie, bus, identity, me, asking, events, writes, transition,
          legacy, bounds, trust, cleared, leaked>>

Somebody == Users \cup {Nobody}

Init ==
    /\ work \in Works /\ outbox = (work = "legacy")
    \* One user is signed in; users are alike but for the outbox, and a
    \* browser where nobody is signed in is what an expiry leaves.
    /\ cookie = LegacyOwner
    /\ bus = [t \in Tabs |-> << >>]
    /\ localUser = [t \in Tabs |-> Unknown]
    /\ superseded = [t \in Tabs |-> FALSE]
    /\ me = [t \in Tabs |-> [data |-> Unknown, ok |-> TRUE]]
    /\ asking = [t \in Tabs |-> Unknown]
    /\ queue = [t \in Tabs |-> {}]
    /\ queueOwner = [t \in Tabs |-> Unknown]
    /\ flights = [t \in Tabs |-> {}]
    /\ paused = [t \in Tabs |-> {}] /\ stranded = [t \in Tabs |-> FALSE]
    /\ pc = [t \in Tabs |-> "idle"]
    /\ arriving = [t \in Tabs |-> Nobody]
    /\ drain = [t \in Tabs |-> "undecided"]
    /\ left = [t \in Tabs |-> 0]
    /\ turns = 0
    /\ overtaken = [t \in Tabs |-> FALSE] /\ heard = [t \in Tabs |-> FALSE]
    /\ delivered = IF outbox THEN {} ELSE 1 .. Batches
    /\ cleared = FALSE /\ leaked = {}

-----------------------------------------------------------------------------
(* What a tab shows and what it can know.                                  *)

(* useMe's answer: nobody while superseded, else the query's data. *)
Answer(t) == IF superseded[t] THEN Nobody ELSE me[t].data

(* isSuccess of the same, and a user: confirmedLoggedIn. RequireAuth lets   *)
(* its page through on this, and keeps it on a failed refetch with no      *)
(* response; what sends anything asks for this.                            *)
Shown(t) == IF superseded[t] \/ me[t].ok THEN Answer(t) ELSE Unknown

(* News of another tab's sign-in or sign-out is under way to t. *)
News(t) ==
    \/ bus[t] # << >>
    \/ \E u \in Tabs \ {t} : pc[u] \in {"leaving", "arriving"}

(* The two windows no code in the tab can see: news that has not arrived,  *)
(* and an answer of GET /me that a switch has overtaken.                   *)
Blind(t) == News(t) \/ overtaken[t]

Leak(kind, by, excused) ==
    leaked' = IF cookie \in Users /\ by \ {cookie} # {} /\ ~excused
              THEN leaked \cup {kind} ELSE leaked

-----------------------------------------------------------------------------
(* auth/sessionIdentity.ts.                                                *)

Post(t, said) ==
    /\ \A u \in Tabs \ {t} : Len(bus[u]) + Len(said) <= MaxNews
    /\ bus' = [u \in Tabs |-> IF u = t THEN bus[u] ELSE bus[u] \o said]

(* What announceSessionUser posts of users, which differ from each other. *)
Said(t, users) == IF Head(users) = localUser[t] THEN Tail(users) ELSE users

(* Mutant: what the tab learns itself does not end the superseded state. *)
AnnounceStickily(t, users) ==
    /\ localUser' = [localUser EXCEPT ![t] = users[Len(users)]]
    /\ UNCHANGED superseded
    /\ Post(t, Said(t, users))

(* announceSessionUser of each of users in turn: without effect, on        *)
(* `superseded' too, when it is no news to the tab.                        *)
Announce(t, users) ==
    /\ localUser' = [localUser EXCEPT ![t] = users[Len(users)]]
    /\ superseded' = [superseded EXCEPT ![t] = @ /\ Said(t, users) = << >>]
    /\ Post(t, Said(t, users))

(* Mutant: an announcement is heard only by a tab that knows nothing. *)
ReceiveDeafly(t) ==
    /\ bus[t] # << >>
    /\ bus' = [bus EXCEPT ![t] = Tail(@)]
    /\ localUser' = [localUser EXCEPT ![t] = IF @ = Unknown THEN Head(bus[t]) ELSE @]
    /\ UNCHANGED <<cookie, superseded, me, asking, events, writes, transition,
                   legacy, bounds, trust, cleared, leaked>>

(* receive: a tab that knows nothing adopts what it hears, one that knows  *)
(* better than what it hears is superseded. The mask settles useMe, which  *)
(* decides the drain.                                                      *)
Receive(t) ==
    /\ bus[t] # << >>
    /\ bus' = [bus EXCEPT ![t] = Tail(@)]
    /\ LET user == Head(bus[t])
           changed == localUser[t] \notin {Unknown, user}
       IN  /\ localUser' = [localUser EXCEPT ![t] = IF @ = Unknown THEN user ELSE @]
           /\ superseded' = [superseded EXCEPT ![t] = @ \/ changed]
           /\ heard' = [heard EXCEPT ![t] = @ \/ changed]
           /\ stranded' = [stranded EXCEPT ![t] = @ \/ (changed /\ paused[t] # {})]
           /\ drain' = [drain EXCEPT ![t] =
                            IF changed /\ @ = "undecided" THEN "off" ELSE @]
    /\ UNCHANGED <<cookie, me, asking, events, paused, transition, left,
                   outbox, delivered, bounds, overtaken, cleared, leaked>>

-----------------------------------------------------------------------------
(* api/useMe.ts and App.tsx.                                               *)

(* A load, a focus after a minute or a reconnect asks GET /me; the answer  *)
(* is that of the cookie it left with. Each tab has a query of its own,    *)
(* which asks again only when it has been answered.                        *)
RequestMe(t) ==
    /\ asking[t] = Unknown
    /\ asking' = [asking EXCEPT ![t] = cookie]
    /\ UNCHANGED <<cookie, bus, identity, me, events, writes, transition,
                   legacy, bounds, trust, cleared, leaked>>

(* useLegacyDrain: the first settled answer of a load decides. *)
Decide(t, user) ==
    LET begins == /\ drain[t] = "undecided" /\ t \in Workers
                  /\ user \in Users /\ outbox
    IN  /\ left' = [left EXCEPT ![t] = IF begins THEN Batches ELSE @]
        /\ drain' = [drain EXCEPT ![t] =
                        IF begins THEN "on"
                        ELSE IF @ = "undecided" THEN "off" ELSE @]

(* fetchMe answered: the effect of useMe announces the settled user. *)
AnswerMe(t) ==
    LET user == asking[t]
    IN  /\ user # Unknown
        /\ asking' = [asking EXCEPT ![t] = Unknown]
        /\ me' = [me EXCEPT ![t] = [data |-> user, ok |-> TRUE]]
        /\ Announce(t, <<user>>)
        /\ Decide(t, IF superseded'[t] THEN Nobody ELSE user)
        /\ stranded' = [stranded EXCEPT
              ![t] = @ \/ (user # localUser[t] /\ paused[t] # {})]
        /\ heard' = [heard EXCEPT ![t] = @ /\ user = localUser[t]]
        /\ overtaken' = [overtaken EXCEPT ![t] = user # cookie]
        /\ UNCHANGED <<cookie, events, paused, transition, outbox, delivered,
                       bounds, cleared, leaked>>

(* Anything but an answer or a 401: the data stays, unsettled. *)
FailMe(t) ==
    /\ asking[t] # Unknown
    /\ turns < MaxTurns /\ turns' = turns + 1
    /\ asking' = [asking EXCEPT ![t] = Unknown]
    /\ me' = [me EXCEPT ![t].ok = @ /\ me[t].data = Unknown]
    /\ UNCHANGED <<cookie, bus, identity, events, writes, transition, legacy,
                   work, trust, cleared, leaked>>

(* A reload, or redirectToLogin after a 401: the tab starts over. Drains   *)
(* and flushes end with the page; what they sent has been sent.            *)
Reload(t) ==
    /\ turns < MaxTurns /\ pc[t] = "idle"
    /\ turns' = turns + 1
    /\ bus' = [bus EXCEPT ![t] = << >>]
    /\ localUser' = [localUser EXCEPT ![t] = Unknown]
    /\ superseded' = [superseded EXCEPT ![t] = FALSE]
    /\ me' = [me EXCEPT ![t] = [data |-> Unknown, ok |-> TRUE]]
    /\ asking' = [asking EXCEPT ![t] = Unknown]
    /\ queue' = [queue EXCEPT ![t] = {}]
    /\ queueOwner' = [queueOwner EXCEPT ![t] = Unknown]
    /\ flights' = [flights EXCEPT ![t] = {}]
    /\ paused' = [paused EXCEPT ![t] = {}]
    /\ stranded' = [stranded EXCEPT ![t] = FALSE]
    /\ drain' = [drain EXCEPT ![t] = "undecided"]
    /\ left' = [left EXCEPT ![t] = 0]
    /\ overtaken' = [overtaken EXCEPT ![t] = FALSE]
    /\ heard' = [heard EXCEPT ![t] = FALSE]
    /\ UNCHANGED <<cookie, transition, outbox, delivered, work, cleared, leaked>>

-----------------------------------------------------------------------------
(* api/events.ts.                                                          *)

(* queueGeneration += 1, as the flushes in flight will see it. *)
NextGeneration(fs) == {[f EXCEPT !.fresh = FALSE] : f \in fs}

(* startHeartbeat's tick, for the account shown: queueEvent, which empties *)
(* a queue stamped with another session before it takes the event.         *)
Beat(t) ==
    /\ work = "events" /\ t \in Workers /\ Shown(t) \in Users
    /\ LET handedOver == queueOwner[t] # localUser[t]
       IN  /\ queue' = [queue EXCEPT ![t] =
                           (IF handedOver THEN {} ELSE @) \cup {Shown(t)}]
           /\ queueOwner' = [queueOwner EXCEPT ![t] = localUser[t]]
           /\ flights' = [flights EXCEPT ![t] =
                             IF handedOver THEN NextGeneration(@) ELSE @]
    /\ UNCHANGED <<cookie, bus, identity, me, asking, writes, transition,
                   legacy, bounds, trust, cleared, leaked>>

(* Mutant: the flush asks whether it was superseded, not whose queue it is. *)
FlushUnstamped(t) ==
    IF queue[t] = {} THEN UNCHANGED <<events, leaked>>
    ELSE /\ queue' = [queue EXCEPT ![t] = {}]
         /\ UNCHANGED queueOwner
         /\ IF superseded[t]
            THEN UNCHANGED <<flights, leaked>>
            ELSE /\ flights' = [flights EXCEPT ![t] =
                                   @ \cup {[batch |-> queue[t], fresh |-> TRUE]}]
                 /\ Leak("events", queue[t], Blind(t))

(* flushEvents up to its await: discard the queue of a session that is     *)
(* over, or send it.                                                       *)
Flush(t) ==
    IF queue[t] = {} THEN UNCHANGED <<events, leaked>>
    ELSE /\ queue' = [queue EXCEPT ![t] = {}]
         /\ IF superseded[t] \/ queueOwner[t] # localUser[t]
            THEN /\ flights' = [flights EXCEPT ![t] = NextGeneration(@)]
                 /\ queueOwner' = [queueOwner EXCEPT ![t] = localUser[t]]
                 /\ UNCHANGED leaked
            ELSE /\ flights' = [flights EXCEPT ![t] =
                                   @ \cup {[batch |-> queue[t], fresh |-> TRUE]}]
                 /\ Leak("events", queue[t], Blind(t))
                 /\ UNCHANGED queueOwner

(* startEventFlusher's interval or a hidden page, while useMe has a user. *)
FlushTick(t) ==
    /\ Answer(t) \in Users /\ queue[t] # {}
    /\ Cardinality(flights[t]) < MaxFlights
    /\ Flush(t)
    /\ UNCHANGED <<cookie, bus, identity, me, asking, writes, transition,
                   legacy, bounds, trust, cleared>>

(* Mutant: a failed batch returns into whatever queue there is. *)
AnswerFlushBlindly(t) ==
    /\ \E f \in flights[t] :
           /\ flights' = [flights EXCEPT ![t] = @ \ {f}]
           /\ \/ UNCHANGED queue
              \/ queue' = [queue EXCEPT ![t] = @ \cup f.batch]
    /\ UNCHANGED <<cookie, bus, identity, me, asking, queueOwner, writes,
                   transition, legacy, bounds, trust, cleared, leaked>>

(* The rest of flushEvents: sent; or failed, and the batch returns to the  *)
(* queue if the generation is still the one it left under.                 *)
AnswerFlush(t) ==
    /\ \E f \in flights[t] :
           /\ flights' = [flights EXCEPT ![t] = @ \ {f}]
           /\ \/ UNCHANGED queue
              \/ /\ f.fresh
                 /\ queue' = [queue EXCEPT ![t] = @ \cup f.batch]
    /\ UNCHANGED <<cookie, bus, identity, me, asking, queueOwner, writes,
                   transition, legacy, bounds, trust, cleared, leaked>>

-----------------------------------------------------------------------------
(* A write: a mutation of TanStack Query, started by the account shown. On *)
(* line it leaves at once; off line it is paused and leaves later, with    *)
(* whatever cookie there is.                                               *)

Write(t) ==
    /\ work = "writes" /\ t \in Workers /\ Shown(t) \in Users
    /\ \/ Leak("write", {Shown(t)}, Blind(t)) /\ UNCHANGED paused
       \/ /\ paused' = [paused EXCEPT ![t] = @ \cup {Shown(t)}]
          /\ UNCHANGED leaked
    /\ UNCHANGED <<cookie, bus, identity, me, asking, events, stranded,
                   transition, legacy, bounds, trust, cleared>>

(* resumePausedMutations; nothing guards what a tab had paused when another *)
(* tab, or an expiry, replaced its account.                                *)
Resume(t) ==
    /\ paused[t] # {} /\ pc[t] # "arriving"
    /\ Leak("write", paused[t], Blind(t) \/ stranded[t])
    /\ paused' = [paused EXCEPT ![t] = {}]
    /\ stranded' = [stranded EXCEPT ![t] = FALSE]
    /\ UNCHANGED <<cookie, bus, identity, me, asking, events, transition,
                   legacy, bounds, trust, cleared>>

-----------------------------------------------------------------------------
(* auth/session.ts: what ending or replacing a session in this tab drops.  *)

(* Mutant: the paused writes survive. *)
ClearAllButWrites(t, users) ==
    /\ Announce(t, users)
    /\ queue' = [queue EXCEPT ![t] = {}]
    /\ queueOwner' = [queueOwner EXCEPT ![t] = Unknown]
    /\ flights' = [flights EXCEPT ![t] = NextGeneration(@)]
    /\ UNCHANGED writes
    /\ outbox' = FALSE /\ cleared' = TRUE

(* clearSession, with the announcement its caller makes next, if any. The   *)
(* deletion of the old database is not awaited and taken to succeed.        *)
ClearSession(t, users) ==
    /\ Announce(t, users)
    /\ queue' = [queue EXCEPT ![t] = {}]
    /\ queueOwner' = [queueOwner EXCEPT ![t] = Unknown]
    /\ flights' = [flights EXCEPT ![t] = NextGeneration(@)]
    /\ paused' = [paused EXCEPT ![t] = {}]
    /\ stranded' = [stranded EXCEPT ![t] = FALSE]
    /\ outbox' = FALSE /\ cleared' = TRUE

-----------------------------------------------------------------------------
(* auth/useLogout.ts.                                                      *)

(* The account menu, where somebody is shown, and bestEffortFinalFlush:     *)
(* once the mutations settled or ran out of time, it flushes.              *)
FinalFlush(t) ==
    /\ pc[t] = "idle" /\ Shown(t) \in Users /\ Cardinality(flights[t]) < MaxFlights
    /\ pc' = [pc EXCEPT ![t] = "flushing"]
    /\ Flush(t)
    /\ UNCHANGED <<cookie, bus, identity, me, asking, writes, arriving, legacy,
                   bounds, trust, cleared>>

(* POST /auth/logout, answered or not: its failure ends the tab's session  *)
(* too, and leaves the cookie.                                             *)
PostLogout(t) ==
    /\ pc[t] = "flushing"
    /\ pc' = [pc EXCEPT ![t] = "leaving"]
    /\ turns < MaxTurns /\ turns' = turns + 1
    /\ cookie' \in {cookie, Nobody}
    /\ UNCHANGED <<bus, identity, me, asking, events, writes, arriving, legacy,
                   work, trust, cleared, leaked>>

(* clearSession, then the query says nobody and the page is /login. *)
LeaveSession(t) ==
    /\ pc[t] = "leaving"
    /\ pc' = [pc EXCEPT ![t] = "idle"]
    /\ ClearSession(t, <<Nobody>>)
    /\ me' = [me EXCEPT ![t] = [data |-> Nobody, ok |-> TRUE]]
    /\ overtaken' = [overtaken EXCEPT ![t] = FALSE]
    /\ heard' = [heard EXCEPT ![t] = @ /\ localUser[t] = Nobody]
    /\ UNCHANGED <<cookie, asking, arriving, drain, left, delivered, bounds, leaked>>

-----------------------------------------------------------------------------
(* pages/Login.tsx.                                                        *)

(* POST /auth/login or /auth/register, from a tab that shows nobody; one   *)
(* tab at a time between the answer and clearSession.                      *)
PostLogin(t, user) ==
    /\ pc[t] = "idle" /\ Shown(t) = Nobody
    /\ \A u \in Tabs : pc[u] # "arriving"
    /\ turns < MaxTurns /\ turns' = turns + 1
    /\ cookie' = user
    /\ pc' = [pc EXCEPT ![t] = "arriving"]
    /\ arriving' = [arriving EXCEPT ![t] = user]
    /\ UNCHANGED <<bus, identity, me, asking, events, writes, legacy, work,
                   trust, cleared, leaked>>

(* handleAuthenticated: the session before, whoever's, is cleared; then the *)
(* query's data is the new account, which useMe announces.                  *)
EnterSession(t) ==
    /\ pc[t] = "arriving"
    /\ pc' = [pc EXCEPT ![t] = "idle"]
    /\ arriving' = [arriving EXCEPT ![t] = Nobody]
    /\ ClearSession(t, <<Nobody, arriving[t]>>)
    /\ me' = [me EXCEPT ![t] = [data |-> arriving[t], ok |-> TRUE]]
    /\ overtaken' = [overtaken EXCEPT ![t] = FALSE]
    /\ heard' = [heard EXCEPT ![t] = FALSE]
    /\ drain' = [drain EXCEPT ![t] = IF @ = "undecided" THEN "off" ELSE @]
    /\ UNCHANGED <<cookie, asking, left, delivered, bounds, leaked>>

(* The server drops the session (thirty days, a password reset): no tab    *)
(* hears of it before it asks.                                             *)
Expire ==
    /\ cookie \in Users /\ turns < MaxTurns
    /\ cookie' = Nobody /\ turns' = turns + 1
    /\ UNCHANGED <<bus, identity, me, asking, events, writes, transition,
                   legacy, work, trust, cleared, leaked>>

-----------------------------------------------------------------------------
(* db/legacyDrain.ts: batches in turn, each after the answer to the one    *)
(* before.                                                                 *)

StopDrain(t) ==
    /\ drain' = [drain EXCEPT ![t] = "off"]
    /\ left' = [left EXCEPT ![t] = 0]

(* The next batch, which the server takes for the account of the cookie,   *)
(* whoever wrote it.                                                       *)
SendBatch(t) ==
    /\ cookie \in Users /\ ~superseded[t]
    /\ delivered' = delivered \cup {b \in {left[t]} : cookie = LegacyOwner}
    /\ Leak("legacy", {LegacyOwner}, Blind(t))

(* Mutant: the database goes although the drain stopped. *)
DrainAndDrop(t) ==
    /\ drain[t] = "on" /\ left[t] > 0 /\ pc[t] # "arriving"
    /\ \/ /\ SendBatch(t)
          /\ left' = [left EXCEPT ![t] = @ - 1]
          /\ UNCHANGED <<drain, outbox>>
       \/ StopDrain(t) /\ outbox' = FALSE /\ UNCHANGED <<delivered, leaked>>
    /\ UNCHANGED <<cookie, bus, identity, me, asking, events, writes,
                   transition, bounds, trust, cleared>>

(* One turn of the loop: sent and taken; taken, but the answer is lost; or *)
(* the tab is superseded or the request fails. Without an answer the drain *)
(* ends with the database in place. The rows are in memory: nothing else   *)
(* ends the loop, a change of account in its own tab included.             *)
DrainBatch(t) ==
    /\ drain[t] = "on" /\ left[t] > 0 /\ pc[t] # "arriving"
    /\ \/ /\ SendBatch(t)
          /\ left' = [left EXCEPT ![t] = @ - 1]
          /\ UNCHANGED drain
       \/ SendBatch(t) /\ StopDrain(t)
       \/ StopDrain(t) /\ UNCHANGED <<delivered, leaked>>
    /\ UNCHANGED <<cookie, bus, identity, me, asking, events, writes,
                   transition, outbox, bounds, trust, cleared>>

FinishDrain(t) ==
    /\ drain[t] = "on" /\ left[t] = 0
    /\ StopDrain(t)
    /\ outbox' = FALSE
    /\ UNCHANGED <<cookie, bus, identity, me, asking, events, writes,
                   transition, delivered, bounds, trust, cleared, leaked>>

-----------------------------------------------------------------------------
Next ==
    \/ \E t \in Tabs :
          \/ Receive(t) \/ RequestMe(t) \/ AnswerMe(t) \/ FailMe(t) \/ Reload(t)
          \/ Beat(t) \/ FlushTick(t) \/ AnswerFlush(t)
          \/ Write(t) \/ Resume(t)
          \/ FinalFlush(t) \/ PostLogout(t) \/ LeaveSession(t)
          \/ \E user \in Users : PostLogin(t, user)
          \/ EnterSession(t)
          \/ DrainBatch(t) \/ FinishDrain(t)
    \/ Expire

Spec == Init /\ [][Next]_vars

(* Messages arrive, a sign-in or sign-out that has begun its last step ends *)
(* (nothing is awaited there), and the learner returns to each tab, so that *)
(* it asks again once it has been answered; MaxTurns bounds the failures.   *)
FairSpec ==
    /\ Spec
    /\ \A t \in Tabs :
          /\ WF_vars(Receive(t) \/ LeaveSession(t) \/ EnterSession(t))
          /\ WF_vars(RequestMe(t) \/ AnswerMe(t))

-----------------------------------------------------------------------------
(* Properties.                                                             *)

TypeOK ==
    /\ cookie \in Somebody
    /\ bus \in [Tabs -> Seq(Somebody)]
    /\ localUser \in [Tabs -> Somebody \cup {Unknown}]
    /\ superseded \in [Tabs -> BOOLEAN]
    /\ me \in [Tabs -> [data : Somebody \cup {Unknown}, ok : BOOLEAN]]
    /\ asking \in [Tabs -> Somebody \cup {Unknown}]
    /\ queue \in [Tabs -> SUBSET Users]
    /\ queueOwner \in [Tabs -> Somebody \cup {Unknown}]
    /\ flights \in [Tabs -> SUBSET [batch : SUBSET Users, fresh : BOOLEAN]]
    /\ paused \in [Tabs -> SUBSET Users] /\ stranded \in [Tabs -> BOOLEAN]
    /\ pc \in [Tabs -> {"idle", "flushing", "leaving", "arriving"}]
    /\ arriving \in [Tabs -> Somebody]
    /\ drain \in [Tabs -> {"undecided", "on", "off"}]
    /\ left \in [Tabs -> 0 .. Batches]
    /\ outbox \in BOOLEAN
    /\ turns \in 0 .. MaxTurns
    /\ overtaken \in [Tabs -> BOOLEAN] /\ heard \in [Tabs -> BOOLEAN]
    /\ delivered \subseteq 1 .. Batches
    /\ cleared \in BOOLEAN
    /\ leaked \subseteq {"events", "write", "legacy"}

(* No flush ever records one account's reading under another's cookie,     *)
(* whatever signed in, out or over in whichever tab (api/events.ts).       *)
EventsStayWithOwner == "events" \notin leaked

(* No write one account started, paused or not, leaves under the cookie of *)
(* an account that signed in on the same tab (auth/session.ts drops what is *)
(* paused) or that the tab can know of.                                    *)
WritesStayWithOwner == "write" \notin leaked

(* A tab that shows an account shows the cookie's, but for what it cannot  *)
(* know (useMe.ts: the mask of a superseded tab).                          *)
ShownIsCurrent ==
    \A t \in Tabs : Shown(t) \in Users /\ cookie \in Users /\ Shown(t) # cookie
                        => Blind(t)

(* The old outbox is deleted only once the server has every row of it for  *)
(* the account that wrote it, or when a session on this browser was ended  *)
(* or replaced on purpose, or is being replaced (db/legacyDrain.ts).       *)
OutboxNotLost ==
    \/ outbox \/ cleared \/ delivered = 1 .. Batches
    \/ \E t \in Tabs : pc[t] = "arriving"

(* db/legacyDrain.ts asks before every batch whether the session is still  *)
(* the one it drains for, for an outbox belongs to one account and sending *)
(* it to another is worse than not sending it: no batch leaves under       *)
(* another account's cookie, but for what the tab cannot know.             *)
LegacyStaysWithOwner == "legacy" \notin leaked

(* The exception useMe documents: the tab heard of a change, and then the  *)
(* cookie returned to the account it had known first-hand.                 *)
Sticky(t) == heard[t] /\ localUser[t] = cookie

(* Being superseded is not a lockout (useMe.ts): once the cookie stays a    *)
(* user's, every tab comes to show that user. MaxTurns bounds the changes   *)
(* of user, so the cookie settles on one.                                   *)
NotALockout ==
    <>[](cookie \in Users) =>
        \A t \in Tabs : <>[](Shown(t) = cookie \/ Sticky(t))

=============================================================================
