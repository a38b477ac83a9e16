--------------------------- MODULE DiscussionCache ---------------------------
(***************************************************************************)
(* The discussion of a course, as internal/discuss serves it: Thread asks  *)
(* the cache, then the budget, then GitHub, and stores what came, good or  *)
(* bad. The cache and the budget each have a mutex, and no lock is held    *)
(* from one to the next: readers who miss together all go on.              *)
(*                                                                         *)
(* Time is discrete. Cache and budget live in the memory of one process: a *)
(* restart begins anew. The feature is switched on. Of a thread only the   *)
(* time at which GitHub gave it matters.                                   *)
(***************************************************************************)
EXTENDS Integers, Sequences, FiniteSets

CONSTANTS
    Threads,                \* registry ids
    Visitors,               \* requests that may be open at one time
    MaxOutboundPerWindow, OutboundWindow,
    SuccessTTL, FailureTTL,
    RequestTimeout,
    Never, NoVisit,
    MaxClock                \* bound on the clock

ASSUME DiscussionAssumption ==
    /\ MaxOutboundPerWindow \in Nat \ {0} /\ OutboundWindow \in Nat \ {0}
    /\ SuccessTTL \in Nat /\ FailureTTL \in Nat /\ RequestTimeout \in Nat
    /\ MaxClock \in Nat
    /\ Never \notin Nat

VARIABLES
    clock,
    entries,        \* Cache.entries
    windowStart, used,      \* Budget
    visits,         \* the handler's place, for each open request
    calls,          \* the times at which calls left for GitHub
    failed,         \* when a fetch of the thread last failed
    heard           \* the last answer

discussionVars == <<clock, entries, windowStart, used, visits, calls, failed, heard>>

InitDiscussion ==
    /\ clock = 0
    /\ entries = [t \in Threads |-> Never]
    /\ windowStart = 0 /\ used = 0
    /\ visits = [v \in Visitors |-> NoVisit]
    /\ calls = <<>>
    /\ failed = [t \in Threads |-> Never]
    /\ heard = [reason |-> "none", of |-> Never, at |-> 0, cached |-> FALSE]

Says(t, reason, at, cached) ==
    heard' = [reason |-> reason, of |-> t, at |-> at, cached |-> cached]

-----------------------------------------------------------------------------
(* Cache.                                                                  *)

Live(t) == entries[t] # Never /\ clock < entries[t].expires

(* Mutant: failures and answers have each other's lifetime. *)
PutSwapped(t, ok, at) ==
    entries' = [entries EXCEPT ![t] =
        [ok |-> ok, at |-> at, expires |-> clock + (IF ok THEN FailureTTL ELSE SuccessTTL)]]

Put(t, ok, at) ==
    entries' = [entries EXCEPT ![t] =
        [ok |-> ok, at |-> at, expires |-> clock + (IF ok THEN SuccessTTL ELSE FailureTTL)]]

(* Get: a hit is the answer, a miss goes on to the budget. *)
Look(v) ==
    /\ visits[v] = NoVisit
    /\ \E t \in Threads :
          IF Live(t)
          THEN /\ Says(t, IF entries[t].ok THEN "ok" ELSE "unavailable", entries[t].at, TRUE)
               /\ UNCHANGED visits
          ELSE /\ visits' = [visits EXCEPT ![v] =
                                [thread |-> t, stage |-> "missed", since |-> clock, given |-> Never]]
               /\ UNCHANGED heard
    /\ UNCHANGED <<clock, entries, windowStart, used, calls, failed>>

-----------------------------------------------------------------------------
(* Budget.                                                                 *)

Rolls == clock - windowStart >= OutboundWindow

(* Take, and Fetch's call if it may leave. *)
Take(v) ==
    LET start == IF Rolls THEN clock ELSE windowStart
        spent == IF Rolls THEN 0 ELSE used
        t == visits[v].thread
    IN  /\ visits[v] # NoVisit /\ visits[v].stage = "missed"
        /\ windowStart' = start
        /\ IF spent >= MaxOutboundPerWindow
           THEN /\ used' = spent
                /\ Says(t, "rate_limited", clock, FALSE)
                /\ visits' = [visits EXCEPT ![v] = NoVisit]
                /\ UNCHANGED calls
           ELSE /\ used' = spent + 1
                /\ calls' = Append(calls, clock)
                /\ visits' = [visits EXCEPT ![v].stage = "asked", ![v].since = clock]
                /\ UNCHANGED heard
        /\ UNCHANGED <<clock, entries, failed>>

-----------------------------------------------------------------------------
(* GitHub, and what becomes of its answer.                                 *)

(* GitHub reads the discussion; its answer is still to come. *)
GitHubReads(v) ==
    /\ visits[v] # NoVisit /\ visits[v].stage = "asked" /\ visits[v].given = Never
    /\ visits' = [visits EXCEPT ![v].given = clock]
    /\ UNCHANGED <<clock, entries, windowStart, used, calls, failed, heard>>

Arrives(v, ok) ==
    LET t == visits[v].thread
        at == IF ok THEN visits[v].given ELSE clock
    IN  /\ visits[v] # NoVisit /\ visits[v].stage = "asked"
        /\ Put(t, ok, at)
        /\ Says(t, IF ok THEN "ok" ELSE "unavailable", at, FALSE)
        /\ visits' = [visits EXCEPT ![v] = NoVisit]
        /\ UNCHANGED <<clock, windowStart, used, calls>>

Fetched(v) == visits[v] # NoVisit /\ visits[v].given # Never /\ Arrives(v, TRUE) /\ UNCHANGED failed

(* An error, a body of the wrong shape, or the client's timeout. *)
FetchFailed(v) ==
    /\ Arrives(v, FALSE)
    /\ failed' = [failed EXCEPT ![visits[v].thread] = clock]

(* No call outlives the client's timeout. *)
TimePasses ==
    /\ clock < MaxClock
    /\ \A v \in Visitors : visits[v] # NoVisit /\ visits[v].stage = "asked" =>
                              clock < visits[v].since + RequestTimeout
    /\ clock' = clock + 1
    /\ UNCHANGED <<entries, windowStart, used, visits, calls, failed, heard>>

DiscussionNext ==
    \/ \E v \in Visitors :
          Look(v) \/ Take(v) \/ GitHubReads(v) \/ Fetched(v) \/ FetchFailed(v)
    \/ TimePasses

DiscussionSpec == InitDiscussion /\ [][DiscussionNext]_discussionVars

-----------------------------------------------------------------------------
(* Properties.                                                             *)

(* Any window's length sees at most two windows' rations of calls leave,   *)
(* however many readers miss together (Budget: "up to 2*max across a       *)
(* window boundary").                                                      *)
BillBounded ==
    \A i \in DOMAIN calls :
        i + 2 * MaxOutboundPerWindow \in DOMAIN calls =>
            calls[i + 2 * MaxOutboundPerWindow] - calls[i] >= OutboundWindow

(* Whoever is refused is refused because a whole ration has just left. *)
RefusedOnlyWhenSpent ==
    heard.reason = "rate_limited" =>
        Cardinality({i \in DOMAIN calls : /\ calls[i] <= heard.at
                                          /\ calls[i] > heard.at - OutboundWindow})
            >= MaxOutboundPerWindow

Answered == clock' = clock /\ heard' # heard /\ heard'.cached

(* A thread out of the cache is no older than its lifetime and the call    *)
(* that brought it, though a slower call may have stored it over a newer   *)
(* one; and "unavailable" out of the cache means that a call failed less   *)
(* than FailureTTL ago, though it may have been stored over a good answer. *)
CacheSpeaksFresh ==
    Answered =>
        IF heard'.reason = "ok" THEN clock - heard'.at < SuccessTTL + RequestTimeout
        ELSE failed[heard'.of] # Never /\ clock - failed[heard'.of] < FailureTTL

DiscussionHolds ==
    /\ [](BillBounded /\ RefusedOnlyWhenSpent)
    /\ [][CacheSpeaksFresh]_discussionVars

=============================================================================
