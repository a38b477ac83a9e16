----------------------------- MODULE CountedRows -----------------------------
(***************************************************************************)
(* Two tables that a request reads before it inserts. A vote on a course   *)
(* (Usecase.Rate, internal/rating) counts its user's votes, looks whether  *)
(* the course is among them when they are many, and puts the vote, in      *)
(* three statements and no transaction. A batch of study events            *)
(* (Repo.InsertEvents, internal/stats) is one transaction in which each    *)
(* event is inserted unless it is there, "there" being what the statement  *)
(* sees: the committed rows and its own.                                   *)
(*                                                                         *)
(* The tables have nothing to do with each other: RatingNext and           *)
(* EventNext are two machines. The cap is one user's, and so are the keys  *)
(* of the events: there is one user.                                       *)
(***************************************************************************)
EXTENDS Integers, Sequences, FiniteSets

CONSTANTS
    Rateable,           \* courses
    Stars,
    Voters,             \* requests to rate that may be open at one time
    MaxRatingsPerUser,
    NoVote,
    MaxRates,           \* bound: requests to rate in all
    Events,
    EventBatches,       \* sequences of events: what a client sends
    Deliveries,         \* batches that may be open at one time
    MaxSends,           \* bound: deliveries in all
    NoDelivery

ASSUME CountedAssumption ==
    /\ MaxRatingsPerUser \in Nat \ {0} /\ MaxRates \in Nat /\ MaxSends \in Nat
    /\ IsFiniteSet(Voters) /\ 0 \notin Stars
    /\ EventBatches \subseteq Seq(Events)

-----------------------------------------------------------------------------
(* Votes.                                                                  *)

VARIABLES
    votes,          \* course_ratings: stars, 0 for no row
    rating,         \* the place of each open request
    refusals,       \* requests refused: was the course rated when they came?
    rates           \* requests so far

ratingVars == <<votes, rating, refusals, rates>>

InitRatings ==
    /\ votes = [c \in Rateable |-> 0]
    /\ rating = [v \in Voters |-> NoVote]
    /\ refusals = {}
    /\ rates = 0

Rated == {c \in Rateable : votes[c] # 0}

(* Mutant: nobody is counted out. *)
AfterCountNever(n) == "put"

(* The course is looked up only at the cap. *)
AfterCount(n) == IF n >= MaxRatingsPerUser THEN "look" ELSE "put"

(* A valid request, up to the answer of CountForUser. *)
CountForUser(v) ==
    /\ rating[v] = NoVote /\ rates < MaxRates
    /\ \E c \in Rateable, s \in Stars :
          rating' = [rating EXCEPT ![v] =
              [course |-> c, stars |-> s, stage |-> AfterCount(Cardinality(Rated)),
               had |-> votes[c] # 0]]
    /\ rates' = rates + 1
    /\ UNCHANGED <<votes, refusals>>

Awaits(v, stage) == rating[v] # NoVote /\ rating[v].stage = stage

(* Mutant: at the cap nothing goes on, an edit neither. *)
LookRefuses(v) ==
    /\ Awaits(v, "look")
    /\ refusals' = refusals \cup {rating[v].had}
    /\ rating' = [rating EXCEPT ![v] = NoVote]
    /\ UNCHANGED <<votes, rates>>

(* Aggregates' "Mine" of the one course. *)
LookAtMine(v) ==
    /\ Awaits(v, "look")
    /\ IF votes[rating[v].course] = 0
       THEN /\ refusals' = refusals \cup {rating[v].had}
            /\ rating' = [rating EXCEPT ![v] = NoVote]
       ELSE /\ rating' = [rating EXCEPT ![v].stage = "put"]
            /\ UNCHANGED refusals
    /\ UNCHANGED <<votes, rates>>

PutVote(v) ==
    /\ Awaits(v, "put")
    /\ votes' = [votes EXCEPT ![rating[v].course] = rating[v].stars]
    /\ rating' = [rating EXCEPT ![v] = NoVote]
    /\ UNCHANGED <<refusals, rates>>

(* Any of the statements fails. *)
RateFails(v) ==
    /\ rating[v] # NoVote
    /\ rating' = [rating EXCEPT ![v] = NoVote]
    /\ UNCHANGED <<votes, refusals, rates>>

RatingNext ==
    \E v \in Voters : CountForUser(v) \/ LookAtMine(v) \/ PutVote(v) \/ RateFails(v)

RatingSpec == InitRatings /\ [][RatingNext]_ratingVars

(* The cap is exceeded only by requests that were under way together: by   *)
(* less than their number. And a vote that is there can always be changed  *)
(* (ErrTooManyRatings: "Editing an existing vote is always allowed").      *)
CapNearlyHolds ==
    /\ Cardinality(Rated) < MaxRatingsPerUser + Cardinality(Voters)
    /\ TRUE \notin refusals

-----------------------------------------------------------------------------
(* Events.                                                                 *)

VARIABLES
    stored,         \* how often each event is in the committed table
    deliveries,     \* each open transaction
    sends           \* deliveries so far

eventVars == <<stored, deliveries, sends>>

InitEvents ==
    /\ stored = [e \in Events |-> 0]
    /\ deliveries = [d \in Deliveries |-> NoDelivery]
    /\ sends = 0

Opened(d) == deliveries[d] # NoDelivery

(* A batch comes, for the first time or again. "alone" is for a property:  *)
(* no other delivery has been open since.                                  *)
EventsBatch(d) ==
    /\ ~Opened(d) /\ sends < MaxSends
    /\ LET others == {x \in Deliveries : Opened(x)}
       IN  \E b \in EventBatches :
               deliveries' = [x \in Deliveries |->
                   IF x = d THEN [events |-> b, next |-> 1, mine |-> {}, alone |-> others = {}]
                   ELSE IF x \in others THEN [deliveries[x] EXCEPT !.alone = FALSE]
                   ELSE NoDelivery]
    /\ sends' = sends + 1
    /\ UNCHANGED stored

(* Mutant: an event is looked for among the committed ones only by the     *)
(* first statement.                                                        *)
AddsAgain(d, e) == deliveries[d].next > 1 \/ stored[e] = 0

(* insertEventSQL's NOT EXISTS. *)
Adds(d, e) == stored[e] = 0 /\ e \notin deliveries[d].mine

InsertEvent(d) ==
    /\ Opened(d) /\ deliveries[d].next <= Len(deliveries[d].events)
    /\ LET e == deliveries[d].events[deliveries[d].next]
       IN  deliveries' = [deliveries EXCEPT ![d].next = @ + 1,
               ![d].mine = IF Adds(d, e) THEN @ \cup {e} ELSE @]
    /\ UNCHANGED <<stored, sends>>

Delivered(d) ==
    /\ Opened(d) /\ deliveries[d].next > Len(deliveries[d].events)
    /\ stored' = [e \in Events |-> stored[e] + IF e \in deliveries[d].mine THEN 1 ELSE 0]
    /\ deliveries' = [deliveries EXCEPT ![d] = NoDelivery]
    /\ UNCHANGED sends

(* An error, or a broken connection: the deferred Rollback. *)
Undelivered(d) ==
    /\ Opened(d)
    /\ deliveries' = [deliveries EXCEPT ![d] = NoDelivery]
    /\ UNCHANGED <<stored, sends>>

EventNext ==
    \E d \in Deliveries :
        EventsBatch(d) \/ InsertEvent(d) \/ Delivered(d) \/ Undelivered(d)

EventSpec == InitEvents /\ [][EventNext]_eventVars

(* A delivery that commits leaves all its events stored, though it skipped *)
(* those that it saw; and it stores one a second time only if another      *)
(* delivery was under way with it (insertEventSQL: the guard is against    *)
(* "a single client's serial retry-after-timeout").                        *)
StoredOnceUnlessTogether ==
    \A d \in Deliveries :
        Opened(d) /\ deliveries'[d] = NoDelivery /\ stored' # stored =>
            /\ \A i \in DOMAIN deliveries[d].events : stored'[deliveries[d].events[i]] > 0
            /\ deliveries[d].alone => \A e \in Events : stored'[e] <= 1 \/ stored'[e] = stored[e]

CountsHold ==
    /\ []CapNearlyHolds
    /\ [][StoredOnceUnlessTogether]_eventVars

=============================================================================
