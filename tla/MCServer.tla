------------------------------ MODULE MCServer ------------------------------
(***************************************************************************)
(* The parts of the server that share no state with each other, side by    *)
(* side: a behaviour picks one of them and is one of its behaviours, the   *)
(* others rest in an initial state. Charge has one initial state for each  *)
(* input.                                                                  *)
(***************************************************************************)
EXTENDS ChargeArithmetic, ChatAdmission, CourseCatalog, LearnerRows, CountedRows,
        DiscussionCache

VARIABLE part   \* the part that runs

-----------------------------------------------------------------------------
(* Counts and prices chosen so that products and sums fall on both sides   *)
(* of the largest integer.                                                 *)
MCTokens == {-1, 0, 1, 4, 9, 15}

MCUsages ==
    [hit : MCTokens, miss : MCTokens, out : MCTokens, searches : {0, 1, 16}]

Table(hit, miss, out, search) ==
    [hit |-> hit, miss |-> miss, out |-> out, search |-> search]

MCPrices ==
    {Table(0, 0, 0, 0), Table(1, 4, 7, 2), Table(4, 4, 4, 60),
     Table(15, 1, 0, 3), Table(1, -1, 1, 1)}

(* The first package ships a widget that the second one has dropped. *)
MCWidgets == [p \in Packages |-> IF p = "p1" THEN {"w", "u"} ELSE {"w"}]

(* A browser with a note that was edited after it was made, one that made  *)
(* and deleted the note and whose clock is ahead, and another learner's    *)
(* that has the note's id and a clock far ahead.                           *)
Queued(how, text, at) == [how |-> how, text |-> text, at |-> at]
MCBatches ==
    {[who |-> "u", items |-> <<Queued("mark", "a", 1), Queued("upsert", "a", 1),
                               Queued("upsert", "c", 2)>>],
     [who |-> "u", items |-> <<Queued("upsert", "d", 1), Queued("erase", "a", 2),
                               Queued("mark", "b", 3)>>],
     [who |-> "v", items |-> <<Queued("upsert", "b", 9)>>]}

MCEventBatches == {<<"e", "f">>, <<"f", "f">>}

-----------------------------------------------------------------------------
serverVars ==
    <<chargeVars, vars, catalogVars, learnerVars, ratingVars, eventVars, discussionVars, part>>

Unless(p, choice) == part # p => choice

ServerInit ==
    /\ part \in {"charge", "chat", "catalog", "learner", "ratings", "events", "discussion"}
    /\ InitCharge
    /\ Unless("charge", /\ usage = CHOOSE u \in Usages : TRUE
                        /\ costs = CHOOSE p \in Prices : TRUE
                        /\ prices = costs)
    /\ Init /\ Unless("chat", balance = 0)
    /\ InitCatalog /\ archive \in {<<>>, <<"p1">>} /\ Unless("catalog", live = NoCourse)
    /\ InitLearner /\ InitRatings /\ InitEvents /\ InitDiscussion

ServerRuns ==
    \/ part = "charge" /\ Evaluate
    \/ part = "chat" /\ Next
    \/ part = "catalog" /\ CatalogNext
    \/ part = "learner" /\ LearnerNext
    \/ part = "ratings" /\ RatingNext
    \/ part = "events" /\ EventNext
    \/ part = "discussion" /\ DiscussionNext

Rests(p, partVars) == IF part = p THEN TRUE ELSE UNCHANGED partVars

(* What rests is settled first, once for all the steps from a state. *)
ServerNext ==
    /\ Rests("charge", chargeVars) /\ Rests("chat", vars)
    /\ Rests("catalog", catalogVars) /\ Rests("learner", learnerVars)
    /\ Rests("ratings", ratingVars) /\ Rests("events", eventVars)
    /\ Rests("discussion", discussionVars)
    /\ UNCHANGED part
    /\ ServerRuns

ServerSpec == ServerInit /\ [][ServerNext]_serverVars

=============================================================================
