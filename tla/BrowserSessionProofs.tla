------------------------ MODULE BrowserSessionProofs ------------------------
(***************************************************************************)
(* The sessions of one browser, for any number of tabs, users and changes  *)
(* of user: Spec keeps EventsStayWithOwner, WritesStayWithOwner,           *)
(* ShownIsCurrent and OutboxNotLost. What carries the proof is Warned: a   *)
(* tab that still shows an account the cookie has left has either asked    *)
(* too early, or a sign-in is about to be announced, or the announcement   *)
(* lies in its channel.                                                    *)
(***************************************************************************)
EXTENDS BrowserSession, TLAPS

(* A tab's own idea of its account is what GET /me, or the learner, said. *)
Known(t) == me[t].data # Unknown => localUser[t] = me[t].data

(* Events queued, or in a flush that may still return, are the stamp's.   *)
Stamped(t) ==
    /\ queue[t] \subseteq {queueOwner[t]}
    /\ \A f \in flights[t] : f.fresh => f.batch \subseteq {queueOwner[t]}
    /\ me[t].data = Unknown => queue[t] = {} /\ flights[t] = {}

(* Writes wait for the account shown, or their account was replaced. *)
Waiting(t) ==
    (~stranded[t] /\ paused[t] # {}) => ~superseded[t] /\ paused[t] \subseteq {me[t].data}

Astray(t) ==
    /\ me[t].data \in Users /\ cookie \in Users /\ cookie # me[t].data
    /\ ~superseded[t] /\ ~overtaken[t]

Warned(t) ==
    Astray(t) => \/ \E u \in Tabs \ {t} : pc[u] = "arriving"
                 \/ \E i \in 1 .. Len(bus[t]) : bus[t][i] # me[t].data

TabInv(t) == Known(t) /\ Stamped(t) /\ Waiting(t) /\ Warned(t)

(* Who is signing in is who the cookie is for, unless it expired since. *)
Entering ==
    \A u \in Tabs : pc[u] = "arriving" => arriving[u] \in Users /\ cookie \in {arriving[u], Nobody}

(* A session of this browser was ended or replaced, or is being replaced. *)
Replaced == cleared \/ \E t \in Tabs : pc[t] = "arriving"

(* Till then the cookie is the outbox's owner's, or nobody's, and a drain  *)
(* has delivered what is no longer left to it.                             *)
Stored ==
    /\ OutboxNotLost
    /\ cookie \in Users \ {LegacyOwner} => Replaced
    /\ \A t \in Tabs :
          drain[t] = "on" => (left[t] + 1) .. Batches \subseteq delivered \/ Replaced

Unleaked == "events" \notin leaked /\ "write" \notin leaked

SessionInv ==
    /\ TypeOK
    /\ \A t \in Tabs : TabInv(t)
    /\ Entering /\ Stored /\ Unleaked

-----------------------------------------------------------------------------
(* Lemmas on what the steps are made of.                                   *)

LEMMA Names ==
    /\ Nobody \in Somebody /\ Nobody \notin Users /\ Unknown \notin Somebody
    /\ Users \subseteq Somebody /\ Nobody # Unknown
  BY SessionAssumption DEF Somebody

(* What Post does to the channels of the other tabs. *)
LEMMA Posted ==
    ASSUME TypeOK, NEW t \in Tabs, NEW said \in Seq(Somebody), Post(t, said)
    PROVE  /\ bus' \in [Tabs -> Seq(Somebody)] /\ bus'[t] = bus[t]
           /\ \A u \in Tabs \ {t} : bus'[u] = bus[u] \o said
           /\ \A u \in Tabs \ {t} : \A i \in 1 .. Len(bus[u]) :
                 i \in 1 .. Len(bus'[u]) /\ bus'[u][i] = bus[u][i]
<1>1. bus \in [Tabs -> Seq(Somebody)] /\ \A u \in Tabs : bus[u] \in Seq(Somebody)
  BY DEF TypeOK
<1>2. bus' = [u \in Tabs |-> IF u = t THEN bus[u] ELSE bus[u] \o said]
  BY DEF Post
<1>3. \A u \in Tabs : bus[u] \o said \in Seq(Somebody)
  BY <1>1
<1>4. bus'[t] = bus[t] /\ \A u \in Tabs \ {t} : bus'[u] = bus[u] \o said
  BY <1>2
<1>5. ASSUME NEW u \in Tabs \ {t}, NEW i \in 1 .. Len(bus[u])
      PROVE  i \in 1 .. Len(bus'[u]) /\ bus'[u][i] = bus[u][i]
  <2>1. bus[u] \in Seq(Somebody)
    BY <1>1
  <2>2. i \in 1 .. Len(bus[u] \o said) /\ (bus[u] \o said)[i] = bus[u][i]
    BY <2>1
  <2> QED BY <1>4, <2>2
<1> QED BY <1>1, <1>2, <1>3, <1>4, <1>5

(* What a tab announces of itself: one name, or nobody and then a user. *)
Announced(t, user) ==
    /\ localUser' \in [Tabs -> Somebody \cup {Unknown}]
    /\ localUser'[t] = user /\ \A u \in Tabs \ {t} : localUser'[u] = localUser[u]
    /\ superseded' \in [Tabs -> BOOLEAN]
    /\ \A u \in Tabs \ {t} : superseded'[u] = superseded[u]
    /\ bus' \in [Tabs -> Seq(Somebody)] /\ bus'[t] = bus[t]
    /\ \A u \in Tabs \ {t} : \A i \in 1 .. Len(bus[u]) :
          i \in 1 .. Len(bus'[u]) /\ bus'[u][i] = bus[u][i]

LEMMA AnnounceOne ==
    ASSUME TypeOK, NEW t \in Tabs, NEW user \in Somebody, Announce(t, <<user>>)
    PROVE  /\ Announced(t, user)
           /\ superseded'[t] <=> superseded[t] /\ user = localUser[t]
<1> DEFINE said == Said(t, <<user>>)
<1>1. /\ said \in Seq(Somebody)
      /\ said = << >> <=> user = localUser[t]
  <2>1. CASE user = localUser[t]
    <3>1. said = << >>
      BY <2>1 DEF Said
    <3> QED BY <2>1, <3>1
  <2>2. CASE user # localUser[t]
    <3>1. Head(<<user>>) = user
      OBVIOUS
    <3>2. said = <<user>>
      BY <2>2, <3>1 DEF Said
    <3>3. <<user>> # << >> /\ <<user>> \in Seq(Somebody)
      OBVIOUS
    <3> QED BY <2>2, <3>2, <3>3
  <2> QED BY <2>1, <2>2
<1>2. /\ localUser' = [localUser EXCEPT ![t] = user]
      /\ superseded' = [superseded EXCEPT ![t] = @ /\ said = << >>]
      /\ Post(t, said)
  BY DEF Announce
<1> HIDE DEF said
<1>3. /\ localUser \in [Tabs -> Somebody \cup {Unknown}]
      /\ superseded \in [Tabs -> BOOLEAN]
  BY DEF TypeOK
<1> QED BY <1>1, <1>2, <1>3, Posted DEF Announced

LEMMA AnnounceTwo ==
    ASSUME TypeOK, NEW t \in Tabs, NEW user \in Users, Announce(t, <<Nobody, user>>)
    PROVE  /\ Announced(t, user)
           /\ ~superseded'[t]
           /\ \A u \in Tabs \ {t} : \E i \in 1 .. Len(bus'[u]) : bus'[u][i] = user
<1> DEFINE said == Said(t, <<Nobody, user>>)
<1>1. said \in Seq(Somebody) /\ Len(said) \in Nat \ {0} /\ said[Len(said)] = user
  <2>1. CASE Nobody = localUser[t]
    <3>1. Tail(<<Nobody, user>>) = <<user>> /\ Head(<<Nobody, user>>) = Nobody
      OBVIOUS
    <3>2. said = <<user>>
      BY <2>1, <3>1 DEF Said
    <3> QED BY <3>2, Names
  <2>2. CASE Nobody # localUser[t]
    <3>1. Head(<<Nobody, user>>) = Nobody
      OBVIOUS
    <3>2. said = <<Nobody, user>>
      BY <2>2, <3>1 DEF Said
    <3>3. /\ Nobody \in Somebody /\ user \in Somebody
      BY Names
    <3>4. /\ <<Nobody, user>> \in Seq(Somebody) /\ Len(<<Nobody, user>>) = 2
          /\ <<Nobody, user>>[2] = user
      BY <3>3
    <3> HIDE DEF said
    <3> QED BY <3>2, <3>4
  <2> QED BY <2>1, <2>2
<1>2. /\ localUser' = [localUser EXCEPT ![t] = user]
      /\ superseded' = [superseded EXCEPT ![t] = @ /\ said = << >>]
      /\ Post(t, said)
  BY DEF Announce
<1> HIDE DEF said
<1>3. /\ localUser \in [Tabs -> Somebody \cup {Unknown}]
      /\ superseded \in [Tabs -> BOOLEAN] /\ \A u \in Tabs : bus[u] \in Seq(Somebody)
  BY DEF TypeOK
<1>4. said # << >>
  BY <1>1
<1>5. ASSUME NEW u \in Tabs \ {t}
      PROVE  \E i \in 1 .. Len(bus'[u]) : bus'[u][i] = user
  <2>1. bus'[u] = bus[u] \o said /\ bus[u] \in Seq(Somebody)
    BY <1>1, <1>2, <1>3, Posted
  <2>2. /\ Len(bus[u]) + Len(said) \in 1 .. Len(bus[u] \o said)
        /\ (bus[u] \o said)[Len(bus[u]) + Len(said)] = said[Len(said)]
    BY <1>1, <2>1
  <2> QED BY <1>1, <2>1, <2>2
<1> QED BY <1>1, <1>2, <1>3, <1>4, <1>5, Posted, Names DEF Announced

(* The flushes of a generation that is over do not return. *)
LEMMA Outdated ==
    ASSUME NEW fs \in SUBSET [batch : SUBSET Users, fresh : BOOLEAN]
    PROVE  /\ NextGeneration(fs) \in SUBSET [batch : SUBSET Users, fresh : BOOLEAN]
           /\ \A f \in NextGeneration(fs) : ~f.fresh
           /\ fs = {} => NextGeneration(fs) = {}
  BY DEF NextGeneration

(* A tab that shows a user shows its own, unless it has been superseded. *)
LEMMA ShownIsOwn ==
    ASSUME TypeOK, NEW t \in Tabs
    PROVE  /\ Shown(t) \in Users => /\ Shown(t) = me[t].data /\ ~superseded[t]
                                    /\ me[t].data # Unknown
           /\ Answer(t) \in Users => me[t].data \in Users /\ ~superseded[t]
  BY Names DEF Shown, Answer, TypeOK, Somebody

(* What leaves for the account shown, or its queue, leaves with its cookie *)
(* but for what the tab cannot know.                                       *)
LEMMA NoLeak ==
    ASSUME TypeOK, Unleaked, NEW t \in Tabs, Warned(t), ~superseded[t],
           me[t].data \in Users, NEW kind, NEW by, by \subseteq {me[t].data},
           NEW excuse, Blind(t) => excuse, Leak(kind, by, excuse)
    PROVE  leaked' = leaked
<1>1. CASE cookie \in Users /\ by \ {cookie} # {} /\ ~excuse
  <2>1. Astray(t)
    BY <1>1 DEF Astray, Blind
  <2>2. bus[t] = << >> /\ \A u \in Tabs \ {t} : pc[u] # "arriving"
    BY <1>1 DEF Blind, News
  <2>3. \A i \in 1 .. Len(bus[t]) : FALSE
    BY <2>2
  <2> QED BY <2>1, <2>2, <2>3 DEF Warned
<1>2. CASE ~(cookie \in Users /\ by \ {cookie} # {} /\ ~excuse)
  BY <1>2 DEF Leak
<1> QED BY <1>1, <1>2

-----------------------------------------------------------------------------
(* What a step leaves alone.                                               *)

Same(u) ==
    /\ me'[u] = me[u] /\ localUser'[u] = localUser[u] /\ superseded'[u] = superseded[u]
    /\ queue'[u] = queue[u] /\ queueOwner'[u] = queueOwner[u] /\ flights'[u] = flights[u]
    /\ paused'[u] = paused[u] /\ stranded'[u] = stranded[u]
    /\ overtaken'[u] = overtaken[u]

Heard(u) ==
    \A i \in 1 .. Len(bus[u]) : i \in 1 .. Len(bus'[u]) /\ bus'[u][i] = bus[u][i]

LEMMA FrameRest ==
    ASSUME NEW u \in Tabs, TabInv(u), Same(u)
    PROVE  Known(u)' /\ Stamped(u)' /\ Waiting(u)'
  BY DEF TabInv, Same, Known, Stamped, Waiting

LEMMA Frame ==
    ASSUME NEW u \in Tabs, TabInv(u), Same(u), Heard(u),
           cookie' \in Users => cookie' = cookie,
           \A v \in Tabs \ {u} : pc[v] = "arriving" => pc'[v] = "arriving"
    PROVE  TabInv(u)'
<1>1. Known(u)' /\ Stamped(u)' /\ Waiting(u)'
  BY FrameRest
<1>2. Warned(u)'
  <2> SUFFICES ASSUME Astray(u)'
               PROVE  \/ \E v \in Tabs \ {u} : pc'[v] = "arriving"
                      \/ \E i \in 1 .. Len(bus'[u]) : bus'[u][i] # me'[u].data
    BY DEF Warned
  <2>1. Astray(u) /\ me'[u] = me[u]
    BY DEF Astray, Same
  <2>2. \/ \E v \in Tabs \ {u} : pc[v] = "arriving"
        \/ \E i \in 1 .. Len(bus[u]) : bus[u][i] # me[u].data
    BY <2>1 DEF TabInv, Warned
  <2> QED BY <2>1, <2>2 DEF Heard
<1> QED BY <1>1, <1>2 DEF TabInv

(* The outbox through a step that neither ends nor replaces a session and  *)
(* sends nothing of it.                                                    *)
LEMMA StoredFrame ==
    ASSUME SessionInv, cookie' \in Users => cookie' = cookie, cleared' = cleared,
           outbox' = outbox, delivered' = delivered,
           \A u \in Tabs : pc[u] = "arriving" => pc'[u] = "arriving",
           \A u \in Tabs : drain'[u] = "on" =>
              (drain[u] = "on" /\ left'[u] = left[u]) \/ left'[u] = Batches
    PROVE  Stored'
<1>1. Replaced => Replaced'
  BY DEF Replaced
<1>2. OutboxNotLost'
  BY DEF SessionInv, Stored, OutboxNotLost
<1>3. cookie' \in Users \ {LegacyOwner} => Replaced'
  BY <1>1 DEF SessionInv, Stored
<1>4. ASSUME NEW u \in Tabs, drain'[u] = "on"
      PROVE  (left'[u] + 1) .. Batches \subseteq delivered \/ Replaced'
  <2>1. (Batches + 1) .. Batches = {}
    BY SessionAssumption
  <2>2. CASE drain[u] = "on" /\ left'[u] = left[u]
    BY <1>1, <2>2 DEF SessionInv, Stored
  <2> QED BY <1>4, <2>1, <2>2
<1> QED BY <1>2, <1>3, <1>4 DEF Stored

(* What ends or replaces a session answers for the outbox. *)
LEMMA StoredOnceReplaced ==
    ASSUME Replaced' PROVE Stored'
  BY DEF Replaced, Stored, OutboxNotLost

-----------------------------------------------------------------------------
LEMMA InitSession == Init => SessionInv
<1> SUFFICES ASSUME Init PROVE SessionInv
  OBVIOUS
<1>1. LegacyOwner \in Users /\ Batches \in Nat /\ MaxTurns \in Nat
  BY SessionAssumption
<1>2. TypeOK
  <2>1. << >> \in Seq(Somebody) /\ cookie \in Somebody
    BY <1>1, Names DEF Init
  <2>2. [data |-> Unknown, ok |-> TRUE] \in [data : Somebody \cup {Unknown}, ok : BOOLEAN]
    OBVIOUS
  <2>3. /\ bus \in [Tabs -> Seq(Somebody)]
        /\ me \in [Tabs -> [data : Somebody \cup {Unknown}, ok : BOOLEAN]]
    BY <2>1, <2>2 DEF Init
  <2>4. /\ localUser \in [Tabs -> Somebody \cup {Unknown}]
        /\ asking \in [Tabs -> Somebody \cup {Unknown}]
        /\ queueOwner \in [Tabs -> Somebody \cup {Unknown}]
        /\ superseded \in [Tabs -> BOOLEAN] /\ stranded \in [Tabs -> BOOLEAN]
        /\ overtaken \in [Tabs -> BOOLEAN] /\ heard \in [Tabs -> BOOLEAN]
    BY DEF Init
  <2>5. /\ queue \in [Tabs -> SUBSET Users] /\ paused \in [Tabs -> SUBSET Users]
        /\ flights \in [Tabs -> SUBSET [batch : SUBSET Users, fresh : BOOLEAN]]
    BY DEF Init
  <2>6. /\ pc \in [Tabs -> {"idle", "flushing", "leaving", "arriving"}]
        /\ arriving \in [Tabs -> Somebody]
        /\ drain \in [Tabs -> {"undecided", "on", "off"}]
        /\ left \in [Tabs -> 0 .. Batches] /\ turns \in 0 .. MaxTurns
    BY <1>1, Names DEF Init
  <2>7. /\ outbox \in BOOLEAN /\ cleared \in BOOLEAN /\ delivered \subseteq 1 .. Batches
        /\ leaked \subseteq {"events", "write", "legacy"}
    BY DEF Init
  <2> QED BY <2>1, <2>3, <2>4, <2>5, <2>6, <2>7 DEF TypeOK
<1>3. ASSUME NEW t \in Tabs PROVE TabInv(t)
  <2>1. /\ me[t].data = Unknown /\ queue[t] = {} /\ flights[t] = {} /\ paused[t] = {}
    BY DEF Init
  <2> QED BY <2>1, SessionAssumption
          DEF TabInv, Known, Stamped, Waiting, Warned, Astray
<1>4. Entering /\ Stored /\ Unleaked
  BY DEF Init, Entering, Stored, OutboxNotLost, Unleaked
<1> QED BY <1>2, <1>3, <1>4 DEF SessionInv

-----------------------------------------------------------------------------
(* Hearsay.                                                                *)
LEMMA ReceiveKeeps == ASSUME SessionInv, NEW t \in Tabs, Receive(t) PROVE SessionInv'
<1> DEFINE user == Head(bus[t])
           changed == localUser[t] \notin {Unknown, user}
<1>1. /\ bus[t] # << >> /\ bus' = [bus EXCEPT ![t] = Tail(@)]
      /\ localUser' = [localUser EXCEPT ![t] = IF @ = Unknown THEN user ELSE @]
      /\ superseded' = [superseded EXCEPT ![t] = @ \/ changed]
      /\ heard' = [heard EXCEPT ![t] = @ \/ changed]
      /\ stranded' = [stranded EXCEPT ![t] = @ \/ (changed /\ paused[t] # {})]
      /\ drain' = [drain EXCEPT ![t] = IF changed /\ @ = "undecided" THEN "off" ELSE @]
  BY DEF Receive
<1>2. /\ cookie' = cookie /\ me' = me /\ asking' = asking /\ queue' = queue
      /\ queueOwner' = queueOwner /\ flights' = flights /\ paused' = paused
      /\ pc' = pc /\ arriving' = arriving /\ left' = left /\ outbox' = outbox
      /\ delivered' = delivered /\ work' = work /\ turns' = turns
      /\ overtaken' = overtaken /\ cleared' = cleared /\ leaked' = leaked
  BY DEF Receive, events, transition, bounds
<1>3. TypeOK /\ TabInv(t)
  BY DEF SessionInv
<1>4. /\ bus[t] \in Seq(Somebody) /\ user \in Somebody /\ Tail(bus[t]) \in Seq(Somebody)
      /\ Len(Tail(bus[t])) = Len(bus[t]) - 1 /\ Len(bus[t]) \in Nat \ {0}
      /\ bus[t][1] = user
      /\ \A i \in 1 .. Len(bus[t]) - 1 : Tail(bus[t])[i] = bus[t][i + 1]
  <2>1. bus[t] \in Seq(Somebody) /\ bus[t] # << >>
    BY <1>1, <1>3 DEF TypeOK
  <2> QED BY <2>1
<1> HIDE DEF user, changed
<1>5. TypeOK'
  <2>1. bus' \in [Tabs -> Seq(Somebody)]
    BY <1>1, <1>3, <1>4 DEF TypeOK
  <2>2. localUser' \in [Tabs -> Somebody \cup {Unknown}]
    BY <1>1, <1>3, <1>4 DEF TypeOK
  <2>3. changed \in BOOLEAN /\ (paused[t] # {}) \in BOOLEAN
    BY DEF changed
  <2>4. superseded' \in [Tabs -> BOOLEAN] /\ heard' \in [Tabs -> BOOLEAN]
    BY <1>1, <1>3, <2>3 DEF TypeOK
  <2>5. stranded' \in [Tabs -> BOOLEAN]
    BY <1>1, <1>3, <2>3 DEF TypeOK
  <2>6. drain' \in [Tabs -> {"undecided", "on", "off"}]
    BY <1>1, <1>3 DEF TypeOK
  <2> QED BY <1>2, <1>3, <2>1, <2>2, <2>4, <2>5, <2>6 DEF TypeOK
<1>6. ASSUME NEW u \in Tabs \ {t} PROVE TabInv(u)'
  <2>1. Same(u)
    BY <1>1, <1>2, <1>3 DEF Same, TypeOK
  <2>2. bus'[u] = bus[u]
    BY <1>1, <1>3 DEF TypeOK
  <2> QED BY <1>2, <2>1, <2>2, Frame DEF SessionInv, Heard
<1>7. /\ localUser'[t] = IF localUser[t] = Unknown THEN user ELSE localUser[t]
      /\ superseded'[t] = (superseded[t] \/ changed)
      /\ stranded'[t] = (stranded[t] \/ (changed /\ paused[t] # {}))
      /\ bus'[t] = Tail(bus[t])
  BY <1>1, <1>3 DEF TypeOK
<1>8. TabInv(t)'
  <2>1. Known(t)'
    BY <1>2, <1>3, <1>7 DEF TabInv, Known
  <2>2. Stamped(t)'
    BY <1>2, <1>3 DEF TabInv, Stamped
  <2>3. Waiting(t)'
    BY <1>2, <1>3, <1>7 DEF TabInv, Waiting
  <2>4. Warned(t)'
    <3> SUFFICES ASSUME Astray(t)'
                 PROVE  \/ \E v \in Tabs \ {t} : pc[v] = "arriving"
                        \/ \E i \in 1 .. Len(bus'[t]) : bus'[t][i] # me[t].data
      BY <1>2 DEF Warned
    <3>1. /\ Astray(t) /\ ~changed
      BY <1>2, <1>7 DEF Astray
    <3>2. user = me[t].data
      BY <1>3, <3>1, Names DEF TabInv, Known, Astray, changed
    <3>3. CASE \E v \in Tabs \ {t} : pc[v] = "arriving"
      BY <3>3
    <3>4. CASE \E i \in 1 .. Len(bus[t]) : bus[t][i] # me[t].data
      <4> PICK i \in 1 .. Len(bus[t]) : bus[t][i] # me[t].data
        BY <3>4
      <4>1. i # 1
        BY <1>4, <3>2
      <4>2. i - 1 \in 1 .. Len(bus[t]) - 1 /\ (i - 1) + 1 = i
        BY <1>4, <4>1
      <4>3. Tail(bus[t])[i - 1] = bus[t][i] /\ i - 1 \in 1 .. Len(Tail(bus[t]))
        BY <1>4, <4>2
      <4> QED BY <1>7, <4>3
    <3> QED BY <1>3, <3>1, <3>3, <3>4 DEF TabInv, Warned
  <2> QED BY <2>1, <2>2, <2>3, <2>4 DEF TabInv
<1>9. Entering' /\ Unleaked'
  BY <1>2 DEF SessionInv, Entering, Unleaked
<1>10. Stored'
  <2>1. \A u \in Tabs : drain'[u] = "on" => drain[u] = "on"
    BY <1>1, <1>3 DEF TypeOK
  <2> QED BY <1>2, <2>1, StoredFrame
<1> QED BY <1>5, <1>6, <1>8, <1>9, <1>10 DEF SessionInv

-----------------------------------------------------------------------------
(* GET /me.                                                                *)

LEMMA RequestMeKeeps == ASSUME SessionInv, NEW t \in Tabs, RequestMe(t) PROVE SessionInv'
<1>1. /\ cookie' = cookie /\ bus' = bus /\ localUser' = localUser
      /\ superseded' = superseded /\ me' = me /\ queue' = queue
      /\ queueOwner' = queueOwner /\ flights' = flights /\ paused' = paused
      /\ stranded' = stranded /\ pc' = pc /\ arriving' = arriving /\ drain' = drain
      /\ left' = left /\ outbox' = outbox /\ delivered' = delivered /\ work' = work
      /\ turns' = turns /\ heard' = heard /\ overtaken' = overtaken
      /\ cleared' = cleared /\ leaked' = leaked
      /\ asking' = [asking EXCEPT ![t] = cookie]
  BY DEF RequestMe, identity, events, writes, transition, legacy, bounds, trust
<1>2. TypeOK'
  <2>1. asking' \in [Tabs -> Somebody \cup {Unknown}]
    BY <1>1 DEF SessionInv, TypeOK
  <2> QED BY <1>1, <2>1 DEF SessionInv, TypeOK
<1>3. ASSUME NEW u \in Tabs PROVE TabInv(u)'
  BY <1>1, Frame DEF SessionInv, Same, Heard
<1> QED BY <1>1, <1>2, <1>3, StoredFrame
        DEF SessionInv, Entering, Unleaked

LEMMA AnswerMeKeeps == ASSUME SessionInv, NEW t \in Tabs, AnswerMe(t) PROVE SessionInv'
<1> DEFINE user == asking[t]
<1>1. /\ user # Unknown /\ asking' = [asking EXCEPT ![t] = Unknown]
      /\ me' = [me EXCEPT ![t] = [data |-> user, ok |-> TRUE]]
      /\ Announce(t, <<user>>)
      /\ Decide(t, IF superseded'[t] THEN Nobody ELSE user)
      /\ stranded' = [stranded EXCEPT
            ![t] = @ \/ (user # localUser[t] /\ paused[t] # {})]
      /\ heard' = [heard EXCEPT ![t] = @ /\ user = localUser[t]]
      /\ overtaken' = [overtaken EXCEPT ![t] = user # cookie]
  BY DEF AnswerMe
<1>2. /\ cookie' = cookie /\ queue' = queue /\ queueOwner' = queueOwner
      /\ flights' = flights /\ paused' = paused /\ pc' = pc /\ arriving' = arriving
      /\ outbox' = outbox /\ delivered' = delivered /\ work' = work /\ turns' = turns
      /\ cleared' = cleared /\ leaked' = leaked
  BY DEF AnswerMe, events, transition, bounds
<1>3. TypeOK /\ TabInv(t) /\ user \in Somebody
  BY <1>1 DEF SessionInv, TypeOK
<1>4. Announced(t, user) /\ (superseded'[t] <=> superseded[t] /\ user = localUser[t])
  BY <1>1, <1>3, AnnounceOne
<1> HIDE DEF user
<1>5. \E begins \in BOOLEAN :
          /\ left' = [left EXCEPT ![t] = IF begins THEN Batches ELSE @]
          /\ drain' = [drain EXCEPT ![t] = IF begins THEN "on"
                                           ELSE IF @ = "undecided" THEN "off" ELSE @]
  BY <1>1 DEF Decide
<1>6. TypeOK'
  <2>1. asking' \in [Tabs -> Somebody \cup {Unknown}]
    BY <1>1, <1>3 DEF TypeOK
  <2>2. [data |-> user, ok |-> TRUE] \in [data : Somebody \cup {Unknown}, ok : BOOLEAN]
    BY <1>3
  <2>3. me' \in [Tabs -> [data : Somebody \cup {Unknown}, ok : BOOLEAN]]
    BY <1>1, <1>3, <2>2 DEF TypeOK
  <2>4. /\ (user # localUser[t] /\ paused[t] # {}) \in BOOLEAN
        /\ (user # cookie) \in BOOLEAN /\ (user = localUser[t]) \in BOOLEAN
    OBVIOUS
  <2>5. stranded' \in [Tabs -> BOOLEAN] /\ overtaken' \in [Tabs -> BOOLEAN]
    BY <1>1, <1>3, <2>4 DEF TypeOK
  <2>6. heard' \in [Tabs -> BOOLEAN]
    BY <1>1, <1>3, <2>4 DEF TypeOK
  <2>7. /\ left' \in [Tabs -> 0 .. Batches]
        /\ drain' \in [Tabs -> {"undecided", "on", "off"}]
    BY <1>3, <1>5, SessionAssumption DEF TypeOK
  <2>8. /\ localUser' \in [Tabs -> Somebody \cup {Unknown}]
        /\ superseded' \in [Tabs -> BOOLEAN] /\ bus' \in [Tabs -> Seq(Somebody)]
    BY <1>4 DEF Announced
  <2> QED BY <1>2, <1>3, <2>1, <2>3, <2>5, <2>6, <2>7, <2>8 DEF TypeOK
<1>7. ASSUME NEW u \in Tabs \ {t} PROVE TabInv(u)'
  <2>1. Same(u)
    BY <1>1, <1>2, <1>3, <1>4 DEF Same, TypeOK, Announced
  <2>2. Heard(u)
    BY <1>4 DEF Heard, Announced
  <2> QED BY <1>2, <2>1, <2>2, Frame DEF SessionInv
<1>8. /\ me'[t] = [data |-> user, ok |-> TRUE] /\ me'[t].data = user
      /\ stranded'[t] = (stranded[t] \/ (user # localUser[t] /\ paused[t] # {}))
      /\ overtaken'[t] = (user # cookie) /\ localUser'[t] = user
  BY <1>1, <1>3, <1>4 DEF TypeOK, Announced
<1>9. TabInv(t)'
  <2>1. Known(t)' /\ Stamped(t)'
    BY <1>1, <1>2, <1>3, <1>8 DEF TabInv, Known, Stamped
  <2>2. Waiting(t)'
    <3> SUFFICES ASSUME ~stranded'[t], paused[t] # {}
                 PROVE  ~superseded'[t] /\ paused[t] \subseteq {user}
      BY <1>2, <1>8 DEF Waiting
    <3>1. user = localUser[t] /\ ~stranded[t]
      BY <1>8
    <3>2. ~superseded[t] /\ paused[t] \subseteq {me[t].data} /\ paused[t] \subseteq Users
      BY <1>3, <3>1 DEF TabInv, Waiting, TypeOK
    <3>3. me[t].data \in Users
      BY <3>2
    <3>4. me[t].data = user
      BY <1>3, <3>1, <3>3, SessionAssumption DEF TabInv, Known
    <3> QED BY <1>4, <3>2, <3>4
  <2>3. Warned(t)'
    BY <1>2, <1>8 DEF Warned, Astray
  <2> QED BY <2>1, <2>2, <2>3 DEF TabInv
<1>10. Entering' /\ Unleaked'
  BY <1>2 DEF SessionInv, Entering, Unleaked
<1>11. Stored'
  <2>1. \A u \in Tabs : drain'[u] = "on" =>
           (drain[u] = "on" /\ left'[u] = left[u]) \/ left'[u] = Batches
    BY <1>3, <1>5 DEF TypeOK
  <2> QED BY <1>2, <2>1, StoredFrame
<1> QED BY <1>6, <1>7, <1>9, <1>10, <1>11 DEF SessionInv

LEMMA FailMeKeeps == ASSUME SessionInv, NEW t \in Tabs, FailMe(t) PROVE SessionInv'
<1>1. /\ cookie' = cookie /\ bus' = bus /\ localUser' = localUser
      /\ superseded' = superseded /\ queue' = queue
      /\ queueOwner' = queueOwner /\ flights' = flights /\ paused' = paused
      /\ stranded' = stranded /\ pc' = pc /\ arriving' = arriving /\ drain' = drain
      /\ left' = left /\ outbox' = outbox /\ delivered' = delivered /\ work' = work
      /\ heard' = heard /\ overtaken' = overtaken /\ cleared' = cleared
      /\ leaked' = leaked /\ turns' = turns + 1 /\ turns < MaxTurns
      /\ asking' = [asking EXCEPT ![t] = Unknown]
      /\ me' = [me EXCEPT ![t].ok = @ /\ me[t].data = Unknown]
  BY DEF FailMe, identity, events, writes, transition, legacy, trust
<1>2. TypeOK /\ \A u \in Tabs : me[u] \in [data : Somebody \cup {Unknown}, ok : BOOLEAN]
  BY DEF SessionInv, TypeOK
<1>3. me'[t] = [me[t] EXCEPT !.ok = me[t].ok /\ me[t].data = Unknown]
  BY <1>1, <1>2 DEF TypeOK
<1>4. /\ me'[t] \in [data : Somebody \cup {Unknown}, ok : BOOLEAN]
      /\ me'[t].data = me[t].data
  <2>1. (me[t].ok /\ me[t].data = Unknown) \in BOOLEAN
    OBVIOUS
  <2> QED BY <1>2, <1>3, <2>1
<1>5. \A u \in Tabs \ {t} : me'[u] = me[u]
  BY <1>1, <1>2 DEF TypeOK
<1>6. TypeOK'
  <2>1. asking' \in [Tabs -> Somebody \cup {Unknown}]
    BY <1>1, <1>2 DEF TypeOK
  <2>2. me' = [u \in Tabs |-> me'[u]]
    BY <1>1, <1>2 DEF TypeOK
  <2>3. me' \in [Tabs -> [data : Somebody \cup {Unknown}, ok : BOOLEAN]]
    BY <1>2, <1>4, <1>5, <2>2
  <2>4. turns' \in 0 .. MaxTurns
    BY <1>1, <1>2, SessionAssumption DEF TypeOK
  <2> QED BY <1>1, <1>2, <2>1, <2>3, <2>4 DEF TypeOK
<1>7. ASSUME NEW u \in Tabs PROVE TabInv(u)'
  <2>1. me'[u].data = me[u].data
    BY <1>4, <1>5
  <2>2. TabInv(u)
    BY DEF SessionInv
  <2> QED BY <1>1, <2>1, <2>2 DEF TabInv, Known, Stamped, Waiting, Warned, Astray
<1> QED BY <1>1, <1>6, <1>7, StoredFrame
        DEF SessionInv, Entering, Unleaked

LEMMA ReloadKeeps == ASSUME SessionInv, NEW t \in Tabs, Reload(t) PROVE SessionInv'
<1>1. /\ turns < MaxTurns /\ pc[t] = "idle" /\ turns' = turns + 1
      /\ bus' = [bus EXCEPT ![t] = << >>]
      /\ localUser' = [localUser EXCEPT ![t] = Unknown]
      /\ superseded' = [superseded EXCEPT ![t] = FALSE]
      /\ me' = [me EXCEPT ![t] = [data |-> Unknown, ok |-> TRUE]]
      /\ asking' = [asking EXCEPT ![t] = Unknown]
      /\ queue' = [queue EXCEPT ![t] = {}]
      /\ queueOwner' = [queueOwner EXCEPT ![t] = Unknown]
      /\ flights' = [flights EXCEPT ![t] = {}]
      /\ paused' = [paused EXCEPT ![t] = {}]
      /\ stranded' = [stranded EXCEPT ![t] = FALSE]
      /\ drain' = [drain EXCEPT ![t] = "undecided"]
      /\ left' = [left EXCEPT ![t] = 0]
      /\ overtaken' = [overtaken EXCEPT ![t] = FALSE]
      /\ heard' = [heard EXCEPT ![t] = FALSE]
      /\ cookie' = cookie /\ pc' = pc /\ arriving' = arriving /\ outbox' = outbox
      /\ delivered' = delivered /\ work' = work /\ cleared' = cleared /\ leaked' = leaked
  BY DEF Reload, transition
<1>2. TypeOK
  BY DEF SessionInv
<1>3. TypeOK'
  <2>1. /\ [data |-> Unknown, ok |-> TRUE] \in [data : Somebody \cup {Unknown}, ok : BOOLEAN]
        /\ << >> \in Seq(Somebody)
    OBVIOUS
  <2>2. /\ bus' \in [Tabs -> Seq(Somebody)]
        /\ me' \in [Tabs -> [data : Somebody \cup {Unknown}, ok : BOOLEAN]]
    BY <1>1, <1>2, <2>1 DEF TypeOK
  <2>3. /\ localUser' \in [Tabs -> Somebody \cup {Unknown}]
        /\ asking' \in [Tabs -> Somebody \cup {Unknown}]
        /\ queueOwner' \in [Tabs -> Somebody \cup {Unknown}]
        /\ superseded' \in [Tabs -> BOOLEAN] /\ stranded' \in [Tabs -> BOOLEAN]
        /\ overtaken' \in [Tabs -> BOOLEAN] /\ heard' \in [Tabs -> BOOLEAN]
    BY <1>1, <1>2 DEF TypeOK
  <2>4. /\ queue' \in [Tabs -> SUBSET Users] /\ paused' \in [Tabs -> SUBSET Users]
        /\ flights' \in [Tabs -> SUBSET [batch : SUBSET Users, fresh : BOOLEAN]]
    BY <1>1, <1>2 DEF TypeOK
  <2>5. /\ drain' \in [Tabs -> {"undecided", "on", "off"}]
        /\ left' \in [Tabs -> 0 .. Batches] /\ turns' \in 0 .. MaxTurns
    BY <1>1, <1>2, SessionAssumption DEF TypeOK
  <2> QED BY <1>1, <1>2, <2>2, <2>3, <2>4, <2>5 DEF TypeOK
<1>4. ASSUME NEW u \in Tabs \ {t} PROVE TabInv(u)'
  <2>1. Same(u) /\ bus'[u] = bus[u]
    BY <1>1, <1>2 DEF Same, TypeOK
  <2> QED BY <1>1, <2>1, Frame DEF SessionInv, Heard
<1>5. TabInv(t)'
  <2>1. /\ me'[t].data = Unknown /\ queue'[t] = {} /\ flights'[t] = {} /\ paused'[t] = {}
    BY <1>1, <1>2 DEF TypeOK
  <2> QED BY <2>1, SessionAssumption
          DEF TabInv, Known, Stamped, Waiting, Warned, Astray
<1>6. Stored'
  <2>1. \A u \in Tabs : drain'[u] = "on" => drain[u] = "on" /\ left'[u] = left[u]
    BY <1>1, <1>2 DEF TypeOK
  <2> QED BY <1>1, <2>1, StoredFrame
<1> QED BY <1>1, <1>3, <1>4, <1>5, <1>6
        DEF SessionInv, Entering, Unleaked

-----------------------------------------------------------------------------
(* Events.                                                                 *)

FlightSet == [batch : SUBSET Users, fresh : BOOLEAN]

LEMMA BeatKeeps == ASSUME SessionInv, NEW t \in Tabs, Beat(t) PROVE SessionInv'
<1> DEFINE handedOver == queueOwner[t] # localUser[t]
           left2 == IF handedOver THEN {} ELSE queue[t]
           out == IF handedOver THEN NextGeneration(flights[t]) ELSE flights[t]
<1>1. /\ Shown(t) \in Users
      /\ queue' = [queue EXCEPT ![t] = left2 \cup {Shown(t)}]
      /\ queueOwner' = [queueOwner EXCEPT ![t] = localUser[t]]
      /\ flights' = [flights EXCEPT ![t] = out]
  <2>1. queue' = [queue EXCEPT ![t] = (IF handedOver THEN {} ELSE @) \cup {Shown(t)}]
    BY DEF Beat
  <2>2. flights' = [flights EXCEPT ![t] = IF handedOver THEN NextGeneration(@) ELSE @]
    BY DEF Beat
  <2> QED BY <2>1, <2>2 DEF Beat
<1>2. /\ cookie' = cookie /\ bus' = bus /\ localUser' = localUser
      /\ superseded' = superseded /\ me' = me /\ asking' = asking /\ paused' = paused
      /\ stranded' = stranded /\ pc' = pc /\ arriving' = arriving /\ drain' = drain
      /\ left' = left /\ outbox' = outbox /\ delivered' = delivered /\ work' = work
      /\ turns' = turns /\ heard' = heard /\ overtaken' = overtaken
      /\ cleared' = cleared /\ leaked' = leaked
  BY DEF Beat, identity, writes, transition, legacy, bounds, trust
<1>3. TypeOK /\ TabInv(t)
  BY DEF SessionInv
<1>4. /\ flights[t] \in SUBSET FlightSet /\ queue[t] \in SUBSET Users
      /\ Shown(t) = me[t].data /\ me[t].data # Unknown /\ localUser[t] = me[t].data
  BY <1>1, <1>3, ShownIsOwn DEF TypeOK, TabInv, Known, FlightSet
<1>5. /\ out \in SUBSET FlightSet
      /\ \A f \in out : f.fresh => ~handedOver /\ f \in flights[t]
      /\ left2 \in SUBSET Users /\ left2 \subseteq {localUser[t]}
  <2>1. CASE handedOver
    BY <1>4, <2>1, Outdated DEF FlightSet
  <2>2. CASE ~handedOver
    BY <1>3, <1>4, <2>2 DEF TabInv, Stamped
  <2> QED BY <2>1, <2>2
<1> HIDE DEF out, left2
<1>6. TypeOK'
  <2>1. queue' \in [Tabs -> SUBSET Users]
    BY <1>1, <1>3, <1>5 DEF TypeOK
  <2>2. flights' \in [Tabs -> SUBSET FlightSet]
    BY <1>1, <1>3, <1>5 DEF TypeOK, FlightSet
  <2>3. queueOwner' \in [Tabs -> Somebody \cup {Unknown}]
    BY <1>1, <1>3 DEF TypeOK
  <2> QED BY <1>2, <1>3, <2>1, <2>2, <2>3 DEF TypeOK, FlightSet
<1>7. ASSUME NEW u \in Tabs \ {t} PROVE TabInv(u)'
  <2>1. Same(u)
    BY <1>1, <1>2, <1>3 DEF Same, TypeOK
  <2> QED BY <1>2, <2>1, Frame DEF SessionInv, Heard
<1>8. TabInv(t)'
  <2>1. /\ queue'[t] = left2 \cup {Shown(t)} /\ queueOwner'[t] = localUser[t]
        /\ flights'[t] = out
    BY <1>1, <1>3 DEF TypeOK
  <2>2. Stamped(t)'
    BY <1>2, <1>3, <1>4, <1>5, <2>1 DEF TabInv, Stamped
  <2> QED BY <1>2, <1>3, <2>2 DEF TabInv, Known, Waiting, Warned, Astray
<1> QED BY <1>2, <1>6, <1>7, <1>8, StoredFrame
        DEF SessionInv, Entering, Unleaked

(* flushEvents, whoever calls it: what it sends is the cookie's. *)
LEMMA FlushSafe ==
    ASSUME TypeOK, Unleaked, NEW t \in Tabs, TabInv(t), Flush(t)
    PROVE  /\ queue' \in [Tabs -> SUBSET Users] /\ flights' \in [Tabs -> SUBSET FlightSet]
           /\ queueOwner' \in [Tabs -> Somebody \cup {Unknown}]
           /\ leaked' = leaked
           /\ \A u \in Tabs \ {t} : /\ queue'[u] = queue[u] /\ flights'[u] = flights[u]
                                    /\ queueOwner'[u] = queueOwner[u]
           /\ queue'[t] = {}
           /\ \A f \in flights'[t] : f.fresh => f.batch \subseteq {queueOwner'[t]}
           /\ me[t].data = Unknown => flights'[t] = {}
<1>1. /\ queue \in [Tabs -> SUBSET Users] /\ flights \in [Tabs -> SUBSET FlightSet]
      /\ queueOwner \in [Tabs -> Somebody \cup {Unknown}] /\ queue[t] \in SUBSET Users
      /\ flights[t] \in SUBSET FlightSet /\ localUser[t] \in Somebody \cup {Unknown}
  BY DEF TypeOK, FlightSet
<1>2. CASE queue[t] = {}
  BY <1>1, <1>2 DEF Flush, events, TabInv, Stamped
<1>3. CASE queue[t] # {} /\ (superseded[t] \/ queueOwner[t] # localUser[t])
  <2>1. /\ queue' = [queue EXCEPT ![t] = {}]
        /\ flights' = [flights EXCEPT ![t] = NextGeneration(flights[t])]
        /\ queueOwner' = [queueOwner EXCEPT ![t] = localUser[t]] /\ leaked' = leaked
    BY <1>3 DEF Flush
  <2>2. /\ NextGeneration(flights[t]) \in SUBSET FlightSet
        /\ \A f \in NextGeneration(flights[t]) : ~f.fresh
    BY <1>1, Outdated DEF FlightSet
  <2>3. me[t].data # Unknown
    BY <1>3 DEF TabInv, Stamped
  <2> QED BY <1>1, <2>1, <2>2, <2>3
<1>4. CASE queue[t] # {} /\ ~superseded[t] /\ queueOwner[t] = localUser[t]
  <2> DEFINE sent == [batch |-> queue[t], fresh |-> TRUE]
  <2>1. /\ queue' = [queue EXCEPT ![t] = {}]
        /\ flights' = [flights EXCEPT ![t] = flights[t] \cup {sent}]
        /\ queueOwner' = queueOwner /\ Leak("events", queue[t], Blind(t))
    BY <1>4 DEF Flush
  <2>2. /\ me[t].data # Unknown /\ queue[t] \subseteq {me[t].data}
        /\ queue[t] \subseteq {queueOwner[t]}
    BY <1>4 DEF TabInv, Stamped, Known
  <2>3. me[t].data \in Users
    BY <1>1, <1>4, <2>2
  <2>4. leaked' = leaked
    BY <1>4, <2>1, <2>2, <2>3, NoLeak DEF TabInv
  <2>5. sent \in FlightSet /\ sent.batch = queue[t]
    BY <1>1 DEF FlightSet
  <2> HIDE DEF sent
  <2>6. flights[t] \cup {sent} \in SUBSET FlightSet
    BY <1>1, <2>5
  <2>7. \A f \in flights[t] \cup {sent} : f.fresh => f.batch \subseteq {queueOwner[t]}
    BY <2>2, <2>5 DEF TabInv, Stamped
  <2> QED BY <1>1, <2>1, <2>2, <2>4, <2>6, <2>7
<1> QED BY <1>2, <1>3, <1>4

LEMMA FlushesKeep ==
    ASSUME SessionInv, NEW t \in Tabs, FlushTick(t) \/ FinalFlush(t) PROVE SessionInv'
<1>1. /\ cookie' = cookie /\ bus' = bus /\ localUser' = localUser
      /\ superseded' = superseded /\ me' = me /\ asking' = asking /\ paused' = paused
      /\ stranded' = stranded /\ arriving' = arriving /\ drain' = drain
      /\ left' = left /\ outbox' = outbox /\ delivered' = delivered /\ work' = work
      /\ turns' = turns /\ heard' = heard /\ overtaken' = overtaken
      /\ cleared' = cleared /\ Flush(t)
      /\ \/ pc' = pc
         \/ pc[t] = "idle" /\ pc' = [pc EXCEPT ![t] = "flushing"]
  BY DEF FlushTick, FinalFlush, identity, writes, transition, legacy, bounds, trust
<1>2. TypeOK /\ TabInv(t) /\ Unleaked
  BY DEF SessionInv
<1>3. /\ queue' \in [Tabs -> SUBSET Users] /\ flights' \in [Tabs -> SUBSET FlightSet]
      /\ queueOwner' \in [Tabs -> Somebody \cup {Unknown}]
      /\ leaked' = leaked
      /\ \A u \in Tabs \ {t} : /\ queue'[u] = queue[u] /\ flights'[u] = flights[u]
                               /\ queueOwner'[u] = queueOwner[u]
      /\ queue'[t] = {}
      /\ \A f \in flights'[t] : f.fresh => f.batch \subseteq {queueOwner'[t]}
      /\ me[t].data = Unknown => flights'[t] = {}
  BY <1>1, <1>2, FlushSafe
<1>4. /\ pc' \in [Tabs -> {"idle", "flushing", "leaving", "arriving"}]
      /\ \A u \in Tabs : pc'[u] = "arriving" <=> pc[u] = "arriving"
  BY <1>1, <1>2 DEF TypeOK
<1>5. TypeOK'
  BY <1>1, <1>2, <1>3, <1>4 DEF TypeOK, FlightSet
<1>6. ASSUME NEW u \in Tabs \ {t} PROVE TabInv(u)'
  <2>1. Same(u) /\ Heard(u)
    BY <1>1, <1>3 DEF Same, Heard
  <2> QED BY <1>1, <1>4, <2>1, Frame DEF SessionInv
<1>7. TabInv(t)'
  <2>1. Stamped(t)'
    BY <1>1, <1>3 DEF Stamped
  <2>2. Known(t)' /\ Waiting(t)'
    BY <1>1, <1>2 DEF TabInv, Known, Waiting
  <2>3. Warned(t)'
    BY <1>1, <1>2, <1>4 DEF TabInv, Warned, Astray
  <2> QED BY <2>1, <2>2, <2>3 DEF TabInv
<1>8. Entering'
  BY <1>1, <1>4 DEF SessionInv, Entering
<1>9. Stored'
  BY <1>1, <1>4, Names, StoredFrame
<1> QED BY <1>1, <1>3, <1>5, <1>6, <1>7, <1>8, <1>9 DEF SessionInv, Unleaked

LEMMA AnswerFlushKeeps ==
    ASSUME SessionInv, NEW t \in Tabs, AnswerFlush(t) PROVE SessionInv'
<1>1. /\ cookie' = cookie /\ bus' = bus /\ localUser' = localUser
      /\ superseded' = superseded /\ me' = me /\ asking' = asking /\ paused' = paused
      /\ stranded' = stranded /\ pc' = pc /\ arriving' = arriving /\ drain' = drain
      /\ left' = left /\ outbox' = outbox /\ delivered' = delivered /\ work' = work
      /\ turns' = turns /\ heard' = heard /\ overtaken' = overtaken
      /\ cleared' = cleared /\ leaked' = leaked /\ queueOwner' = queueOwner
  BY DEF AnswerFlush, identity, writes, transition, legacy, bounds, trust
<1>2. PICK f \in flights[t] :
          /\ flights' = [flights EXCEPT ![t] = flights[t] \ {f}]
          /\ \/ queue' = queue
             \/ f.fresh /\ queue' = [queue EXCEPT ![t] = queue[t] \cup f.batch]
  BY DEF AnswerFlush
<1>3. TypeOK /\ TabInv(t)
  BY DEF SessionInv
<1>4. /\ flights[t] \in SUBSET FlightSet /\ f.batch \in SUBSET Users
      /\ queue[t] \in SUBSET Users
  BY <1>2, <1>3 DEF TypeOK, FlightSet
<1>5. TypeOK'
  <2>1. queue' \in [Tabs -> SUBSET Users]
    <3>1. queue \in [Tabs -> SUBSET Users] /\ queue[t] \cup f.batch \in SUBSET Users
      BY <1>3, <1>4 DEF TypeOK
    <3> QED BY <1>2, <3>1
  <2>2. flights' \in [Tabs -> SUBSET FlightSet]
    BY <1>2, <1>3, <1>4 DEF TypeOK, FlightSet
  <2> QED BY <1>1, <1>3, <2>1, <2>2 DEF TypeOK, FlightSet
<1>6. ASSUME NEW u \in Tabs \ {t} PROVE TabInv(u)'
  <2>1. Same(u)
    BY <1>1, <1>2, <1>3 DEF Same, TypeOK
  <2> QED BY <1>1, <2>1, Frame DEF SessionInv, Heard
<1>7. TabInv(t)'
  <2>1. /\ flights'[t] = flights[t] \ {f}
        /\ queue'[t] = queue[t] \/ (f.fresh /\ queue'[t] = queue[t] \cup f.batch)
    BY <1>2, <1>3 DEF TypeOK
  <2>2. Stamped(t)'
    BY <1>1, <1>2, <1>3, <2>1 DEF TabInv, Stamped
  <2> QED BY <1>1, <1>3, <2>2 DEF TabInv, Known, Waiting, Warned, Astray
<1> QED BY <1>1, <1>5, <1>6, <1>7, StoredFrame
        DEF SessionInv, Entering, Unleaked

-----------------------------------------------------------------------------
(* Writes.                                                                 *)

LEMMA WritesKeep ==
    ASSUME SessionInv, NEW t \in Tabs, Write(t) \/ Resume(t) PROVE SessionInv'
<1>1. /\ cookie' = cookie /\ bus' = bus /\ localUser' = localUser
      /\ superseded' = superseded /\ me' = me /\ asking' = asking /\ queue' = queue
      /\ queueOwner' = queueOwner /\ flights' = flights
      /\ pc' = pc /\ arriving' = arriving /\ drain' = drain
      /\ left' = left /\ outbox' = outbox /\ delivered' = delivered /\ work' = work
      /\ turns' = turns /\ heard' = heard /\ overtaken' = overtaken
      /\ cleared' = cleared
  BY DEF Write, Resume, identity, events, transition, legacy, bounds, trust
<1>2. TypeOK /\ TabInv(t) /\ Unleaked
  BY DEF SessionInv
<1>3. /\ leaked' = leaked
      /\ paused' \in [Tabs -> SUBSET Users] /\ stranded' \in [Tabs -> BOOLEAN]
      /\ \A u \in Tabs \ {t} : paused'[u] = paused[u] /\ stranded'[u] = stranded[u]
      /\ (~stranded'[t] /\ paused'[t] # {}) =>
            ~superseded[t] /\ paused'[t] \subseteq {me[t].data}
  <2>1. CASE Write(t)
    <3>1. /\ Shown(t) \in Users /\ stranded' = stranded
          /\ \/ Leak("write", {Shown(t)}, Blind(t)) /\ paused' = paused
             \/ /\ paused' = [paused EXCEPT ![t] = @ \cup {Shown(t)}]
                /\ leaked' = leaked
      BY <2>1 DEF Write
    <3>2. Shown(t) = me[t].data /\ ~superseded[t] /\ me[t].data \in Users
      BY <1>2, <3>1, ShownIsOwn
    <3>3. leaked' = leaked
      <4>1. ASSUME Leak("write", {Shown(t)}, Blind(t)) PROVE leaked' = leaked
        BY <1>2, <3>2, <4>1, NoLeak DEF TabInv
      <4> QED BY <3>1, <4>1
    <3>4. /\ paused \in [Tabs -> SUBSET Users] /\ stranded \in [Tabs -> BOOLEAN]
          /\ (~stranded[t] /\ paused[t] # {}) => paused[t] \subseteq {me[t].data}
      BY <1>2 DEF TypeOK, TabInv, Waiting
    <3>5. paused[t] \cup {Shown(t)} \in SUBSET Users
      BY <3>1, <3>4
    <3>6. CASE paused' = paused
      BY <3>1, <3>2, <3>3, <3>4, <3>6
    <3>7. CASE paused' = [paused EXCEPT ![t] = paused[t] \cup {Shown(t)}]
      <4>1. /\ paused' \in [Tabs -> SUBSET Users] /\ paused'[t] = paused[t] \cup {Shown(t)}
            /\ \A u \in Tabs \ {t} : paused'[u] = paused[u]
        BY <3>4, <3>5, <3>7
      <4> QED BY <3>1, <3>2, <3>3, <3>4, <4>1
    <3> QED BY <3>1, <3>6, <3>7
  <2>2. CASE Resume(t)
    <3>1. /\ paused[t] # {} /\ Leak("write", paused[t], Blind(t) \/ stranded[t])
          /\ paused' = [paused EXCEPT ![t] = {}]
          /\ stranded' = [stranded EXCEPT ![t] = FALSE]
      BY <2>2 DEF Resume
    <3>2. leaked' = leaked
      <4>1. CASE stranded[t]
        BY <3>1, <4>1 DEF Leak
      <4>2. CASE ~stranded[t]
        <5>1. /\ ~superseded[t] /\ paused[t] \subseteq {me[t].data}
              /\ paused[t] \subseteq Users
          BY <1>2, <3>1, <4>2 DEF TabInv, Waiting, TypeOK
        <5>2. me[t].data \in Users
          BY <3>1, <5>1
        <5> QED BY <1>2, <3>1, <5>1, <5>2, NoLeak DEF TabInv
      <4> QED BY <1>2, <4>1, <4>2 DEF TypeOK
    <3> QED BY <1>2, <3>1, <3>2 DEF TypeOK
  <2> QED BY <2>1, <2>2
<1>4. TypeOK'
  BY <1>1, <1>2, <1>3 DEF TypeOK
<1>5. ASSUME NEW u \in Tabs \ {t} PROVE TabInv(u)'
  <2>1. Same(u)
    BY <1>1, <1>3 DEF Same
  <2> QED BY <1>1, <2>1, Frame DEF SessionInv, Heard
<1>6. TabInv(t)'
  BY <1>1, <1>2, <1>3 DEF TabInv, Known, Stamped, Waiting, Warned, Astray
<1> QED BY <1>1, <1>3, <1>4, <1>5, <1>6, StoredFrame
        DEF SessionInv, Entering, Unleaked

-----------------------------------------------------------------------------
(* Signing out and in.                                                     *)

LEMMA CookieKeeps ==
    ASSUME SessionInv,
           \/ Expire
           \/ \E t \in Tabs : PostLogout(t)
    PROVE  SessionInv'
<1>1. /\ bus' = bus /\ localUser' = localUser /\ superseded' = superseded /\ me' = me
      /\ asking' = asking /\ queue' = queue /\ queueOwner' = queueOwner
      /\ flights' = flights /\ paused' = paused /\ stranded' = stranded
      /\ arriving' = arriving /\ drain' = drain /\ left' = left /\ outbox' = outbox
      /\ delivered' = delivered /\ work' = work /\ heard' = heard
      /\ overtaken' = overtaken /\ cleared' = cleared /\ leaked' = leaked
      /\ turns < MaxTurns /\ turns' = turns + 1 /\ cookie' \in {cookie, Nobody}
  BY DEF Expire, PostLogout, identity, events, writes, transition, legacy, trust
<1>2. \/ pc' = pc
      \/ \E t \in Tabs : pc[t] = "flushing" /\ pc' = [pc EXCEPT ![t] = "leaving"]
  BY DEF Expire, PostLogout, transition
<1>3. TypeOK
  BY DEF SessionInv
<1>4. /\ pc' \in [Tabs -> {"idle", "flushing", "leaving", "arriving"}]
      /\ \A u \in Tabs : pc'[u] = "arriving" <=> pc[u] = "arriving"
  BY <1>2, <1>3 DEF TypeOK
<1>5. TypeOK'
  <2>1. turns' \in 0 .. MaxTurns /\ cookie' \in Somebody
    BY <1>1, <1>3, SessionAssumption, Names DEF TypeOK
  <2> QED BY <1>1, <1>3, <1>4, <2>1 DEF TypeOK
<1>6. ASSUME NEW u \in Tabs PROVE TabInv(u)'
  <2>1. Same(u) /\ Heard(u) /\ (cookie' \in Users => cookie' = cookie)
    BY <1>1, Names DEF Same, Heard
  <2> QED BY <1>4, <2>1, Frame DEF SessionInv
<1>7. Entering'
  BY <1>1, <1>4 DEF SessionInv, Entering
<1>9. Stored'
  BY <1>1, <1>4, Names, StoredFrame
<1> QED BY <1>1, <1>5, <1>6, <1>7, <1>9 DEF SessionInv, Unleaked

LEMMA PostLoginKeeps ==
    ASSUME SessionInv, NEW t \in Tabs, NEW user \in Users, PostLogin(t, user)
    PROVE  SessionInv'
<1>1. /\ pc[t] = "idle" /\ Shown(t) = Nobody /\ \A u \in Tabs : pc[u] # "arriving"
      /\ turns < MaxTurns /\ turns' = turns + 1 /\ cookie' = user
      /\ pc' = [pc EXCEPT ![t] = "arriving"]
      /\ arriving' = [arriving EXCEPT ![t] = user]
      /\ bus' = bus /\ localUser' = localUser /\ superseded' = superseded /\ me' = me
      /\ asking' = asking /\ queue' = queue /\ queueOwner' = queueOwner
      /\ flights' = flights /\ paused' = paused /\ stranded' = stranded
      /\ drain' = drain /\ left' = left /\ outbox' = outbox
      /\ delivered' = delivered /\ work' = work /\ heard' = heard
      /\ overtaken' = overtaken /\ cleared' = cleared /\ leaked' = leaked
  BY DEF PostLogin, identity, events, writes, legacy, trust
<1>2. TypeOK
  BY DEF SessionInv
<1>3. /\ pc'[t] = "arriving" /\ arriving'[t] = user
      /\ \A u \in Tabs \ {t} : pc'[u] = pc[u]
      /\ pc' \in [Tabs -> {"idle", "flushing", "leaving", "arriving"}]
  BY <1>1, <1>2 DEF TypeOK
<1>4. TypeOK'
  <2>1. arriving' \in [Tabs -> Somebody] /\ cookie' \in Somebody
    BY <1>1, <1>2, Names DEF TypeOK
  <2>2. turns' \in 0 .. MaxTurns
    BY <1>1, <1>2, SessionAssumption DEF TypeOK
  <2> QED BY <1>1, <1>2, <1>3, <2>1, <2>2 DEF TypeOK
<1>5. ASSUME NEW u \in Tabs PROVE TabInv(u)'
  <2>1. Same(u) /\ TabInv(u)
    BY <1>1 DEF SessionInv, Same
  <2>2. Known(u)' /\ Stamped(u)' /\ Waiting(u)'
    BY <2>1, FrameRest
  <2>3. CASE u # t
    BY <1>3, <2>2, <2>3 DEF TabInv, Warned
  <2>4. CASE u = t
    <3>1. ~Astray(t)'
      <4> SUFFICES ASSUME me[t].data \in Users, ~superseded[t] PROVE FALSE
        BY <1>1 DEF Astray
      <4> QED BY <1>1, Names DEF Shown, Answer, Somebody
    <3> QED BY <2>2, <2>4, <3>1 DEF TabInv, Warned
  <2> QED BY <2>3, <2>4
<1>6. Entering'
  BY <1>1, <1>3 DEF Entering
<1>7. Stored'
  BY <1>3, StoredOnceReplaced DEF Replaced
<1> QED BY <1>1, <1>4, <1>5, <1>6, <1>7 DEF SessionInv, Unleaked

(* clearSession leaves nothing of the account that was. *)
LEMMA Cleared ==
    ASSUME TypeOK, NEW t \in Tabs, NEW users, ClearSession(t, users)
    PROVE  /\ Announce(t, users) /\ ~outbox' /\ cleared'
           /\ queue' \in [Tabs -> SUBSET Users] /\ queue'[t] = {}
           /\ paused' \in [Tabs -> SUBSET Users] /\ paused'[t] = {}
           /\ queueOwner' \in [Tabs -> Somebody \cup {Unknown}]
           /\ stranded' \in [Tabs -> BOOLEAN]
           /\ flights' \in [Tabs -> SUBSET FlightSet]
           /\ \A f \in flights'[t] : ~f.fresh
           /\ \A u \in Tabs \ {t} : /\ queue'[u] = queue[u] /\ paused'[u] = paused[u]
                                    /\ queueOwner'[u] = queueOwner[u]
                                    /\ stranded'[u] = stranded[u]
                                    /\ flights'[u] = flights[u]
           /\ outbox' \in BOOLEAN /\ cleared' \in BOOLEAN
<1>1. /\ queue' = [queue EXCEPT ![t] = {}]
      /\ queueOwner' = [queueOwner EXCEPT ![t] = Unknown]
      /\ flights' = [flights EXCEPT ![t] = NextGeneration(flights[t])]
      /\ paused' = [paused EXCEPT ![t] = {}]
      /\ stranded' = [stranded EXCEPT ![t] = FALSE]
      /\ Announce(t, users) /\ outbox' = FALSE /\ cleared' = TRUE
  BY DEF ClearSession
<1>2. /\ queue \in [Tabs -> SUBSET Users] /\ flights \in [Tabs -> SUBSET FlightSet]
      /\ queueOwner \in [Tabs -> Somebody \cup {Unknown}]
      /\ paused \in [Tabs -> SUBSET Users] /\ stranded \in [Tabs -> BOOLEAN]
  BY DEF TypeOK, FlightSet
<1>3. /\ NextGeneration(flights[t]) \in SUBSET FlightSet
      /\ \A f \in NextGeneration(flights[t]) : ~f.fresh
  BY <1>2, Outdated DEF FlightSet
<1> QED BY <1>1, <1>2, <1>3

LEMMA LeaveKeeps == ASSUME SessionInv, NEW t \in Tabs, LeaveSession(t) PROVE SessionInv'
<1>1. /\ pc[t] = "leaving" /\ pc' = [pc EXCEPT ![t] = "idle"]
      /\ ClearSession(t, <<Nobody>>)
      /\ me' = [me EXCEPT ![t] = [data |-> Nobody, ok |-> TRUE]]
      /\ overtaken' = [overtaken EXCEPT ![t] = FALSE]
      /\ heard' = [heard EXCEPT ![t] = @ /\ localUser[t] = Nobody]
      /\ cookie' = cookie /\ asking' = asking /\ arriving' = arriving
      /\ drain' = drain /\ left' = left /\ delivered' = delivered /\ work' = work
      /\ turns' = turns /\ leaked' = leaked
  BY DEF LeaveSession, bounds
<1>2. TypeOK
  BY DEF SessionInv
<1>3. Announced(t, Nobody)
  BY <1>1, <1>2, Cleared, AnnounceOne, Names
<1>4. /\ ~outbox' /\ cleared'
      /\ queue' \in [Tabs -> SUBSET Users] /\ queue'[t] = {}
      /\ paused' \in [Tabs -> SUBSET Users] /\ paused'[t] = {}
      /\ queueOwner' \in [Tabs -> Somebody \cup {Unknown}]
      /\ stranded' \in [Tabs -> BOOLEAN]
      /\ flights' \in [Tabs -> SUBSET FlightSet]
      /\ \A f \in flights'[t] : ~f.fresh
      /\ \A u \in Tabs \ {t} : /\ queue'[u] = queue[u] /\ paused'[u] = paused[u]
                               /\ queueOwner'[u] = queueOwner[u]
                               /\ stranded'[u] = stranded[u]
                               /\ flights'[u] = flights[u]
      /\ outbox' \in BOOLEAN /\ cleared' \in BOOLEAN
  BY <1>1, <1>2, Cleared
<1>5. /\ pc' \in [Tabs -> {"idle", "flushing", "leaving", "arriving"}]
      /\ \A u \in Tabs : pc'[u] = "arriving" <=> pc[u] = "arriving"
  BY <1>1, <1>2 DEF TypeOK
<1>6. TypeOK'
  <2>1. [data |-> Nobody, ok |-> TRUE] \in [data : Somebody \cup {Unknown}, ok : BOOLEAN]
    BY Names
  <2>2. me' \in [Tabs -> [data : Somebody \cup {Unknown}, ok : BOOLEAN]]
    BY <1>1, <1>2, <2>1 DEF TypeOK
  <2>3. overtaken' \in [Tabs -> BOOLEAN]
    BY <1>1, <1>2 DEF TypeOK
  <2>4. (localUser[t] = Nobody) \in BOOLEAN
    OBVIOUS
  <2>5. heard' \in [Tabs -> BOOLEAN]
    BY <1>1, <1>2, <2>4 DEF TypeOK
  <2> QED BY <1>1, <1>2, <1>3, <1>4, <1>5, <2>2, <2>3, <2>5
          DEF TypeOK, Announced, FlightSet
<1>7. ASSUME NEW u \in Tabs \ {t} PROVE TabInv(u)'
  <2>1. me'[u] = me[u] /\ overtaken'[u] = overtaken[u]
    BY <1>1, <1>2 DEF TypeOK
  <2>2. Same(u) /\ Heard(u)
    BY <1>3, <1>4, <2>1 DEF Same, Heard, Announced
  <2> QED BY <1>1, <1>5, <2>2, Frame DEF SessionInv
<1>8. TabInv(t)'
  <2>1. me'[t].data = Nobody /\ localUser'[t] = Nobody
    BY <1>1, <1>2, <1>3 DEF TypeOK, Announced
  <2> QED BY <1>4, <2>1, Names DEF TabInv, Known, Stamped, Waiting, Warned, Astray
<1>9. Entering' /\ Unleaked'
  BY <1>1, <1>4, <1>5 DEF SessionInv, Entering, Unleaked
<1>10. Stored'
  BY <1>4, StoredOnceReplaced DEF Replaced
<1> QED BY <1>6, <1>7, <1>8, <1>9, <1>10 DEF SessionInv

LEMMA EnterKeeps == ASSUME SessionInv, NEW t \in Tabs, EnterSession(t) PROVE SessionInv'
<1> DEFINE user == arriving[t]
<1>1. /\ pc[t] = "arriving" /\ pc' = [pc EXCEPT ![t] = "idle"]
      /\ arriving' = [arriving EXCEPT ![t] = Nobody]
      /\ ClearSession(t, <<Nobody, user>>)
      /\ me' = [me EXCEPT ![t] = [data |-> user, ok |-> TRUE]]
      /\ overtaken' = [overtaken EXCEPT ![t] = FALSE]
      /\ heard' = [heard EXCEPT ![t] = FALSE]
      /\ drain' = [drain EXCEPT ![t] = IF @ = "undecided" THEN "off" ELSE @]
      /\ cookie' = cookie /\ asking' = asking /\ left' = left /\ delivered' = delivered
      /\ work' = work /\ turns' = turns /\ leaked' = leaked
  BY DEF EnterSession, bounds
<1>2. TypeOK /\ user \in Users /\ cookie \in {user, Nobody}
  BY <1>1 DEF SessionInv, Entering
<1> HIDE DEF user
<1>3. /\ Announced(t, user) /\ ~superseded'[t]
      /\ \A u \in Tabs \ {t} : \E i \in 1 .. Len(bus'[u]) : bus'[u][i] = user
  <2>1. Announce(t, <<Nobody, user>>)
    BY <1>1, <1>2, Cleared
  <2> QED BY <1>2, <2>1, AnnounceTwo
<1>4. /\ ~outbox' /\ cleared'
      /\ queue' \in [Tabs -> SUBSET Users] /\ queue'[t] = {}
      /\ paused' \in [Tabs -> SUBSET Users] /\ paused'[t] = {}
      /\ queueOwner' \in [Tabs -> Somebody \cup {Unknown}]
      /\ stranded' \in [Tabs -> BOOLEAN]
      /\ flights' \in [Tabs -> SUBSET FlightSet]
      /\ \A f \in flights'[t] : ~f.fresh
      /\ \A u \in Tabs \ {t} : /\ queue'[u] = queue[u] /\ paused'[u] = paused[u]
                               /\ queueOwner'[u] = queueOwner[u]
                               /\ stranded'[u] = stranded[u]
                               /\ flights'[u] = flights[u]
      /\ outbox' \in BOOLEAN /\ cleared' \in BOOLEAN
  BY <1>1, <1>2, Cleared
<1>5. /\ pc' \in [Tabs -> {"idle", "flushing", "leaving", "arriving"}]
      /\ pc'[t] = "idle" /\ \A u \in Tabs \ {t} : pc'[u] = pc[u]
  BY <1>1, <1>2 DEF TypeOK
<1>6. TypeOK'
  <2>1. [data |-> user, ok |-> TRUE] \in [data : Somebody \cup {Unknown}, ok : BOOLEAN]
    BY <1>2, Names
  <2>2. me' \in [Tabs -> [data : Somebody \cup {Unknown}, ok : BOOLEAN]]
    BY <1>1, <1>2, <2>1 DEF TypeOK
  <2>3. overtaken' \in [Tabs -> BOOLEAN] /\ heard' \in [Tabs -> BOOLEAN]
    BY <1>1, <1>2 DEF TypeOK
  <2>4. arriving' \in [Tabs -> Somebody]
    BY <1>1, <1>2, Names DEF TypeOK
  <2>5. drain' \in [Tabs -> {"undecided", "on", "off"}]
    BY <1>1, <1>2 DEF TypeOK
  <2> QED BY <1>1, <1>2, <1>3, <1>4, <1>5, <2>2, <2>3, <2>4, <2>5
          DEF TypeOK, Announced, FlightSet
<1>7. ASSUME NEW u \in Tabs \ {t} PROVE TabInv(u)'
  <2>1. me'[u] = me[u] /\ overtaken'[u] = overtaken[u]
    BY <1>1, <1>2 DEF TypeOK
  <2>2. Same(u) /\ TabInv(u)
    BY <1>3, <1>4, <2>1 DEF Same, Announced, SessionInv
  <2>3. Known(u)' /\ Stamped(u)' /\ Waiting(u)'
    BY <2>2, FrameRest
  <2>4. Warned(u)'
    <3> SUFFICES ASSUME Astray(u)'
                 PROVE  \E i \in 1 .. Len(bus'[u]) : bus'[u][i] # me'[u].data
      BY DEF Warned
    <3>1. cookie = user /\ user # me'[u].data
      BY <1>1, <1>2, Names DEF Astray
    <3> QED BY <1>3, <3>1
  <2> QED BY <2>3, <2>4 DEF TabInv
<1>8. TabInv(t)'
  <2>1. me'[t].data = user /\ localUser'[t] = user /\ user # Unknown
    BY <1>1, <1>2, <1>3, SessionAssumption DEF TypeOK, Announced
  <2>2. ~Astray(t)'
    BY <1>1, <1>2, <2>1, Names DEF Astray
  <2> QED BY <1>4, <2>1, <2>2 DEF TabInv, Known, Stamped, Waiting, Warned
<1>9. Entering'
  <2>1. \A u \in Tabs \ {t} : arriving'[u] = arriving[u]
    BY <1>1, <1>2 DEF TypeOK
  <2> QED BY <1>1, <1>5, <2>1 DEF SessionInv, Entering
<1>10. Stored'
  BY <1>4, StoredOnceReplaced DEF Replaced
<1>11. Unleaked'
  BY <1>1 DEF SessionInv, Unleaked
<1> QED BY <1>6, <1>7, <1>8, <1>9, <1>10, <1>11 DEF SessionInv

-----------------------------------------------------------------------------
(* The drain.                                                              *)

LEMMA DrainKeeps ==
    ASSUME SessionInv, NEW t \in Tabs, DrainBatch(t) \/ FinishDrain(t)
    PROVE  SessionInv'
<1>1. /\ cookie' = cookie /\ bus' = bus /\ localUser' = localUser
      /\ superseded' = superseded /\ me' = me /\ asking' = asking /\ queue' = queue
      /\ queueOwner' = queueOwner /\ flights' = flights /\ paused' = paused
      /\ stranded' = stranded /\ pc' = pc /\ arriving' = arriving /\ work' = work
      /\ turns' = turns /\ heard' = heard /\ overtaken' = overtaken
      /\ cleared' = cleared
  BY DEF DrainBatch, FinishDrain, identity, events, writes, transition, bounds, trust
<1>2. TypeOK /\ left[t] \in 0 .. Batches /\ Batches \in Nat
  BY SessionAssumption DEF SessionInv, TypeOK
<1>3. /\ drain' \in [Tabs -> {"undecided", "on", "off"}]
      /\ left' \in [Tabs -> 0 .. Batches] /\ outbox' \in BOOLEAN
      /\ delivered' \subseteq 1 .. Batches /\ delivered \subseteq delivered'
      /\ leaked' \in {leaked, leaked \cup {"legacy"}}
      /\ \A u \in Tabs \ {t} : drain'[u] = drain[u] /\ left'[u] = left[u]
      /\ drain'[t] = "on" => (left'[t] + 1) .. Batches \subseteq delivered' \/ Replaced
      /\ OutboxNotLost'
  <2>1. CASE SendBatch(t) /\ (drain' = drain \/ StopDrain(t)) /\ DrainBatch(t)
    <3>1. /\ drain[t] = "on" /\ left[t] \in 1 .. Batches /\ outbox' = outbox
          /\ cookie \in Users
          /\ delivered' = delivered \cup {b \in {left[t]} : cookie = LegacyOwner}
          /\ leaked' \in {leaked, leaked \cup {"legacy"}}
      BY <1>2, <2>1 DEF DrainBatch, SendBatch, Leak
    <3>2. /\ delivered' \subseteq 1 .. Batches /\ delivered \subseteq delivered'
          /\ left[t] \in delivered' \/ Replaced
      BY <1>2, <3>1 DEF SessionInv, Stored, TypeOK
    <3>3. OutboxNotLost'
      BY <1>1, <3>1, <3>2 DEF SessionInv, Stored, OutboxNotLost
    <3>4. (left[t] + 1) .. Batches \subseteq delivered \/ Replaced
      BY <3>1 DEF SessionInv, Stored
    <3>5. CASE drain' = drain /\ left' = [left EXCEPT ![t] = left[t] - 1]
      <4>1. left[t] - 1 \in 0 .. Batches
        BY <1>2, <3>1
      <4>2. /\ left' \in [Tabs -> 0 .. Batches] /\ left'[t] = left[t] - 1
            /\ \A u \in Tabs \ {t} : left'[u] = left[u]
        BY <1>2, <3>5, <4>1 DEF TypeOK
      <4>3. ASSUME ~Replaced, NEW b \in (left'[t] + 1) .. Batches PROVE b \in delivered'
        <5>1. b = left[t] \/ b \in (left[t] + 1) .. Batches
          BY <1>2, <3>1, <4>2
        <5> QED BY <3>2, <3>4, <4>3, <5>1
      <4> QED BY <1>2, <3>1, <3>2, <3>3, <3>5, <4>2, <4>3 DEF TypeOK
    <3>6. CASE StopDrain(t)
      <4>1. drain' = [drain EXCEPT ![t] = "off"] /\ left' = [left EXCEPT ![t] = 0]
        BY <3>6 DEF StopDrain
      <4>2. 0 \in 0 .. Batches
        BY <1>2
      <4> QED BY <1>2, <3>1, <3>2, <3>3, <4>1, <4>2 DEF TypeOK
    <3> QED BY <1>2, <2>1, <3>1, <3>5, <3>6 DEF DrainBatch, StopDrain, TypeOK
  <2>2. CASE StopDrain(t) /\ delivered' = delivered /\ leaked' = leaked
    <3>1. /\ drain' = [drain EXCEPT ![t] = "off"] /\ left' = [left EXCEPT ![t] = 0]
          /\ delivered' = delivered /\ leaked' = leaked
      BY <2>2 DEF StopDrain
    <3>2. 0 \in 0 .. Batches
      BY <1>2
    <3>3. /\ outbox' \in BOOLEAN /\ OutboxNotLost'
      <4>1. CASE DrainBatch(t)
        BY <1>1, <1>2, <3>1, <4>1 DEF DrainBatch, TypeOK, SessionInv, Stored, OutboxNotLost
      <4>2. CASE FinishDrain(t)
        <5>1. drain[t] = "on" /\ left[t] = 0 /\ outbox' = FALSE
          BY <4>2 DEF FinishDrain
        <5>2. /\ (left[t] + 1) .. Batches \subseteq delivered \/ Replaced
              /\ delivered \subseteq 1 .. Batches
          BY <1>2, <5>1 DEF SessionInv, Stored, TypeOK
        <5>3. left[t] + 1 = 1
          BY <5>1
        <5>4. delivered = 1 .. Batches \/ Replaced
          BY <5>2, <5>3
        <5> QED BY <1>1, <3>1, <5>1, <5>4 DEF OutboxNotLost, Replaced
      <4> QED BY <4>1, <4>2
    <3> QED BY <1>2, <3>1, <3>2, <3>3 DEF TypeOK
  <2>3. \/ SendBatch(t) /\ (drain' = drain \/ StopDrain(t)) /\ DrainBatch(t)
        \/ StopDrain(t) /\ delivered' = delivered /\ leaked' = leaked
    BY DEF DrainBatch, FinishDrain
  <2> QED BY <2>1, <2>2, <2>3
<1>4. TypeOK'
  <2>1. leaked' \subseteq {"events", "write", "legacy"}
    BY <1>2, <1>3 DEF TypeOK
  <2> QED BY <1>1, <1>2, <1>3, <2>1 DEF TypeOK
<1>5. ASSUME NEW u \in Tabs PROVE TabInv(u)'
  BY <1>1, Frame DEF SessionInv, Same, Heard
<1>6. Stored'
  <2>1. Replaced' <=> Replaced
    BY <1>1 DEF Replaced
  <2>2. ASSUME NEW u \in Tabs, drain'[u] = "on"
        PROVE  (left'[u] + 1) .. Batches \subseteq delivered' \/ Replaced
    <3>1. CASE u = t
      BY <1>3, <2>2, <3>1
    <3>2. CASE u # t
      <4>1. drain[u] = "on" /\ left'[u] = left[u]
        BY <1>3, <2>2, <3>2
      <4> QED BY <1>3, <4>1 DEF SessionInv, Stored
    <3> QED BY <3>1, <3>2
  <2> QED BY <1>1, <1>3, <2>1, <2>2 DEF SessionInv, Stored
<1> QED BY <1>1, <1>3, <1>4, <1>5, <1>6 DEF SessionInv, Entering, Unleaked

-----------------------------------------------------------------------------
LEMMA SessionKept == Spec => []SessionInv
<1>1. SessionInv /\ [Next]_vars => SessionInv'
  <2> SUFFICES ASSUME SessionInv, [Next]_vars PROVE SessionInv'
    OBVIOUS
  <2>1. ASSUME NEW t \in Tabs,
               \/ Receive(t) \/ RequestMe(t) \/ AnswerMe(t) \/ FailMe(t) \/ Reload(t)
        PROVE  SessionInv'
    BY <2>1, ReceiveKeeps, RequestMeKeeps, AnswerMeKeeps, FailMeKeeps, ReloadKeeps
  <2>2. ASSUME NEW t \in Tabs,
               \/ Beat(t) \/ FlushTick(t) \/ AnswerFlush(t) \/ FinalFlush(t)
               \/ Write(t) \/ Resume(t)
        PROVE  SessionInv'
    BY <2>2, BeatKeeps, FlushesKeep, AnswerFlushKeeps, WritesKeep
  <2>3. ASSUME NEW t \in Tabs,
               \/ PostLogout(t) \/ LeaveSession(t) \/ EnterSession(t)
               \/ DrainBatch(t) \/ FinishDrain(t)
               \/ \E user \in Users : PostLogin(t, user)
        PROVE  SessionInv'
    BY <2>3, CookieKeeps, LeaveKeeps, EnterKeeps, DrainKeeps, PostLoginKeeps
  <2>4. CASE Expire
    BY <2>4, CookieKeeps
  <2>5. CASE UNCHANGED vars
    <3>1. /\ cookie' = cookie /\ bus' = bus /\ localUser' = localUser
          /\ superseded' = superseded /\ me' = me /\ asking' = asking /\ queue' = queue
          /\ queueOwner' = queueOwner /\ flights' = flights /\ paused' = paused
          /\ stranded' = stranded /\ pc' = pc /\ arriving' = arriving /\ drain' = drain
          /\ left' = left /\ outbox' = outbox /\ delivered' = delivered /\ work' = work
          /\ turns' = turns /\ heard' = heard /\ overtaken' = overtaken
          /\ cleared' = cleared /\ leaked' = leaked
      BY <2>5 DEF vars, identity, events, writes, transition, legacy, bounds, trust
    <3>2. TypeOK'
      BY <3>1 DEF SessionInv, TypeOK
    <3>3. ASSUME NEW u \in Tabs PROVE TabInv(u)'
      BY <3>1, Frame DEF SessionInv, Same, Heard
    <3> QED BY <3>1, <3>2, <3>3
            DEF SessionInv, Entering, Stored, Replaced, OutboxNotLost, Unleaked
  <2> QED BY <2>1, <2>2, <2>3, <2>4, <2>5 DEF Next
<1> QED BY <1>1, InitSession, PTL DEF Spec

(* BrowserSession's state stays within its types. *)
THEOREM TypeCorrect == Spec => []TypeOK
<1>1. SessionInv => TypeOK
  BY DEF SessionInv
<1> QED BY <1>1, SessionKept, PTL

(* api/events.ts: no flush records one account's reading under another's   *)
(* cookie, unless no code in the tab could know of the change.             *)
THEOREM EventsKeptApart == Spec => []EventsStayWithOwner
<1>1. SessionInv => EventsStayWithOwner
  BY DEF SessionInv, Unleaked, EventsStayWithOwner
<1> QED BY <1>1, SessionKept, PTL

(* auth/session.ts: no write of one account leaves under the cookie of     *)
(* another that signed in on its tab or that its tab can know of.          *)
THEOREM WritesKeptApart == Spec => []WritesStayWithOwner
<1>1. SessionInv => WritesStayWithOwner
  BY DEF SessionInv, Unleaked, WritesStayWithOwner
<1> QED BY <1>1, SessionKept, PTL

(* api/useMe.ts: an account shown is the cookie's, but for the two windows *)
(* a tab cannot see.                                                       *)
THEOREM ShownStaysCurrent == Spec => []ShownIsCurrent
<1>1. SessionInv => ShownIsCurrent
  <2> SUFFICES ASSUME SessionInv, NEW t \in Tabs, Shown(t) \in Users,
                      cookie \in Users, Shown(t) # cookie, ~Blind(t)
               PROVE  FALSE
    BY DEF ShownIsCurrent
  <2>1. Shown(t) = me[t].data /\ ~superseded[t] /\ TabInv(t)
    BY ShownIsOwn DEF SessionInv
  <2>2. Astray(t)
    BY <2>1 DEF Astray, Blind
  <2>3. /\ \A u \in Tabs \ {t} : pc[u] # "arriving"
        /\ \A i \in 1 .. Len(bus[t]) : FALSE
    BY DEF Blind, News
  <2> QED BY <2>1, <2>2, <2>3 DEF TabInv, Warned
<1> QED BY <1>1, SessionKept, PTL

(* db/legacyDrain.ts: the old outbox is deleted only when the server has   *)
(* all of it for its owner, or a session was ended or replaced on purpose. *)
THEOREM OutboxKept == Spec => []OutboxNotLost
<1>1. SessionInv => OutboxNotLost
  BY DEF SessionInv, Stored
<1> QED BY <1>1, SessionKept, PTL

=============================================================================
