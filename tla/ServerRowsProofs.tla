-------------------------- MODULE ServerRowsProofs --------------------------
(***************************************************************************)
(* Proofs about the rows of the API server, for any number of learners,    *)
(* courses, requests and readers.                                          *)
(*                                                                         *)
(* LearnerRows: the newest mark stands (LearnerInv). What a request left of a*)
(* row, or is on its way to leave, is traced to the mark it wrote: LeftBy. *)
(* CountedRows: every vote let through was counted when the others were not*)
(* there yet, so the votes held and those on the way stay below the cap plus*)
(* the voters (RatingInv); an event row is what was recorded (EventInv).   *)
(* DiscussionCache: the calls are an account of the budget (Rationed): the *)
(* window holds the last of them, and those before the ration of the window*)
(* before are older than a window.                                         *)
(* CourseCatalog: what the interleaving of transactions leaves true between*)
(* their statements is GoodCase: a publish that has its number holds the   *)
(* next one, alone; a publish that has chosen a row finds that row or none;*)
(* and who holds the row is the only one, and the row is the live one.     *)
(***************************************************************************)
EXTENDS LearnerRows, CountedRows, DiscussionCache, CourseCatalog, FiniteSetTheorems,
        TLAPS

Hows == {"mark", "upsert", "erase", "create", "patch", "delete"}
LateHows == {"mark", "upsert", "erase"}
ItemT == [how : Hows, text : Wordings, at : Int]
RowT == [owner : Learners, text : Wordings, at : Int]
Table == [RowNames -> RowT \cup {NoRow}]
Part == UNION {[names -> RowT \cup {NoRow}] : names \in SUBSET RowNames}
Work == [who : Learners, items : Seq(ItemT), batch : SUBSET Batches, next : Nat, mine : Part]

-----------------------------------------------------------------------------
(* What a batch makes of a note, item by item.                             *)

Outcome(who, item, row) == IF Applies(who, item, row) THEN Written(who, item) ELSE row

Upserts(items, i) == items[i].how = "upsert"

(* An erasure between i and n takes away what item i wrote. *)
Killed(items, i, n) ==
    \E j \in DOMAIN items :
        i < j /\ j < n /\ items[j].how = "erase" /\ items[j].at > items[i].at

(* The row is what item m wrote, or was there before (m = 0): what came    *)
(* later was no newer, and what earlier was as new was erased before m.    *)
WroteIt(items, who, n, m, row) ==
    /\ m # 0 => m \in DOMAIN items /\ Upserts(items, m) /\ row = Written(who, items[m])
    /\ \A k \in DOMAIN items :
          m < k /\ k < n /\ items[k].how # "mark" => items[k].at <= row.at
    /\ \A i \in DOMAIN items :
          i < m /\ Upserts(items, i) /\ items[i].at >= row.at => Killed(items, i, m)

(* The row is what the items before n leave of a row. *)
LeftBy(items, who, n, row) ==
    \/ row = NoRow /\ \A i \in DOMAIN items : i < n /\ Upserts(items, i) => Killed(items, i, n)
    \/ row # NoRow /\ row.owner # who
    \/ row # NoRow /\ row.owner = who /\ \E m \in Nat : m < n /\ WroteIt(items, who, n, m, row)

(* Item i wrote the row, and nothing since was newer. *)
Stands(items, who, i, n, row) ==
    /\ i < n /\ Upserts(items, i) /\ row = Written(who, items[i])
    /\ \A k \in DOMAIN items :
          i < k /\ k < n /\ items[k].how # "mark" => items[k].at <= items[i].at

(* Where the items, applied again from a row that they left, have come to: *)
(* the row, or one that the item which wrote the row has yet to replace.   *)
OnTheWay(items, who, n, row, end) ==
    \/ row = end
    \/ /\ row = NoRow \/ \E i \in DOMAIN items : Stands(items, who, i, n, row)
       /\ end # NoRow =>
             \E m \in DOMAIN items : m >= n /\ WroteIt(items, who, Len(items) + 1, m, end)

LEMMA RowsDiffer ==
    \A who \in Learners, item \in ItemT :
        /\ item.how \notin {"delete", "erase"} =>
              /\ Written(who, item) \in RowT /\ Written(who, item) # NoRow
              /\ Written(who, item).owner = who /\ Written(who, item).at = item.at
        /\ item.how \in {"delete", "erase"} => Written(who, item) = NoRow
        /\ Written(who, item) \in RowT \cup {NoRow}
BY LearnerAssumption DEF Written, ItemT, RowT

(* The next item, in the three ways it can go. *)
LEMMA LateItem ==
    ASSUME NEW who \in Learners, NEW item \in ItemT, item.how \in LateHows \ {"mark"},
           NEW row \in RowT \cup {NoRow}
    PROVE  \/ /\ Outcome(who, item, row) = row
              /\ row # NoRow => row.owner # who \/ item.at <= row.at
              /\ row = NoRow => item.how = "erase"
           \/ /\ item.how = "upsert" /\ Outcome(who, item, row) = Written(who, item)
              /\ row # NoRow => row.owner = who /\ item.at > row.at
           \/ /\ item.how = "erase" /\ Outcome(who, item, row) = NoRow
              /\ row # NoRow /\ row.owner = who /\ item.at > row.at
<1>1. row = NoRow \/ (row \in RowT /\ row.at \in Int /\ item.at \in Int) BY DEF ItemT, RowT
<1>2. CASE item.how = "upsert"
  <2>1. Applies(who, item, row) <=> row = NoRow \/ (Owns(who, row) /\ item.at > row.at)
    BY <1>2 DEF Applies
  <2> QED BY <1>1, <1>2, <2>1 DEF Outcome, Owns
<1>3. CASE item.how = "erase"
  <2>1. Applies(who, item, row) <=> Owns(who, row) /\ item.at > row.at
    BY <1>3 DEF Applies
  <2>2. Written(who, item) = NoRow BY <1>3 DEF Written
  <2> QED BY <1>1, <1>3, <2>1, <2>2 DEF Outcome, Owns
<1> QED BY <1>2, <1>3 DEF LateHows

(* What the type of a batch's items says of each. *)
LEMMA EachItem ==
    ASSUME NEW items \in Seq(ItemT)
    PROVE  /\ Len(items) \in Nat /\ DOMAIN items = 1 .. Len(items)
           /\ \A i \in DOMAIN items :
                 i \in Nat /\ i < Len(items) + 1 /\ items[i] \in ItemT /\ items[i].at \in Int
<1>1. \A item \in ItemT : item.at \in Int BY DEF ItemT
<1> QED BY <1>1

LEMMA LeftByNext ==
    ASSUME NEW who \in Learners, NEW items \in Seq(ItemT), NEW n \in DOMAIN items,
           \A i \in DOMAIN items : items[i].how \in LateHows,
           NEW row \in RowT \cup {NoRow},
           LeftBy(items, who, n, row)
    PROVE  LeftBy(items, who, n + 1,
                  IF items[n].how = "mark" THEN row ELSE Outcome(who, items[n], row))
<1> DEFINE item == items[n]
           was == IF item.how = "mark" THEN row ELSE Outcome(who, item, row)
<1>0. /\ n \in Nat /\ item \in ItemT /\ DOMAIN items \subseteq Nat
      /\ \A i \in DOMAIN items : items[i].at \in Int /\ items[i] \in ItemT
  BY EachItem
<1>1. ASSUME NEW i \in DOMAIN items, Killed(items, i, n) PROVE Killed(items, i, n + 1)
  BY <1>0, <1>1 DEF Killed
<1>2. ASSUME was = row,
             item.how # "mark" /\ row # NoRow => row.owner # who \/ item.at <= row.at,
             item.how # "mark" /\ row = NoRow => item.how = "erase"
      PROVE  LeftBy(items, who, n + 1, row)
  <2>1. CASE row = NoRow
    <3>1. \A i \in DOMAIN items : i < n /\ Upserts(items, i) => Killed(items, i, n)
      BY <2>1 DEF LeftBy
    <3>2. ~Upserts(items, n) BY <1>2, <2>1 DEF Upserts
    <3>3. \A i \in DOMAIN items : i < n + 1 /\ Upserts(items, i) => Killed(items, i, n + 1)
      BY <1>0, <1>1, <3>1, <3>2
    <3> QED BY <2>1, <3>3 DEF LeftBy
  <2>2. CASE row # NoRow /\ row.owner # who BY <2>2 DEF LeftBy
  <2>3. CASE row # NoRow /\ row.owner = who
    <3>1. PICK m \in Nat : m < n /\ WroteIt(items, who, n, m, row) BY <2>3 DEF LeftBy
    <3>2. item.how # "mark" => item.at <= row.at BY <1>2, <2>3
    <3>3. \A k \in DOMAIN items :
             m < k /\ k < n + 1 /\ items[k].how # "mark" => items[k].at <= row.at
      BY <1>0, <3>1, <3>2 DEF WroteIt
    <3>4. m < n + 1 /\ WroteIt(items, who, n + 1, m, row) BY <1>0, <3>1, <3>3 DEF WroteIt
    <3> QED BY <2>3, <3>1, <3>4 DEF LeftBy
  <2> QED BY <2>1, <2>2, <2>3
<1>3. ASSUME item.how = "upsert", was = Written(who, item),
             row # NoRow => row.owner = who /\ item.at > row.at
      PROVE  LeftBy(items, who, n + 1, was)
  <2>1. was # NoRow /\ was.owner = who /\ was.at = item.at BY <1>0, <1>3, RowsDiffer
  <2>2. \A i \in DOMAIN items :
           i < n /\ Upserts(items, i) /\ items[i].at >= was.at => Killed(items, i, n)
    <3> SUFFICES ASSUME NEW i \in DOMAIN items, i < n, Upserts(items, i), items[i].at >= item.at
        PROVE  Killed(items, i, n)
        BY <2>1
    <3>1. CASE row = NoRow BY <3>1 DEF LeftBy
    <3>2. CASE row # NoRow
      <4>1. row.owner = who /\ item.at > row.at /\ row.at \in Int BY <1>3, <3>2 DEF RowT
      <4>2. PICK m \in Nat : m < n /\ WroteIt(items, who, n, m, row) BY <3>2, <4>1 DEF LeftBy
      <4>3. items[i].at > row.at BY <1>0, <4>1
      <4>4. ~(m < i) BY <1>0, <4>1, <4>2, <4>3 DEF WroteIt, Upserts
      <4>5. i # m
        <5>1. m # 0 => row.at = items[m].at BY <1>0, <4>2, RowsDiffer DEF WroteIt, Upserts
        <5> QED BY <1>0, <4>1, <4>3, <5>1
      <4>6. i < m BY <1>0, <4>2, <4>4, <4>5
      <4>7. Killed(items, i, m) BY <1>0, <4>1, <4>2, <4>3, <4>6 DEF WroteIt
      <4> QED BY <1>0, <4>2, <4>7 DEF Killed
    <3> QED BY <3>1, <3>2
  <2>3. WroteIt(items, who, n + 1, n, was) BY <1>0, <1>3, <2>2 DEF WroteIt, Upserts
  <2> QED BY <1>0, <2>1, <2>3 DEF LeftBy
<1>4. ASSUME item.how = "erase", was = NoRow, row # NoRow, row.owner = who, item.at > row.at
      PROVE  LeftBy(items, who, n + 1, was)
  <2>1. PICK m \in Nat : m < n /\ WroteIt(items, who, n, m, row) BY <1>4 DEF LeftBy
  <2>2. ASSUME NEW i \in DOMAIN items, i < n + 1, Upserts(items, i)
        PROVE  Killed(items, i, n + 1)
    <3>1. i < n BY <1>0, <1>4, <2>2 DEF Upserts
    <3>2. row.at \in Int BY <1>4 DEF RowT
    <3>3. CASE items[i].at < item.at BY <1>0, <1>4, <3>1, <3>3 DEF Killed
    <3>4. CASE ~(items[i].at < item.at)
      <4>1. items[i].at > row.at BY <1>0, <1>4, <3>2, <3>4
      <4>2. ~(m < i)
        <5>1. items[i].how # "mark" /\ items[i].at \in Int BY <1>0, <2>2 DEF Upserts
        <5>2. m < i => items[i].at <= row.at BY <2>1, <2>2, <3>1, <5>1 DEF WroteIt
        <5> QED BY <3>2, <4>1, <5>1, <5>2
      <4>3. i # m
        <5>1. m # 0 => row.at = items[m].at BY <1>0, <2>1, RowsDiffer DEF WroteIt, Upserts
        <5> QED BY <1>0, <3>2, <4>1, <5>1
      <4>4. i < m BY <1>0, <2>1, <4>2, <4>3
      <4>5. Killed(items, i, m) BY <1>0, <2>1, <2>2, <3>2, <4>1, <4>4 DEF WroteIt
      <4> QED BY <1>0, <2>1, <4>5 DEF Killed
    <3> QED BY <3>3, <3>4
  <2> QED BY <1>4, <2>2 DEF LeftBy
<1>5. CASE item.how = "mark" BY <1>2, <1>5
<1>6. CASE item.how # "mark"
  <2>1. item.how \in LateHows \ {"mark"} BY <1>6
  <2> QED BY <1>0, <1>2, <1>3, <1>4, <1>6, <2>1, LateItem
<1> QED BY <1>5, <1>6

LEMMA OnTheWayNext ==
    ASSUME NEW who \in Learners, NEW items \in Seq(ItemT), NEW n \in DOMAIN items,
           \A i \in DOMAIN items : items[i].how \in LateHows,
           NEW row \in RowT \cup {NoRow}, NEW end \in RowT \cup {NoRow},
           LeftBy(items, who, Len(items) + 1, end),
           OnTheWay(items, who, n, row, end)
    PROVE  OnTheWay(items, who, n + 1,
                    IF items[n].how = "mark" THEN row ELSE Outcome(who, items[n], row), end)
<1> DEFINE item == items[n]
           was == IF item.how = "mark" THEN row ELSE Outcome(who, item, row)
           last == Len(items) + 1
<1>0. /\ n \in Nat /\ n < last /\ last \in Nat /\ item \in ItemT /\ DOMAIN items \subseteq Nat
      /\ \A i \in DOMAIN items : items[i].at \in Int /\ items[i] \in ItemT /\ i < last
  BY EachItem
<1>1. CASE was = end BY <1>1 DEF OnTheWay
<1>2. CASE was # end /\ row = end
  <2>0. item.how \in LateHows \ {"mark"} BY <1>2
  <2>1. /\ was = NoRow \/ (item.how = "upsert" /\ was = Written(who, item))
        /\ row # NoRow => row.owner = who /\ item.at > row.at
    BY <1>0, <1>2, <2>0, LateItem
  <2>2. was = NoRow \/ Stands(items, who, n, n + 1, was) BY <1>0, <2>1 DEF Stands, Upserts
  <2>3. ASSUME end # NoRow
        PROVE  \E m \in DOMAIN items : m >= n + 1 /\ WroteIt(items, who, last, m, end)
    <3>1. end.owner = who /\ item.at > end.at /\ end.at \in Int BY <1>2, <2>1, <2>3 DEF RowT
    <3>2. PICK m \in Nat : m < last /\ WroteIt(items, who, last, m, end)
      BY <2>3, <3>1 DEF LeftBy
    <3>3. ~(m < n) BY <1>0, <2>0, <3>1, <3>2 DEF WroteIt
    <3>4. m # 0 BY <1>0, <3>3
    <3>5. m \in DOMAIN items /\ end.at = items[m].at
      BY <1>0, <3>2, <3>4, RowsDiffer DEF WroteIt, Upserts
    <3>6. m # n BY <1>0, <3>1, <3>5
    <3> QED BY <1>0, <3>2, <3>3, <3>5, <3>6
  <2> QED BY <2>2, <2>3 DEF OnTheWay
<1>3. CASE was # end /\ row # end
  <2>1. /\ row = NoRow \/ \E i \in DOMAIN items : Stands(items, who, i, n, row)
        /\ end # NoRow => \E m \in DOMAIN items : m >= n /\ WroteIt(items, who, last, m, end)
    BY <1>3 DEF OnTheWay
  <2>2. was = NoRow \/ \E i \in DOMAIN items : Stands(items, who, i, n + 1, was)
    <3>1. CASE item.how = "mark"
      <4>1. was = row BY <3>1
      <4> QED BY <1>0, <2>1, <3>1, <4>1 DEF Stands
    <3>2. CASE item.how # "mark"
      <4>1. item.how \in LateHows \ {"mark"} /\ was = Outcome(who, item, row) BY <3>2
      <4>2. CASE /\ was = row
                 /\ row # NoRow => row.owner # who \/ item.at <= row.at
        <5> SUFFICES ASSUME row # NoRow
            PROVE  \E i \in DOMAIN items : Stands(items, who, i, n + 1, was)
            BY <4>2
        <5>1. PICK i \in DOMAIN items : Stands(items, who, i, n, row) BY <2>1
        <5>2. row.owner = who /\ row.at = items[i].at
          BY <1>0, <5>1, RowsDiffer DEF Stands, Upserts
        <5>3. item.at <= items[i].at BY <4>2, <5>2
        <5> QED BY <1>0, <4>2, <5>1, <5>3 DEF Stands
      <4>3. CASE item.how = "upsert" /\ was = Written(who, item)
        BY <1>0, <4>3 DEF Stands, Upserts
      <4> QED BY <1>0, <4>1, <4>2, <4>3, LateItem
    <3> QED BY <3>1, <3>2
  <2>3. ASSUME end # NoRow
        PROVE  \E m \in DOMAIN items : m >= n + 1 /\ WroteIt(items, who, last, m, end)
    <3>1. PICK m \in DOMAIN items : m >= n /\ WroteIt(items, who, last, m, end) BY <2>1, <2>3
    <3>2. m # n
      <4> SUFFICES ASSUME m = n PROVE FALSE OBVIOUS
      <4>1. item.how = "upsert" /\ end = Written(who, item)
        BY <1>0, <3>1 DEF WroteIt, Upserts
      <4>2. end.at = item.at BY <1>0, <4>1, RowsDiffer
      <4>3. was # Written(who, item) BY <1>3, <4>1
      <4>4. was = row /\ row # NoRow /\ (row.owner # who \/ item.at <= row.at)
        BY <1>0, <4>1, <4>3, LateItem DEF LateHows
      <4>5. PICK i \in DOMAIN items : Stands(items, who, i, n, row) BY <2>1, <4>4
      <4>6. row.owner = who /\ row.at = items[i].at
        BY <1>0, <4>5, RowsDiffer DEF Stands, Upserts
      <4>7. items[i].at >= end.at /\ i < m BY <1>0, <4>2, <4>4, <4>5, <4>6 DEF Stands
      <4>8. Killed(items, i, m) BY <3>1, <4>5, <4>7 DEF WroteIt, Stands
      <4>9. PICK j \in DOMAIN items :
               i < j /\ j < n /\ items[j].how = "erase" /\ items[j].at > items[i].at
        BY <4>8 DEF Killed
      <4> QED BY <1>0, <4>5, <4>9 DEF Stands
    <3> QED BY <1>0, <3>1, <3>2
  <2> QED BY <2>2, <2>3 DEF OnTheWay
<1> QED BY <1>1, <1>2, <1>3

LEMMA OnTheWayEnds ==
    ASSUME NEW who \in Learners, NEW items \in Seq(ItemT),
           NEW row \in RowT \cup {NoRow}, NEW end \in RowT \cup {NoRow},
           LeftBy(items, who, Len(items) + 1, end),
           OnTheWay(items, who, Len(items) + 1, row, end)
    PROVE  row = end
<1> SUFFICES ASSUME row # end PROVE FALSE OBVIOUS
<1>0. \A i \in DOMAIN items : i \in Nat /\ i < Len(items) + 1 /\ items[i].at \in Int
  BY EachItem
<1>1. end = NoRow BY <1>0 DEF OnTheWay
<1>2. PICK i \in DOMAIN items : Stands(items, who, i, Len(items) + 1, row) BY <1>1 DEF OnTheWay
<1>3. Killed(items, i, Len(items) + 1) BY <1>1, <1>2, <1>0 DEF LeftBy, Stands
<1> QED BY <1>0, <1>2, <1>3 DEF Stands, Killed

-----------------------------------------------------------------------------
(* What holds of a transaction w, given the time, the committed rows and   *)
(* the marks that are known.                                               *)
MarksOf(items) == {[text |-> i.text, at |-> i.at] :
                      i \in {items[k] : k \in {j \in DOMAIN items : items[j].how = "mark"}}}

(* The mark it has locked: no older than the committed one, nor than any   *)
(* that it has brought, and the committed one itself when all are known.   *)
MarkOk(w, time, table, known) ==
    /\ w.who \in DOMAIN w.mine =>
          /\ w.mine[w.who] # NoRow /\ w.mine[w.who].owner = w.who
          /\ w.mine[w.who].at <= time
          /\ table[w.who] # NoRow => table[w.who].at <= w.mine[w.who].at
          /\ \/ w.mine[w.who] = table[w.who]
             \/ [text |-> w.mine[w.who].text, at |-> w.mine[w.who].at] \in MarksOf(w.items)
          /\ MarksOf(w.items) \subseteq known[w.who] => w.mine[w.who] = table[w.who]
    /\ \A j \in DOMAIN w.items : j < w.next /\ w.items[j].how = "mark" =>
          w.who \in DOMAIN w.mine /\ w.items[j].at <= w.mine[w.who].at

(* The note it has locked: another than the committed one only with the    *)
(* right to it, and, if the committed one is what these items left, on its *)
(* way back to it.                                                         *)
NoteOk(w, table) ==
    Note \in DOMAIN w.mine =>
        /\ \/ w.mine[Note] = table[Note]
           \/ table[Note] = NoRow
           \/ /\ table[Note].owner = w.who
              /\ w.batch # {} => \E i \in DOMAIN w.items :
                                    w.items[i].how # "mark" /\ w.items[i].at > table[Note].at
        /\ w.batch # {} /\ LeftBy(w.items, w.who, Len(w.items) + 1, table[Note]) =>
              OnTheWay(w.items, w.who, w.next, w.mine[Note], table[Note])

WorkOk(w, time, table, known) ==
    /\ w.next \in 1 .. (Len(w.items) + 1)
    /\ \A i \in DOMAIN w.items : w.items[i].at <= time
    /\ \A b \in w.batch : b.who = w.who
    /\ w.batch # {} => \A i \in DOMAIN w.items : w.items[i].how \in LateHows
    /\ DOMAIN w.mine \subseteq {w.who, Note}
    /\ MarkOk(w, time, table, known)
    /\ NoteOk(w, table)

(* The note is what the items so far make of some row. *)
AloneOk(w, table) ==
    LeftBy(w.items, w.who, w.next, IF Note \in DOMAIN w.mine THEN w.mine[Note] ELSE table[Note])

LearnerTypes ==
    /\ serverTime \in Nat /\ rows \in Table
    /\ \A u \in Learners : rows[u] # NoRow => rows[u].owner = u
    /\ desk \in [Requests -> Work \cup {NoRequest}]
    /\ said \in [Learners -> SUBSET [text : Wordings, at : Int]]

(* What a batch left behind, since it was last taken whole and alone. *)
AfterOk ==
    \A b \in DOMAIN after :
        /\ b \in Batches
        /\ LeftBy(b.items, b.who, Len(b.items) + 1, after[b][Note])
        /\ MarksOf(b.items) \subseteq said[b.who]

AtWork(q) == desk[q] # NoRequest

RowsApart ==
    \A p, q \in Requests : p # q /\ AtWork(p) /\ AtWork(q) =>
        DOMAIN desk[p].mine \cap DOMAIN desk[q].mine = {}

WorksOk ==
    \A q \in Requests : AtWork(q) =>
        /\ WorkOk(desk[q], serverTime, rows, said)
        /\ q \in alone /\ desk[q].batch # {} => AloneOk(desk[q], rows)

LearnerInv == LearnerTypes /\ RowsApart /\ AfterOk /\ NewestMarkStands /\ WorksOk

-----------------------------------------------------------------------------
LEMMA PartFacts ==
    /\ \A f \in Part : DOMAIN f \subseteq RowNames
                      /\ \A x \in DOMAIN f : f[x] \in RowT \cup {NoRow}
    /\ \A f \in Part, r \in RowNames, value \in RowT \cup {NoRow} :
          [x \in DOMAIN f \cup {r} |-> IF x = r THEN value ELSE f[x]] \in Part
    /\ <<>> \in Part /\ DOMAIN <<>> = {}
<1>1. ASSUME NEW f \in Part
      PROVE  DOMAIN f \subseteq RowNames /\ \A x \in DOMAIN f : f[x] \in RowT \cup {NoRow}
  <2>1. PICK names \in SUBSET RowNames : f \in [names -> RowT \cup {NoRow}] BY DEF Part
  <2> QED BY <2>1
<1>2. ASSUME NEW names \in SUBSET RowNames, NEW f \in [names -> RowT \cup {NoRow}]
      PROVE  f \in Part
  BY DEF Part
<1>3. ASSUME NEW f \in Part, NEW r \in RowNames, NEW value \in RowT \cup {NoRow}
      PROVE  [x \in DOMAIN f \cup {r} |-> IF x = r THEN value ELSE f[x]] \in Part
  <2>1. DOMAIN f \cup {r} \in SUBSET RowNames BY <1>1
  <2>2. [x \in DOMAIN f \cup {r} |-> IF x = r THEN value ELSE f[x]]
            \in [DOMAIN f \cup {r} -> RowT \cup {NoRow}]
    BY <1>1
  <2> QED BY <1>2, <2>1, <2>2
<1>4. <<>> \in [{} -> RowT \cup {NoRow}] /\ DOMAIN <<>> = {} OBVIOUS
<1> QED BY <1>1, <1>2, <1>3, <1>4

LEMMA MarksFacts ==
    ASSUME NEW items \in Seq(ItemT)
    PROVE  /\ \A j \in DOMAIN items : items[j].how = "mark" =>
                 [text |-> items[j].text, at |-> items[j].at] \in MarksOf(items)
           /\ \A s \in MarksOf(items) : \E j \in DOMAIN items :
                 items[j].how = "mark" /\ s = [text |-> items[j].text, at |-> items[j].at]
           /\ MarksOf(items) \subseteq [text : Wordings, at : Int]
<1>1. \A item \in ItemT : item.text \in Wordings /\ item.at \in Int BY DEF ItemT
<1>2. \A j \in DOMAIN items : items[j].text \in Wordings /\ items[j].at \in Int
  BY <1>1, EachItem
<1>3. \A s \in MarksOf(items) : \E j \in DOMAIN items :
         items[j].how = "mark" /\ s = [text |-> items[j].text, at |-> items[j].at]
  BY DEF MarksOf
<1>4. \A j \in DOMAIN items : items[j].how = "mark" =>
         [text |-> items[j].text, at |-> items[j].at] \in MarksOf(items)
  BY DEF MarksOf
<1> QED BY <1>2, <1>3, <1>4

LEMMA LeftByFirst ==
    ASSUME NEW who, NEW items \in Seq(ItemT), NEW row \in RowT \cup {NoRow}
    PROVE  LeftBy(items, who, 1, row)
<1>1. \A i \in DOMAIN items : i \in Nat /\ ~(i < 1) BY EachItem
<1>2. WroteIt(items, who, 1, 0, row) BY <1>1 DEF WroteIt
<1> QED BY <1>1, <1>2 DEF LeftBy

(* Time, commits of rows that it has not locked, and marks of others do    *)
(* not bother a transaction.                                               *)
LEMMA WorkStays ==
    ASSUME NEW w \in Work, NEW time \in Int, NEW table, NEW known,
           NEW later \in Int, NEW then, NEW spoke,
           WorkOk(w, time, table, known), time <= later,
           \A r \in DOMAIN w.mine : then[r] = table[r],
           w.who \in DOMAIN w.mine => spoke[w.who] = known[w.who]
    PROVE  WorkOk(w, later, then, spoke)
<1>0. /\ \A i \in DOMAIN w.items : w.items[i].at \in Int
      /\ \A x \in DOMAIN w.mine : w.mine[x] \in RowT \cup {NoRow}
      /\ \A row \in RowT : row.at \in Int
  BY EachItem, PartFacts DEF Work, RowT
<1>1. \A i \in DOMAIN w.items : w.items[i].at <= later BY <1>0 DEF WorkOk
<1>2. w.who \in DOMAIN w.mine => w.mine[w.who].at <= later BY <1>0 DEF WorkOk, MarkOk
<1>3. MarkOk(w, later, then, spoke) BY <1>2 DEF WorkOk, MarkOk
<1>4. NoteOk(w, then) BY DEF WorkOk, NoteOk
<1> QED BY <1>1, <1>3, <1>4 DEF WorkOk

(* What is known of a mark that is committed. *)
Newest(who, time, table, known) ==
    /\ table[who] = NoRow => known[who] = {}
    /\ table[who] # NoRow =>
          /\ table[who].owner = who /\ table[who].at <= time
          /\ \A s \in known[who] : s.at <= table[who].at

(* A transaction w goes on to v with an item on a row: it locks the row    *)
(* with what becomes of it, or finds that it does not match and leaves it. *)
GoesOn(w, v, item, row, seen) ==
    /\ v.who = w.who /\ v.items = w.items /\ v.batch = w.batch /\ v.next = w.next + 1
    /\ \/ /\ DOMAIN v.mine = DOMAIN w.mine \cup {row}
          /\ v.mine[row] = Outcome(w.who, item, seen)
          /\ \A x \in DOMAIN w.mine : x # row => v.mine[x] = w.mine[x]
       \/ /\ v.mine = w.mine /\ Outcome(w.who, item, seen) = seen
          /\ item.how \in {"patch", "delete", "erase"}

LEMMA MarkGoesOn ==
    ASSUME NEW w \in Work, NEW v \in Work, NEW time \in Int, NEW table \in Table,
           NEW known \in [Learners -> SUBSET [text : Wordings, at : Int]],
           WorkOk(w, time, table, known), w.next <= Len(w.items),
           NEW item, item = w.items[w.next],
           NEW row, row = RowOf(w.who, item),
           NEW seen, seen = IF row \in DOMAIN w.mine THEN w.mine[row] ELSE table[row],
           Newest(w.who, time, table, known), GoesOn(w, v, item, row, seen)
    PROVE  MarkOk(v, time, table, known)
<1> DEFINE u == w.who
<1>0. /\ u \in Learners /\ u # Note /\ u \in RowNames /\ w.items \in Seq(ItemT)
      /\ w.next \in DOMAIN w.items /\ w.next \in Nat
      /\ item \in ItemT /\ item.at \in Int /\ item.at <= time
      /\ table[u] \in RowT \cup {NoRow} /\ \A r \in RowT : r.at \in Int
      /\ \A x \in DOMAIN w.mine : w.mine[x] \in RowT \cup {NoRow}
      /\ \A j \in DOMAIN w.items : j \in Nat
  <2>1. /\ u \in Learners /\ w.items \in Seq(ItemT) /\ w.mine \in Part /\ w.next \in Nat
        /\ w.next \in 1 .. (Len(w.items) + 1)
    BY DEF Work, WorkOk
  <2>2. w.next \in DOMAIN w.items BY <2>1, EachItem
  <2>3. /\ item \in ItemT /\ item.at \in Int /\ \A j \in DOMAIN w.items : j \in Nat
    BY <2>1, <2>2, EachItem
  <2>4. item.at <= time BY <2>2 DEF WorkOk
  <2>5. u \in RowNames /\ u # Note BY <2>1, LearnerAssumption DEF RowNames
  <2>6. table[u] \in RowT \cup {NoRow} BY <2>5 DEF Table
  <2>7. \A r \in RowT : r.at \in Int BY DEF RowT
  <2> QED BY <2>1, <2>2, <2>3, <2>4, <2>5, <2>6, <2>7, PartFacts
<1>1. CASE item.how # "mark"
  <2>1. row = Note BY <1>1 DEF RowOf
  <2>2. u \in DOMAIN v.mine <=> u \in DOMAIN w.mine BY <1>0, <2>1 DEF GoesOn
  <2>3. u \in DOMAIN w.mine => v.mine[u] = w.mine[u] BY <1>0, <2>1 DEF GoesOn
  <2>4. \A j \in DOMAIN w.items : j < w.next + 1 /\ w.items[j].how = "mark" => j < w.next
    BY <1>0, <1>1
  <2>5. v.who = u /\ v.items = w.items /\ v.next = w.next + 1 BY DEF GoesOn
  <2> QED BY <2>2, <2>3, <2>4, <2>5 DEF MarkOk, WorkOk
<1>2. CASE item.how = "mark"
  <2>1. row = u BY <1>2 DEF RowOf
  <2>2. /\ v.who = u /\ v.items = w.items /\ v.next = w.next + 1
        /\ u \in DOMAIN v.mine /\ v.mine[u] = Outcome(u, item, seen)
    BY <1>2, <2>1 DEF GoesOn
  <2>3. MarkOk(w, time, table, known) BY DEF WorkOk
  <2>4. seen \in RowT \cup {NoRow} BY <1>0, <2>1
  <2>5. seen # NoRow => seen.owner = u /\ seen.at <= time /\ seen.at \in Int
    <3>1. CASE u \in DOMAIN w.mine BY <1>0, <2>1, <2>3, <3>1 DEF MarkOk
    <3>2. CASE u \notin DOMAIN w.mine BY <1>0, <2>1, <3>2 DEF Newest
    <3> QED BY <3>1, <3>2
  <2>6. table[u] # NoRow => seen # NoRow /\ table[u].at <= seen.at
    <3>1. CASE u \in DOMAIN w.mine BY <2>1, <2>3, <3>1 DEF MarkOk
    <3>2. CASE u \notin DOMAIN w.mine BY <1>0, <2>1, <3>2
    <3> QED BY <3>1, <3>2
  <2>7. Applies(u, item, seen) <=> seen = NoRow \/ item.at > seen.at
    BY <1>2, <2>5 DEF Applies, Owns
  <2>8. [text |-> item.text, at |-> item.at] \in MarksOf(w.items) BY <1>0, <1>2, MarksFacts
  <2>9. MarksOf(w.items) \subseteq known[u] =>
            /\ seen = table[u] /\ table[u] # NoRow /\ item.at <= table[u].at
    <3> SUFFICES ASSUME MarksOf(w.items) \subseteq known[u]
        PROVE  seen = table[u] /\ table[u] # NoRow /\ item.at <= table[u].at
        OBVIOUS
    <3>1. [text |-> item.text, at |-> item.at] \in known[u] BY <2>8
    <3>2. table[u] # NoRow BY <3>1 DEF Newest
    <3>3. [text |-> item.text, at |-> item.at].at <= table[u].at BY <3>1, <3>2 DEF Newest
    <3>4. seen = table[u] BY <2>1, <2>3 DEF MarkOk
    <3> QED BY <3>2, <3>3, <3>4
  <2>10. \A j \in DOMAIN w.items : j < w.next /\ w.items[j].how = "mark" =>
            seen # NoRow /\ w.items[j].at <= seen.at
    BY <2>1, <2>3 DEF MarkOk
  <2>11. \A j \in DOMAIN w.items : w.items[j].at \in Int BY <1>0, EachItem
  <2>12. CASE Applies(u, item, seen)
    <3> DEFINE new == v.mine[u]
    <3>1. /\ new = [owner |-> u, text |-> item.text, at |-> item.at]
          /\ new # NoRow /\ new.owner = u /\ new.at = item.at /\ new.text = item.text
      <4>1. new = Written(u, item) BY <2>2, <2>12 DEF Outcome
      <4>2. new # NoRow BY <1>0, <1>2, <4>1, RowsDiffer
      <4> QED BY <1>2, <4>1, <4>2 DEF Written
    <3>0. /\ seen # NoRow => item.at > seen.at /\ seen.at \in Int
          /\ table[u] # NoRow => table[u].at \in Int
          /\ item.at \in Int
      <4>1. table[u] # NoRow => table[u].at \in Int BY <1>0
      <4> QED BY <1>0, <2>5, <2>7, <2>12, <4>1
    <3>2. table[u] # NoRow => table[u].at <= new.at
      BY <2>6, <3>0, <3>1
    <3>3. ~(MarksOf(w.items) \subseteq known[u])
      BY <2>9, <3>0
    <3>4. \A j \in DOMAIN w.items : j < w.next + 1 /\ w.items[j].how = "mark" =>
             w.items[j].at <= new.at
      <4> SUFFICES ASSUME NEW j \in DOMAIN w.items, j < w.next + 1, w.items[j].how = "mark"
          PROVE  w.items[j].at <= item.at
          BY <3>1
      <4>1. CASE j = w.next BY <1>0, <4>1
      <4>2. CASE j < w.next
        <5>1. seen # NoRow /\ w.items[j].at <= seen.at /\ w.items[j].at \in Int
          BY <2>10, <2>11, <4>2
        <5> QED BY <3>0, <5>1
      <4> QED BY <1>0, <4>1, <4>2
    <3> HIDE DEF new
    <3>5. [text |-> new.text, at |-> new.at] \in MarksOf(w.items) BY <2>8, <3>1
    <3> QED BY <1>0, <2>2, <3>1, <3>2, <3>3, <3>4, <3>5 DEF MarkOk, new
  <2>13. CASE ~Applies(u, item, seen)
    <3>1. v.mine[u] = seen /\ seen # NoRow /\ item.at <= seen.at
      BY <1>0, <2>2, <2>5, <2>7, <2>13 DEF Outcome
    <3>2. seen = table[u] \/ [text |-> seen.text, at |-> seen.at] \in MarksOf(w.items)
      BY <2>1, <2>3 DEF MarkOk
    <3>3. \A j \in DOMAIN w.items : j < w.next + 1 /\ w.items[j].how = "mark" =>
             w.items[j].at <= seen.at
      <4> SUFFICES ASSUME NEW j \in DOMAIN w.items, j < w.next + 1, w.items[j].how = "mark"
          PROVE  w.items[j].at <= seen.at
          OBVIOUS
      <4>1. CASE j = w.next BY <3>1, <4>1
      <4>2. CASE j < w.next BY <2>10, <4>2
      <4> QED BY <1>0, <4>1, <4>2
    <3> QED BY <2>2, <2>5, <2>6, <2>9, <3>1, <3>2, <3>3 DEF MarkOk
  <2> QED BY <2>12, <2>13
<1> QED BY <1>1, <1>2

LEMMA NoteGoesOn ==
    ASSUME NEW w \in Work, NEW v \in Work, NEW time \in Int, NEW table \in Table, NEW known,
           WorkOk(w, time, table, known), w.next <= Len(w.items),
           NEW item, item = w.items[w.next],
           NEW row, row = RowOf(w.who, item),
           NEW seen, seen = IF row \in DOMAIN w.mine THEN w.mine[row] ELSE table[row],
           GoesOn(w, v, item, row, seen)
    PROVE  /\ NoteOk(v, table)
           /\ w.batch # {} /\ AloneOk(w, table) => AloneOk(v, table)
<1> DEFINE u == w.who
           n == w.next
           end == table[Note]
<1>0. /\ u \in Learners /\ u # Note /\ w.items \in Seq(ItemT)
      /\ n \in DOMAIN w.items /\ n \in Nat
      /\ item \in ItemT /\ item.at \in Int
      /\ end \in RowT \cup {NoRow} /\ \A r \in RowT : r.at \in Int
      /\ \A x \in DOMAIN w.mine : w.mine[x] \in RowT \cup {NoRow}
      /\ w.batch # {} => \A i \in DOMAIN w.items : w.items[i].how \in LateHows
  <2>1. /\ u \in Learners /\ w.items \in Seq(ItemT) /\ w.mine \in Part /\ w.next \in Nat
        /\ w.next \in 1 .. (Len(w.items) + 1)
    BY DEF Work, WorkOk
  <2>2. w.next \in DOMAIN w.items BY <2>1, EachItem
  <2>3. item \in ItemT /\ item.at \in Int BY <2>1, <2>2, EachItem
  <2>4. u # Note /\ Note \in RowNames BY <2>1, LearnerAssumption DEF RowNames
  <2>5. end \in RowT \cup {NoRow} BY <2>4 DEF Table
  <2>6. \A r \in RowT : r.at \in Int BY DEF RowT
  <2> QED BY <2>1, <2>2, <2>3, <2>4, <2>5, <2>6, PartFacts DEF WorkOk
<1>1. v.who = u /\ v.items = w.items /\ v.batch = w.batch /\ v.next = n + 1 BY DEF GoesOn
<1>2. CASE item.how = "mark"
  <2>1. row = u BY <1>2 DEF RowOf
  <2>2. /\ Note \in DOMAIN v.mine <=> Note \in DOMAIN w.mine
        /\ Note \in DOMAIN w.mine => v.mine[Note] = w.mine[Note]
    BY <1>0, <1>2, <2>1 DEF GoesOn
  <2>3. ASSUME w.batch # {}, NEW r \in RowT \cup {NoRow}, LeftBy(w.items, u, n, r)
        PROVE  LeftBy(w.items, u, n + 1, r)
    BY <1>0, <1>2, <2>3, LeftByNext
  <2>4. ASSUME w.batch # {}, NEW r \in RowT \cup {NoRow},
               LeftBy(w.items, u, Len(w.items) + 1, end), OnTheWay(w.items, u, n, r, end)
        PROVE  OnTheWay(w.items, u, n + 1, r, end)
    BY <1>0, <1>2, <2>4, OnTheWayNext
  <2>5. NoteOk(v, table)
    <3> SUFFICES ASSUME Note \in DOMAIN v.mine PROVE NoteOk(v, table) BY DEF NoteOk
    <3>1. v.mine[Note] = w.mine[Note] /\ w.mine[Note] \in RowT \cup {NoRow} /\ NoteOk(w, table)
      BY <1>0, <2>2 DEF WorkOk
    <3> QED BY <1>1, <2>2, <2>4, <3>1 DEF NoteOk
  <2>6. ASSUME w.batch # {}, AloneOk(w, table) PROVE AloneOk(v, table)
    BY <1>0, <1>1, <2>2, <2>3, <2>6 DEF AloneOk
  <2> QED BY <2>5, <2>6
<1>3. CASE item.how # "mark"
  <2> DEFINE out == Outcome(u, item, seen)
  <2>1. row = Note BY <1>3 DEF RowOf
  <2>2. seen \in RowT \cup {NoRow} BY <1>0, <2>1
  <2>3. /\ Note \in DOMAIN w.mine => Note \in DOMAIN v.mine
        /\ Note \in DOMAIN v.mine => v.mine[Note] = out
        /\ Note \notin DOMAIN v.mine => out = seen /\ seen = end
    BY <1>0, <2>1 DEF GoesOn
  <2> HIDE DEF out
  <2>4. seen = IF Note \in DOMAIN w.mine THEN w.mine[Note] ELSE end BY <2>1
  <2>5. ASSUME w.batch # {}, LeftBy(w.items, u, n, seen) PROVE LeftBy(w.items, u, n + 1, out)
    BY <1>0, <1>3, <2>2, <2>5, LeftByNext DEF out
  <2>6. ASSUME w.batch # {}, LeftBy(w.items, u, Len(w.items) + 1, end),
               OnTheWay(w.items, u, n, seen, end)
        PROVE  OnTheWay(w.items, u, n + 1, out, end)
    BY <1>0, <1>3, <2>2, <2>6, OnTheWayNext DEF out
  <2>7. ASSUME w.batch # {}, AloneOk(w, table) PROVE AloneOk(v, table)
    <3>1. LeftBy(w.items, u, n, seen) BY <2>4, <2>7 DEF AloneOk
    <3>2. LeftBy(w.items, u, n + 1, out) BY <2>5, <2>7, <3>1
    <3> QED BY <1>1, <2>3, <3>2 DEF AloneOk
  <2>8. ASSUME Note \in DOMAIN v.mine PROVE NoteOk(v, table)
    <3>1. ASSUME w.batch # {}, LeftBy(w.items, u, Len(w.items) + 1, end)
          PROVE  OnTheWay(w.items, u, n + 1, out, end)
      <4>1. OnTheWay(w.items, u, n, seen, end)
        <5>1. CASE Note \in DOMAIN w.mine BY <2>4, <3>1, <5>1 DEF WorkOk, NoteOk
        <5>2. CASE Note \notin DOMAIN w.mine BY <2>4, <5>2 DEF OnTheWay
        <5> QED BY <5>1, <5>2
      <4> QED BY <2>6, <3>1, <4>1
    <3>2. \/ out = end
          \/ end = NoRow
          \/ /\ end.owner = u
             /\ w.batch # {} => \E i \in DOMAIN w.items :
                                   w.items[i].how # "mark" /\ w.items[i].at > end.at
      <4>1. CASE seen = end
        <5>1. CASE w.batch # {}
          <6>1. item.how \in LateHows \ {"mark"} BY <1>0, <1>3, <5>1
          <6> QED BY <1>0, <1>3, <2>2, <4>1, <6>1, LateItem DEF out
        <5>2. CASE w.batch = {}
          <6>1. Applies(u, item, end) => end = NoRow \/ end.owner = u
            <7>1. item.how \in Hows BY <1>0 DEF ItemT
            <7> QED BY <7>1 DEF Applies, Owns, Hows
          <6> QED BY <4>1, <5>2, <6>1 DEF out, Outcome
        <5> QED BY <5>1, <5>2
      <4>2. CASE seen # end BY <2>4, <4>2 DEF WorkOk, NoteOk
      <4> QED BY <4>1, <4>2
    <3> QED BY <1>1, <2>3, <2>8, <3>1, <3>2 DEF NoteOk
  <2>9. NoteOk(v, table) BY <2>8 DEF NoteOk
  <2> QED BY <2>7, <2>9
<1> QED BY <1>2, <1>3

-----------------------------------------------------------------------------
(* The actions.                                                            *)
LEMMA InitLearns == InitLearner => LearnerInv
<1> SUFFICES ASSUME InitLearner PROVE LearnerInv OBVIOUS
<1>1. /\ serverTime \in Nat /\ \A r \in RowNames : rows[r] = NoRow
      /\ \A q \in Requests : ~AtWork(q)
      /\ \A u \in Learners : said[u] = {}
  BY DEF InitLearner, AtWork
<1>2. rows \in Table BY DEF InitLearner, Table
<1>3. DOMAIN after = {} BY DEF InitLearner
<1>4. LearnerTypes BY <1>1, <1>2 DEF InitLearner, LearnerTypes, RowNames
<1>5. NewestMarkStands BY <1>1 DEF NewestMarkStands, RowNames
<1> QED BY <1>1, <1>3, <1>4, <1>5 DEF LearnerInv, RowsApart, WorksOk, AfterOk

(* One transaction becomes another, or ends; the tables stay. *)
LEMMA DeskKeeps ==
    ASSUME NEW q \in Requests, NEW w, LearnerInv,
           UNCHANGED <<serverTime, rows, said, after>>, alone' \subseteq alone \cup {q},
           desk' = [desk EXCEPT ![q] = w],
           \/ w = NoRequest
           \/ /\ w \in Work /\ WorkOk(w, serverTime, rows, said)
              /\ q \in alone' /\ w.batch # {} => AloneOk(w, rows)
              /\ \A p \in Requests \ {q} : AtWork(p) => DOMAIN desk[p].mine \cap DOMAIN w.mine = {}
    PROVE  LearnerInv'
<1>1. /\ desk' \in [Requests -> Work \cup {NoRequest}] /\ desk'[q] = w
      /\ \A p \in Requests \ {q} : desk'[p] = desk[p]
  BY DEF LearnerInv, LearnerTypes
<1>2. LearnerTypes' /\ AfterOk' /\ NewestMarkStands'
  BY <1>1 DEF LearnerInv, LearnerTypes, AfterOk, NewestMarkStands
<1>3. RowsApart' BY <1>1 DEF LearnerInv, RowsApart, AtWork
<1>4. WorksOk' BY <1>1 DEF LearnerInv, WorksOk, AtWork
<1> QED BY <1>2, <1>3, <1>4 DEF LearnerInv

LEMMA ReceiveKeeps ==
    ASSUME NEW q \in Requests, LearnerInv,
           \/ Push(q) \/ PutProgress(q)
           \/ CreateAnnotation(q) \/ PatchAnnotation(q) \/ DeleteAnnotation(q)
    PROVE  LearnerInv'
<1>0. serverTime \in Int /\ rows[Note] \in RowT \cup {NoRow}
  BY DEF LearnerInv, LearnerTypes, Table, RowNames
<1>1. ASSUME NEW who \in Learners, NEW items \in Seq(ItemT), NEW batch \in SUBSET Batches,
             \A i \in DOMAIN items : items[i].at <= serverTime,
             \A b \in batch : b.who = who,
             batch # {} => \A i \in DOMAIN items : items[i].how \in LateHows,
             Receive(q, who, items, batch)
      PROVE  LearnerInv'
  <2> DEFINE w == [who |-> who, items |-> items, batch |-> batch, next |-> 1, mine |-> <<>>]
  <2>1. /\ w \in Work /\ w.who = who /\ w.items = items /\ w.batch = batch /\ w.next = 1
        /\ DOMAIN w.mine = {}
    BY PartFacts DEF Work
  <2>2. /\ UNCHANGED <<serverTime, rows, said, after>> /\ alone' = alone \cup {q}
        /\ desk' = [desk EXCEPT ![q] = w]
    BY <1>1 DEF Receive
  <2> HIDE DEF w
  <2>3. \A j \in DOMAIN items : ~(j < 1) BY EachItem
  <2>4. 1 \in 1 .. (Len(items) + 1) BY EachItem
  <2>5. WorkOk(w, serverTime, rows, said) BY <1>1, <2>1, <2>3, <2>4 DEF WorkOk, MarkOk, NoteOk
  <2>6. AloneOk(w, rows) BY <1>0, <2>1, LeftByFirst DEF AloneOk
  <2> QED BY <2>1, <2>2, <2>5, <2>6, DeskKeeps
<1>2. CASE Push(q)
  <2>1. PICK b \in Batches :
            Receive(q, b.who, [i \in DOMAIN b.items |->
                                  [b.items[i] EXCEPT !.at = ClampFuture(b.items[i].at)]], {b})
    BY <1>2 DEF Push
  <2> DEFINE items == [i \in DOMAIN b.items |->
                          [b.items[i] EXCEPT !.at = ClampFuture(b.items[i].at)]]
             Queued == [how : LateHows, text : Wordings, at : Int]
  <2>2. b.who \in Learners /\ b.items \in Seq(Queued) BY LearnerAssumption DEF LateHows
  <2>3. \A t \in Int : ClampFuture(t) \in Int /\ ClampFuture(t) <= serverTime
    BY <1>0 DEF ClampFuture
  <2>4. \A item \in Queued, t \in Int :
            /\ [item EXCEPT !.at = t] \in ItemT /\ [item EXCEPT !.at = t].at = t
            /\ [item EXCEPT !.at = t].how \in LateHows
    BY DEF ItemT, Hows, LateHows
  <2>10. \A item \in Queued : item.at \in Int OBVIOUS
  <2> HIDE DEF Queued
  <2>5. Len(b.items) \in Nat /\ DOMAIN b.items = 1 .. Len(b.items)
        /\ \A i \in DOMAIN b.items : b.items[i] \in Queued
    BY <2>2
  <2>6. \A i \in DOMAIN b.items :
            /\ items[i] \in ItemT /\ items[i].at <= serverTime /\ items[i].how \in LateHows
    <3> SUFFICES ASSUME NEW i \in DOMAIN b.items
        PROVE  items[i] \in ItemT /\ items[i].at <= serverTime /\ items[i].how \in LateHows
        OBVIOUS
    <3>1. b.items[i] \in Queued /\ b.items[i].at \in Int BY <2>5, <2>10
    <3>2. ClampFuture(b.items[i].at) \in Int /\ ClampFuture(b.items[i].at) <= serverTime
      BY <2>3, <3>1
    <3>3. items[i] = [b.items[i] EXCEPT !.at = ClampFuture(b.items[i].at)] OBVIOUS
    <3> HIDE DEF items
    <3> QED BY <2>4, <3>1, <3>2, <3>3
  <2>7. DOMAIN items = DOMAIN b.items OBVIOUS
  <2>8. items \in Seq(ItemT)
    <3>1. items = [i \in 1 .. Len(b.items) |-> items[i]] BY <2>5
    <3> HIDE DEF items
    <3>2. \A i \in 1 .. Len(b.items) : items[i] \in ItemT BY <2>5, <2>6
    <3>3. items \in [1 .. Len(b.items) -> ItemT] BY <3>1, <3>2
    <3> QED BY <2>5, <3>3
  <2> HIDE DEF items
  <2>9. Receive(q, b.who, items, {b}) BY <2>1 DEF items
  <2> QED BY <1>1, <2>2, <2>6, <2>7, <2>8, <2>9
<1>3. ASSUME NEW how \in Hows, Call(q, how) PROVE LearnerInv'
  <2>1. PICK u \in Learners, t \in Texts :
            Receive(q, u, <<[how |-> how, text |-> t, at |-> serverTime]>>, {})
    BY <1>3 DEF Call
  <2> DEFINE item == [how |-> how, text |-> t, at |-> serverTime]
  <2>2. item \in ItemT /\ item.at = serverTime BY <1>0 DEF ItemT, Wordings
  <2>3. Receive(q, u, <<item>>, {}) BY <2>1
  <2> HIDE DEF item
  <2> DEFINE items == <<item>>
  <2>4. items \in Seq(ItemT) /\ \A i \in DOMAIN items : items[i].at <= serverTime
    BY <1>0, <2>2
  <2>5. Receive(q, u, items, {}) BY <2>3
  <2> HIDE DEF items
  <2> QED BY <1>1, <2>4, <2>5
<1> QED
  BY <1>2, <1>3
  DEF PutProgress, CreateAnnotation, PatchAnnotation, DeleteAnnotation, Hows

(* What a statement does to its transaction. *)
LEMMA ApplyDoes ==
    ASSUME NEW q \in Requests, LearnerInv, Apply(q), ~Close(q)
    PROVE  \E v \in Work :
              /\ desk' = [desk EXCEPT ![q] = v]
              /\ GoesOn(desk[q], v, Item(q), Row(q), Seen(q))
              /\ \A p \in Requests \ {q} : AtWork(p) =>
                    DOMAIN desk[p].mine \cap DOMAIN v.mine = {}
<1> DEFINE w == desk[q]
           r == Row(q)
           out == Outcome(w.who, Item(q), Seen(q))
<1>1. /\ AtWork(q) /\ w \in Work /\ w.next <= Len(w.items) /\ ~Waits(q)
      /\ WorkOk(w, serverTime, rows, said)
  BY DEF Apply, Working, AtWork, LearnerInv, LearnerTypes, WorksOk
<1>2. /\ w.who \in Learners /\ w.items \in Seq(ItemT) /\ w.next \in Nat /\ w.mine \in Part
      /\ w.next \in DOMAIN w.items
  <2>1. w.who \in Learners /\ w.items \in Seq(ItemT) /\ w.next \in Nat /\ w.mine \in Part
    BY <1>1 DEF Work
  <2>2. w.next \in 1 .. (Len(w.items) + 1) BY <1>1 DEF WorkOk
  <2> QED BY <1>1, <2>1, <2>2, EachItem
<1>3. Item(q) \in ItemT BY <1>2, EachItem DEF Item
<1>4. r \in RowNames BY <1>2 DEF Row, RowOf, RowNames
<1>5. Seen(q) \in RowT \cup {NoRow}
  <2>1. rows[r] \in RowT \cup {NoRow} BY <1>4 DEF LearnerInv, LearnerTypes, Table
  <2> QED BY <1>2, <2>1, PartFacts DEF Seen
<1>6. out \in RowT \cup {NoRow} BY <1>2, <1>3, <1>5, RowsDiffer DEF Outcome
<1>7. \A p \in Requests \ {q} : AtWork(p) => DOMAIN desk[p].mine \cap DOMAIN w.mine = {}
  BY <1>1 DEF LearnerInv, RowsApart
<1>8. Applies(w.who, Item(q), Seen(q)) \/ Inserts(Item(q)) =>
          \A p \in Requests \ {q} : AtWork(p) => r \notin DOMAIN desk[p].mine
  <2>1. CASE r \in DOMAIN w.mine BY <1>7, <2>1
  <2>2. CASE r \notin DOMAIN w.mine
    <3>1. Seen(q) = rows[r] BY <2>2 DEF Seen
    <3> QED BY <1>1, <3>1 DEF Waits, AtWork
  <2> QED BY <2>1, <2>2
<1>9. ASSUME Takes(q, out),
             \A p \in Requests \ {q} : AtWork(p) => r \notin DOMAIN desk[p].mine
      PROVE  \E v \in Work :
              /\ desk' = [desk EXCEPT ![q] = v]
              /\ GoesOn(desk[q], v, Item(q), Row(q), Seen(q))
              /\ \A p \in Requests \ {q} : AtWork(p) =>
                    DOMAIN desk[p].mine \cap DOMAIN v.mine = {}
  <2> DEFINE mine == [x \in DOMAIN w.mine \cup {r} |-> IF x = r THEN out ELSE w.mine[x]]
             v == [w EXCEPT !.next = w.next + 1, !.mine = mine]
  <2>1. mine \in Part BY <1>2, <1>4, <1>6, PartFacts
  <2>2. /\ DOMAIN mine = DOMAIN w.mine \cup {r} /\ mine[r] = out
        /\ \A x \in DOMAIN w.mine : x # r => mine[x] = w.mine[x]
    OBVIOUS
  <2>3. desk' = [desk EXCEPT ![q] = v]
    BY <1>9, <1>1 DEF Takes, LearnerInv, LearnerTypes, Work
  <2> HIDE DEF mine
  <2>4. /\ v \in Work /\ v.who = w.who /\ v.items = w.items /\ v.batch = w.batch
        /\ v.next = w.next + 1 /\ v.mine = mine
    <3> DEFINE k == w.next + 1
    <3>2. k \in Nat /\ v = [w EXCEPT !.next = k, !.mine = mine] BY <1>2
    <3>3. v.next = k => v.next = w.next + 1 OBVIOUS
    <3>4. w \in Work BY <1>1
    <3> HIDE DEF w, v, k
    <3>5. v \in Work BY <2>1, <3>2, <3>4 DEF Work
    <3>6. /\ v.who = w.who /\ v.items = w.items /\ v.batch = w.batch
          /\ v.next = k /\ v.mine = mine
      BY <3>2, <3>4 DEF Work
    <3> QED BY <3>3, <3>5, <3>6
  <2> HIDE DEF v
  <2>5. GoesOn(w, v, Item(q), r, Seen(q)) BY <2>2, <2>4 DEF GoesOn
  <2>6. \A p \in Requests \ {q} : AtWork(p) => DOMAIN desk[p].mine \cap DOMAIN v.mine = {}
    BY <1>7, <1>9, <2>2, <2>4
  <2> QED BY <2>3, <2>4, <2>5, <2>6
<1>10. CASE Applies(w.who, Item(q), Seen(q))
  <2>1. out = Written(w.who, Item(q)) BY <1>10 DEF Outcome
  <2>2. Takes(q, out) BY <1>10, <2>1 DEF Apply
  <2> QED BY <1>8, <1>9, <1>10, <2>2
<1>11. CASE ~Applies(w.who, Item(q), Seen(q)) /\ Inserts(Item(q))
  <2>1. out = Seen(q) BY <1>11 DEF Outcome
  <2>2. Takes(q, out) BY <1>11, <2>1 DEF Apply
  <2> QED BY <1>8, <1>9, <1>11, <2>2
<1>12. CASE ~Applies(w.who, Item(q), Seen(q)) /\ ~Inserts(Item(q))
  <2> DEFINE v == [who |-> w.who, items |-> w.items, batch |-> w.batch, next |-> w.next + 1,
                   mine |-> w.mine]
  <2>1. Item(q).how \in {"patch", "delete", "erase"}
    BY <1>3, <1>12 DEF Inserts, ItemT, Hows
  <2>2. desk' = [desk EXCEPT ![q] = [w EXCEPT !.next = w.next + 1]]
    BY <1>1, <1>12, <2>1 DEF Apply, LearnerInv, LearnerTypes, Work
  <2>3. [w EXCEPT !.next = w.next + 1] = v BY <1>1 DEF Work
  <2>4. v \in Work BY <1>1, <1>2 DEF Work
  <2>5. out = Seen(q) BY <1>12 DEF Outcome
  <2>6. GoesOn(w, v, Item(q), r, Seen(q)) BY <2>1, <2>5 DEF GoesOn
  <2>7. \A p \in Requests \ {q} : AtWork(p) => DOMAIN desk[p].mine \cap DOMAIN v.mine = {}
    BY <1>7
  <2> HIDE DEF v
  <2> QED BY <2>2, <2>3, <2>4, <2>6, <2>7
<1> QED BY <1>10, <1>11, <1>12

LEMMA ApplyKeeps == ASSUME NEW q \in Requests, LearnerInv, Apply(q) PROVE LearnerInv'
<1>0. UNCHANGED <<serverTime, rows, said, alone, after>> BY DEF Apply
<1>1. CASE Close(q) BY <1>0, <1>1, DeskKeeps DEF Close
<1>2. CASE ~Close(q)
  <2> DEFINE w == desk[q]
  <2>1. PICK v \in Work :
            /\ desk' = [desk EXCEPT ![q] = v]
            /\ GoesOn(w, v, Item(q), Row(q), Seen(q))
            /\ \A p \in Requests \ {q} : AtWork(p) => DOMAIN desk[p].mine \cap DOMAIN v.mine = {}
    BY <1>2, ApplyDoes
  <2>2. /\ w \in Work /\ w.next <= Len(w.items) /\ WorkOk(w, serverTime, rows, said)
        /\ q \in alone /\ w.batch # {} => AloneOk(w, rows)
    BY DEF Apply, Working, AtWork, LearnerInv, LearnerTypes, WorksOk
  <2>3. /\ serverTime \in Int /\ rows \in Table
        /\ said \in [Learners -> SUBSET [text : Wordings, at : Int]] /\ w.who \in Learners
    BY <2>2 DEF LearnerInv, LearnerTypes, Work
  <2>4. Newest(w.who, serverTime, rows, said)
    BY <2>3 DEF Newest, LearnerInv, LearnerTypes, NewestMarkStands
  <2>5. /\ Item(q) = w.items[w.next] /\ Row(q) = RowOf(w.who, Item(q))
        /\ Seen(q) = IF Row(q) \in DOMAIN w.mine THEN w.mine[Row(q)] ELSE rows[Row(q)]
    BY DEF Item, Row, Seen
  <2> HIDE DEF w
  <2>6. MarkOk(v, serverTime, rows, said) BY <2>1, <2>2, <2>3, <2>4, <2>5, MarkGoesOn
  <2>7. NoteOk(v, rows) /\ (w.batch # {} /\ AloneOk(w, rows) => AloneOk(v, rows))
    BY <2>1, <2>2, <2>3, <2>5, NoteGoesOn
  <2>8. v.who = w.who /\ v.items = w.items /\ v.batch = w.batch /\ v.next = w.next + 1
    BY <2>1 DEF GoesOn
  <2>9. v.next \in 1 .. (Len(v.items) + 1)
    <3>1. w.next \in Nat /\ w.items \in Seq(ItemT) BY <2>2 DEF Work
    <3> QED BY <2>2, <2>8, <3>1, EachItem
  <2>10. DOMAIN v.mine \subseteq {v.who, Note}
    <3>1. DOMAIN w.mine \subseteq {w.who, Note} BY <2>2 DEF WorkOk
    <3>2. Row(q) \in {w.who, Note} BY <2>5 DEF RowOf
    <3> QED BY <2>1, <2>8, <3>1, <3>2 DEF GoesOn
  <2>11. WorkOk(v, serverTime, rows, said)
    BY <2>2, <2>6, <2>7, <2>8, <2>9, <2>10 DEF WorkOk
  <2> QED BY <1>0, <2>1, <2>2, <2>7, <2>8, <2>11, DeskKeeps
<1> QED BY <1>1, <1>2

LEMMA AbortOrTimeKeeps ==
    ASSUME LearnerInv, (\E q \in Requests : Abort(q)) \/ Passes PROVE LearnerInv'
<1>1. ASSUME NEW q \in Requests, Abort(q) PROVE LearnerInv'
  BY <1>1, DeskKeeps DEF Abort, Close
<1>2. CASE Passes
  <2>1. /\ serverTime' = serverTime + 1 /\ UNCHANGED <<rows, desk, said, alone, after>>
        /\ serverTime \in Nat /\ \A u \in Learners : rows[u] \in RowT \cup {NoRow}
    BY <1>2 DEF Passes, LearnerInv, LearnerTypes, Table, RowNames
  <2>2. LearnerTypes' BY <2>1 DEF LearnerInv, LearnerTypes
  <2>5. RowsApart' BY <2>1 DEF LearnerInv, RowsApart, AtWork
  <2>6. AfterOk' BY <2>1 DEF LearnerInv, AfterOk
  <2>3. NewestMarkStands'
    <3>1. \A u \in Learners : rows[u] # NoRow => rows[u].at \in Int BY <2>1 DEF RowT
    <3> QED BY <2>1, <3>1 DEF LearnerInv, NewestMarkStands
  <2>4. WorksOk'
    <3> SUFFICES ASSUME NEW q \in Requests, AtWork(q)
        PROVE  WorkOk(desk[q], serverTime + 1, rows, said)
        BY <2>1 DEF LearnerInv, WorksOk, AtWork
    <3>1. desk[q] \in Work /\ WorkOk(desk[q], serverTime, rows, said)
      BY DEF LearnerInv, LearnerTypes, WorksOk, AtWork
    <3>2. serverTime \in Int /\ serverTime + 1 \in Int /\ serverTime <= serverTime + 1
      BY <2>1
    <3> QED BY <3>1, <3>2, WorkStays
  <2> QED BY <2>2, <2>3, <2>4, <2>5, <2>6 DEF LearnerInv
<1> QED BY <1>1, <1>2

-----------------------------------------------------------------------------
(* Commit: what a transaction leaves in the tables.                        *)
LEMMA CommitDoes ==
    ASSUME NEW q \in Requests, LearnerInv, Commit(q)
    PROVE  LET w == desk[q]
           IN  /\ w \in Work /\ w.who \in Learners /\ w.items \in Seq(ItemT)
               /\ WorkOk(w, serverTime, rows, said) /\ w.next = Len(w.items) + 1
               /\ q \in alone /\ w.batch # {} => AloneOk(w, rows)
               /\ \A r \in RowNames : rows'[r] = IF r \in DOMAIN w.mine THEN w.mine[r] ELSE rows[r]
               /\ rows' \in Table
               /\ \A u \in Learners : said'[u] = IF u = w.who THEN said[u] \cup MarksOf(w.items)
                                                  ELSE said[u]
               /\ said' \in [Learners -> SUBSET [text : Wordings, at : Int]]
               /\ w.who \notin DOMAIN w.mine => MarksOf(w.items) = {}
<1> DEFINE w == desk[q]
<1>1. /\ w \in Work /\ WorkOk(w, serverTime, rows, said) /\ ~(w.next <= Len(w.items))
      /\ q \in alone /\ w.batch # {} => AloneOk(w, rows)
  BY DEF Commit, Working, AtWork, LearnerInv, LearnerTypes, WorksOk
<1>2. w.who \in Learners /\ w.items \in Seq(ItemT) /\ w.mine \in Part /\ w.next \in Nat
  BY <1>1 DEF Work
<1>3. w.next = Len(w.items) + 1
  <2>1. w.next \in 1 .. (Len(w.items) + 1) /\ Len(w.items) \in Nat BY <1>1, <1>2, EachItem DEF WorkOk
  <2> QED BY <1>1, <1>2, <2>1
<1>4. \A r \in RowNames : rows'[r] = IF r \in DOMAIN w.mine THEN w.mine[r] ELSE rows[r]
  BY DEF Commit
<1>5. rows' \in Table
  <2>1. \A r \in RowNames : rows[r] \in RowT \cup {NoRow}
    BY DEF LearnerInv, LearnerTypes, Table
  <2>2. rows' = [r \in RowNames |-> IF r \in DOMAIN w.mine THEN w.mine[r] ELSE rows[r]]
    BY DEF Commit
  <2> QED BY <1>2, <2>1, <2>2, PartFacts DEF Table
<1>6. said' = [said EXCEPT ![w.who] = said[w.who] \cup MarksOf(w.items)]
  BY DEF Commit, Marks, MarksOf
<1>7. /\ \A u \in Learners : said'[u] = IF u = w.who THEN said[u] \cup MarksOf(w.items) ELSE said[u]
      /\ said' \in [Learners -> SUBSET [text : Wordings, at : Int]]
  <2>1. MarksOf(w.items) \subseteq [text : Wordings, at : Int] BY <1>2, MarksFacts
  <2>2. said \in [Learners -> SUBSET [text : Wordings, at : Int]] BY DEF LearnerInv, LearnerTypes
  <2> QED BY <1>2, <1>6, <2>1, <2>2
<1>8. w.who \notin DOMAIN w.mine => MarksOf(w.items) = {}
  <2> SUFFICES ASSUME NEW s \in MarksOf(w.items) PROVE w.who \in DOMAIN w.mine
      OBVIOUS
  <2>1. PICK j \in DOMAIN w.items : w.items[j].how = "mark" BY <1>2, MarksFacts
  <2>2. j < w.next BY <1>2, <1>3, <2>1, EachItem
  <2> QED BY <1>1, <2>1, <2>2 DEF WorkOk, MarkOk
<1> QED BY <1>1, <1>2, <1>3, <1>4, <1>5, <1>7, <1>8

LEMMA CommitKeeps == ASSUME NEW q \in Requests, LearnerInv, Commit(q) PROVE LearnerInv'
<1> DEFINE w == desk[q]
           u == w.who
           marks == MarksOf(w.items)
<1>1. /\ w \in Work /\ u \in Learners /\ w.items \in Seq(ItemT)
      /\ WorkOk(w, serverTime, rows, said) /\ w.next = Len(w.items) + 1
      /\ q \in alone /\ w.batch # {} => AloneOk(w, rows)
      /\ \A r \in RowNames : rows'[r] = IF r \in DOMAIN w.mine THEN w.mine[r] ELSE rows[r]
      /\ rows' \in Table
      /\ \A x \in Learners : said'[x] = IF x = u THEN said[x] \cup marks ELSE said[x]
      /\ said' \in [Learners -> SUBSET [text : Wordings, at : Int]]
      /\ u \notin DOMAIN w.mine => marks = {}
  BY CommitDoes
<1>2. /\ AtWork(q) /\ desk' = [desk EXCEPT ![q] = NoRequest] /\ serverTime' = serverTime
      /\ alone' = IF rows' = rows THEN alone ELSE {}
  BY DEF Commit, Close, AtWork
<1>3. /\ desk' \in [Requests -> Work \cup {NoRequest}]
      /\ \A p \in Requests : AtWork(p)' => p # q /\ AtWork(p) /\ desk'[p] = desk[p]
  BY <1>2 DEF LearnerInv, LearnerTypes, AtWork
<1>4. Note \notin Learners /\ \A x \in Learners : x \in RowNames /\ x # Note
  BY LearnerAssumption DEF RowNames
<1>5. \A x \in Learners : x # u => rows'[x] = rows[x] /\ said'[x] = said[x]
  BY <1>1, <1>4 DEF WorkOk
<1>6. MarkOk(w, serverTime, rows, said) BY <1>1 DEF WorkOk
<1>7. \A x \in Learners : rows'[x] # NoRow => rows'[x].owner = x
  <2>1. \A x \in Learners : rows[x] # NoRow => rows[x].owner = x BY DEF LearnerInv, LearnerTypes
  <2>2. u \in DOMAIN w.mine => rows'[u].owner = u BY <1>1, <1>4, <1>6 DEF MarkOk
  <2>3. u \notin DOMAIN w.mine => rows'[u] = rows[u] BY <1>1, <1>4
  <2> QED BY <1>1, <1>5, <2>1, <2>2, <2>3
<1>8. LearnerTypes' BY <1>1, <1>2, <1>3, <1>7 DEF LearnerInv, LearnerTypes
<1>9. RowsApart' BY <1>3 DEF LearnerInv, RowsApart
<1>10. NewestMarkStands'
  <2> SUFFICES ASSUME NEW x \in Learners
      PROVE  /\ rows'[x] = NoRow => said'[x] = {}
             /\ rows'[x] # NoRow =>
                   /\ rows'[x].at <= serverTime
                   /\ [text |-> rows'[x].text, at |-> rows'[x].at] \in said'[x]
                   /\ \A s \in said'[x] : s.at <= rows'[x].at
      BY <1>2 DEF NewestMarkStands
  <2>1. /\ rows[x] = NoRow => said[x] = {}
        /\ rows[x] # NoRow =>
              /\ rows[x].at <= serverTime
              /\ [text |-> rows[x].text, at |-> rows[x].at] \in said[x]
              /\ \A s \in said[x] : s.at <= rows[x].at
    BY DEF LearnerInv, NewestMarkStands
  <2>2. CASE x # u \/ u \notin DOMAIN w.mine
    <3>1. rows'[x] = rows[x] /\ said'[x] = said[x] BY <1>1, <1>4, <1>5, <2>2
    <3> QED BY <2>1, <3>1
  <2>3. CASE x = u /\ u \in DOMAIN w.mine
    <3> DEFINE m == w.mine[u]
    <3>1. rows'[x] = m /\ said'[x] = said[x] \cup marks BY <1>1, <1>4, <2>3
    <3>2. /\ m # NoRow /\ m.at <= serverTime
          /\ rows[x] # NoRow => rows[x].at <= m.at
          /\ m = rows[x] \/ [text |-> m.text, at |-> m.at] \in marks
          /\ \A j \in DOMAIN w.items : w.items[j].how = "mark" => w.items[j].at <= m.at
      <4>1. \A j \in DOMAIN w.items : j < w.next BY <1>1, EachItem
      <4> QED BY <1>6, <2>3, <4>1 DEF MarkOk
    <3>3. /\ m.at \in Int
          /\ rows[x] # NoRow => rows[x].at \in Int
          /\ \A s \in said[x] : s.at \in Int
      <4>1. m \in RowT BY <1>1, <2>3, <3>2, PartFacts DEF Work
      <4>2. rows[x] # NoRow => rows[x] \in RowT
        BY <1>4 DEF LearnerInv, LearnerTypes, Table
      <4>3. said[x] \subseteq [text : Wordings, at : Int] BY DEF LearnerInv, LearnerTypes
      <4> QED BY <4>1, <4>2, <4>3 DEF RowT
    <3>4. \A s \in marks : s.at <= m.at
      <4> SUFFICES ASSUME NEW s \in marks PROVE s.at <= m.at OBVIOUS
      <4>1. PICK j \in DOMAIN w.items :
               w.items[j].how = "mark" /\ s = [text |-> w.items[j].text, at |-> w.items[j].at]
        BY <1>1, MarksFacts
      <4>2. s.at = w.items[j].at BY <4>1
      <4> QED BY <3>2, <4>1, <4>2
    <3>5. \A s \in said[x] : s.at <= m.at
      <4> SUFFICES ASSUME NEW s \in said[x] PROVE s.at <= m.at OBVIOUS
      <4>1. rows[x] # NoRow /\ s.at <= rows[x].at BY <2>1
      <4>2. rows[x].at <= m.at /\ rows[x].at \in Int /\ m.at \in Int /\ s.at \in Int
        BY <3>2, <3>3, <4>1
      <4> HIDE DEF m
      <4> QED BY <4>1, <4>2
    <3>6. [text |-> m.text, at |-> m.at] \in said[x] \cup marks
      <4>1. CASE m = rows[x] BY <2>1, <3>2, <4>1
      <4>2. CASE m # rows[x] BY <3>2, <4>2
      <4> QED BY <4>1, <4>2
    <3> HIDE DEF m, marks
    <3> QED BY <3>1, <3>2, <3>4, <3>5, <3>6
  <2> QED BY <2>2, <2>3
<1>11. WorksOk'
  <2> SUFFICES ASSUME NEW p \in Requests, AtWork(p)'
      PROVE  /\ WorkOk(desk[p], serverTime, rows', said')
             /\ p \in alone' /\ desk[p].batch # {} => AloneOk(desk[p], rows')
      BY <1>2, <1>3 DEF WorksOk
  <2> DEFINE y == desk[p]
  <2>1. /\ p # q /\ AtWork(p) /\ y \in Work /\ WorkOk(y, serverTime, rows, said)
        /\ p \in alone /\ y.batch # {} => AloneOk(y, rows)
        /\ DOMAIN y.mine \cap DOMAIN w.mine = {}
    BY <1>2, <1>3 DEF LearnerInv, LearnerTypes, WorksOk, RowsApart, AtWork
  <2>2. serverTime \in Int /\ DOMAIN y.mine \subseteq RowNames /\ y.who \in Learners
    BY <2>1, PartFacts DEF LearnerInv, LearnerTypes, Work
  <2>3. \A r \in DOMAIN y.mine : rows'[r] = rows[r] BY <1>1, <2>1, <2>2
  <2>4. y.who \in DOMAIN y.mine => said'[y.who] = said[y.who]
    <3>1. CASE y.who # u BY <1>5, <2>2, <3>1
    <3>2. CASE y.who = u /\ u \in DOMAIN y.mine
      <4>1. marks = {} BY <1>1, <2>1, <3>2
      <4> QED BY <1>1, <3>2, <4>1
    <3> QED BY <3>1, <3>2
  <2>5. WorkOk(y, serverTime, rows', said') BY <2>1, <2>2, <2>3, <2>4, WorkStays
  <2>6. p \in alone' /\ y.batch # {} => AloneOk(y, rows')
    <3>1. p \in alone' => p \in alone /\ rows' = rows BY <1>2
    <3> QED BY <2>1, <3>1
  <2> QED BY <2>5, <2>6
<1>12. AfterOk'
  <2> DEFINE taken == {b \in w.batch : b.items = w.items /\ q \in alone}
  <2>1. after' = [b \in DOMAIN after \cup taken |-> IF b \in taken THEN rows' ELSE after[b]]
    BY DEF Commit
  <2> SUFFICES ASSUME NEW b \in DOMAIN after \cup taken
      PROVE  /\ b \in Batches
             /\ LeftBy(b.items, b.who, Len(b.items) + 1, after'[b][Note])
             /\ MarksOf(b.items) \subseteq said'[b.who]
      BY <2>1 DEF AfterOk
  <2>2. CASE b \in taken
    <3>1. /\ b \in w.batch /\ b.items = w.items /\ q \in alone /\ b \in Batches /\ b.who = u
          /\ after'[b] = rows'
      BY <1>1, <2>1, <2>2 DEF Work, WorkOk
    <3>2. AloneOk(w, rows) BY <1>1, <3>1
    <3>3. rows'[Note] = IF Note \in DOMAIN w.mine THEN w.mine[Note] ELSE rows[Note]
      BY <1>1 DEF RowNames
    <3>4. LeftBy(w.items, u, Len(w.items) + 1, rows'[Note]) BY <1>1, <3>2, <3>3 DEF AloneOk
    <3>5. marks \subseteq said'[u] BY <1>1
    <3> QED BY <3>1, <3>4, <3>5
  <2>3. CASE b \notin taken
    <3>1. b \in DOMAIN after /\ after'[b] = after[b] BY <2>1, <2>3
    <3>2. b \in Batches /\ b.who \in Learners
          /\ LeftBy(b.items, b.who, Len(b.items) + 1, after[b][Note])
          /\ MarksOf(b.items) \subseteq said[b.who]
      BY <3>1, LearnerAssumption DEF LearnerInv, AfterOk
    <3>3. said[b.who] \subseteq said'[b.who] BY <1>1, <3>2
    <3> QED BY <3>1, <3>2, <3>3
  <2> QED BY <2>2, <2>3
<1> QED BY <1>8, <1>9, <1>10, <1>11, <1>12 DEF LearnerInv

LEMMA LearnerStep == LearnerInv /\ [LearnerNext]_learnerVars => LearnerInv'
<1> SUFFICES ASSUME LearnerInv, [LearnerNext]_learnerVars PROVE LearnerInv'
    OBVIOUS
<1>1. CASE UNCHANGED learnerVars
  <2>1. UNCHANGED <<serverTime, rows, desk, said, alone, after>> BY <1>1 DEF learnerVars
  <2> QED
    BY <2>1
    DEF LearnerInv, LearnerTypes, RowsApart, AfterOk, NewestMarkStands, WorksOk, AtWork
<1>2. ASSUME NEW q \in Requests,
             \/ Push(q) \/ PutProgress(q)
             \/ CreateAnnotation(q) \/ PatchAnnotation(q) \/ DeleteAnnotation(q)
             \/ Apply(q) \/ Commit(q) \/ Abort(q)
      PROVE  LearnerInv'
  BY <1>2, ReceiveKeeps, ApplyKeeps, CommitKeeps, AbortOrTimeKeeps
<1>3. CASE Passes BY <1>3, AbortOrTimeKeeps
<1> QED BY <1>1, <1>2, <1>3 DEF LearnerNext

(* Only a commit changes the tables. *)
LEMMA OnlyCommits ==
    ASSUME LearnerInv, LearnerNext, NEW q \in Requests, Ends(q), rows' # rows
    PROVE  Commit(q)
<1>1. ~Passes BY DEF Passes
<1>2. PICK p \in Requests :
          \/ Push(p) \/ PutProgress(p)
          \/ CreateAnnotation(p) \/ PatchAnnotation(p) \/ DeleteAnnotation(p)
          \/ Apply(p) \/ Commit(p) \/ Abort(p)
  BY <1>1 DEF LearnerNext
<1>3. Commit(p)
  BY <1>2
  DEF Push, PutProgress, CreateAnnotation, PatchAnnotation, DeleteAnnotation, Call, Receive,
      Apply, Abort
<1>4. \A x \in Requests \ {p} : desk'[x] = desk[x]
  BY <1>3 DEF Commit, Close, LearnerInv, LearnerTypes
<1>5. q = p BY <1>4 DEF Ends
<1> QED BY <1>3, <1>5

LEMMA NeverOlder ==
    ASSUME LearnerInv, LearnerNext, NEW q \in Requests PROVE OlderNeverWins(q)
<1> SUFFICES ASSUME Ends(q), rows[Note] # NoRow, rows'[Note] # rows[Note]
    PROVE  /\ rows[Note].owner = desk[q].who
           /\ desk[q].batch # {} =>
                 \E i \in DOMAIN desk[q].items :
                     desk[q].items[i].how # "mark" /\ desk[q].items[i].at > rows[Note].at
    BY DEF OlderNeverWins
<1>1. Commit(q) BY OnlyCommits
<1>2. WorkOk(desk[q], serverTime, rows, said)
      /\ rows'[Note] = IF Note \in DOMAIN desk[q].mine THEN desk[q].mine[Note] ELSE rows[Note]
  BY <1>1, CommitDoes DEF RowNames
<1> QED BY <1>2 DEF WorkOk, NoteOk

LEMMA RetryIsSafe ==
    ASSUME LearnerInv, LearnerNext, NEW q \in Requests PROVE RetryChangesNothing(q)
<1> SUFFICES ASSUME Ends(q), rows' # rows, NEW b \in desk[q].batch,
                    b \in DOMAIN after, after[b] = rows, desk[q].items = b.items,
                    NEW r \in RowNames
    PROVE  rows'[r] = rows[r]
    BY DEF RetryChangesNothing, Said
<1> DEFINE w == desk[q]
<1>1. Commit(q) BY OnlyCommits
<1>2. /\ w \in Work /\ w.who \in Learners /\ w.items \in Seq(ItemT) /\ w.batch # {}
      /\ WorkOk(w, serverTime, rows, said) /\ w.next = Len(w.items) + 1 /\ b.who = w.who
      /\ rows'[r] = IF r \in DOMAIN w.mine THEN w.mine[r] ELSE rows[r]
  BY <1>1, CommitDoes DEF WorkOk
<1>3. /\ LeftBy(w.items, w.who, Len(w.items) + 1, rows[Note])
      /\ MarksOf(w.items) \subseteq said[w.who]
  BY <1>2 DEF LearnerInv, AfterOk
<1> HIDE DEF w
<1> SUFFICES ASSUME r \in DOMAIN w.mine PROVE w.mine[r] = rows[r] BY <1>2
<1>4. CASE r = w.who BY <1>2, <1>3, <1>4 DEF WorkOk, MarkOk
<1>5. CASE r = Note
  <2>1. OnTheWay(w.items, w.who, Len(w.items) + 1, w.mine[Note], rows[Note])
    BY <1>2, <1>3, <1>5 DEF WorkOk, NoteOk
  <2>2. w.mine[Note] \in RowT \cup {NoRow} BY <1>2, <1>5, PartFacts DEF Work
  <2>3. rows[Note] \in RowT \cup {NoRow} BY <1>5 DEF LearnerInv, LearnerTypes, Table
  <2> QED BY <1>2, <1>3, <1>5, <2>1, <2>2, <2>3, OnTheWayEnds
<1> QED BY <1>2, <1>4, <1>5 DEF WorkOk

(* In whatever order requests come, wait, commit and fail, the newest mark *)
(* stands, no batch undoes a newer note, and a batch that comes again      *)
(* changes nothing.                                                        *)
THEOREM LearnerRowsSafe == LearnerSpec => LastWriterWins
<1>1. LearnerInv => NewestMarkStands BY DEF LearnerInv
<1>2. LearnerInv /\ [LearnerNext]_learnerVars =>
          [\A q \in Requests : OlderNeverWins(q) /\ RetryChangesNothing(q)]_learnerVars
  BY NeverOlder, RetryIsSafe
<1> QED
  BY <1>1, <1>2, InitLearns, LearnerStep, PTL
  DEF LearnerSpec, LastWriterWins

-----------------------------------------------------------------------------
Vote == [course : Rateable, stars : Stars, stage : {"look", "put"}, had : BOOLEAN]

(* Votes that will be new: they were let through by the count. *)
Going == {v \in Voters : /\ rating[v] # NoVote /\ rating[v].stage = "put"
                         /\ votes[rating[v].course] = 0}

(* Each of them was counted when the others were not there yet. *)
RatingInv ==
    /\ votes \in [Rateable -> Stars \cup {0}]
    /\ rating \in [Voters -> Vote \cup {NoVote}]
    /\ IsFiniteSet(Rated)
    /\ Cardinality(Rated) + Cardinality(Going) < MaxRatingsPerUser + Cardinality(Voters)
    /\ \A v \in Voters : rating[v] # NoVote /\ rating[v].had => votes[rating[v].course] # 0
    /\ TRUE \notin refusals

LEMMA GoingCounts ==
    /\ IsFiniteSet(Going) /\ Cardinality(Going) \in Nat /\ Cardinality(Going) <= Cardinality(Voters)
    /\ Cardinality(Voters) \in Nat
<1>1. Going \subseteq Voters BY DEF Going
<1> QED BY <1>1, CountedAssumption, FS_Subset, FS_CardinalityType

LEMMA InitRated == InitRatings => RatingInv
<1> SUFFICES ASSUME InitRatings PROVE RatingInv OBVIOUS
<1>1. Rated = {} /\ Going = {} BY DEF InitRatings, Rated, Going
<1>2. IsFiniteSet({}) /\ Cardinality({}) = 0 BY FS_EmptySet
<1>3. 0 < MaxRatingsPerUser + Cardinality(Voters) BY CountedAssumption, GoingCounts
<1>4. /\ votes \in [Rateable -> Stars \cup {0}] /\ rating \in [Voters -> Vote \cup {NoVote}]
      /\ \A v \in Voters : rating[v] = NoVote
      /\ TRUE \notin refusals
  BY DEF InitRatings
<1>5. /\ IsFiniteSet(Rated)
      /\ Cardinality(Rated) + Cardinality(Going) < MaxRatingsPerUser + Cardinality(Voters)
  BY <1>1, <1>2, <1>3
<1> QED BY <1>4, <1>5 DEF RatingInv

(* A step that leaves the votes alone and lets nobody new through. *)
LEMMA FewerGoing ==
    ASSUME RatingInv, UNCHANGED votes, Going' \subseteq Going
    PROVE  /\ IsFiniteSet(Rated')
           /\ Cardinality(Rated') + Cardinality(Going') < MaxRatingsPerUser + Cardinality(Voters)
<1>1. Rated' = Rated BY DEF Rated
<1>2. Cardinality(Going') <= Cardinality(Going) /\ Cardinality(Going') \in Nat
  BY GoingCounts, FS_Subset, FS_CardinalityType
<1>3. Cardinality(Rated) \in Nat BY FS_CardinalityType DEF RatingInv
<1> QED BY <1>1, <1>2, <1>3, CountedAssumption, GoingCounts DEF RatingInv

LEMMA CountKeeps == ASSUME NEW v \in Voters, RatingInv, CountForUser(v) PROVE RatingInv'
<1>1. PICK c \in Rateable, s \in Stars :
          rating' = [rating EXCEPT ![v] =
              [course |-> c, stars |-> s, stage |-> AfterCount(Cardinality(Rated)),
               had |-> votes[c] # 0]]
  BY DEF CountForUser
<1> DEFINE vote == [course |-> c, stars |-> s, stage |-> AfterCount(Cardinality(Rated)),
                    had |-> votes[c] # 0]
<1>2. UNCHANGED <<votes, refusals>> /\ rating[v] = NoVote BY DEF CountForUser
<1>3. vote \in Vote BY DEF Vote, AfterCount
<1>4. rating' \in [Voters -> Vote \cup {NoVote}] /\ \A w \in Voters : rating'[w] =
          IF w = v THEN vote ELSE rating[w]
  BY <1>1, <1>3 DEF RatingInv
<1>5. /\ IsFiniteSet(Rated')
      /\ Cardinality(Rated') + Cardinality(Going') < MaxRatingsPerUser + Cardinality(Voters)
  <2>1. CASE Cardinality(Rated) >= MaxRatingsPerUser
    <3>1. vote.stage = "look" BY <2>1 DEF AfterCount
    <3>2. Going' \subseteq Going BY <1>2, <1>4, <3>1 DEF Going
    <3> QED BY <1>2, <3>2, FewerGoing
  <2>2. CASE ~(Cardinality(Rated) >= MaxRatingsPerUser)
    <3>1. Rated' = Rated BY <1>2 DEF Rated
    <3>2. Going' \subseteq Voters BY DEF Going
    <3>3. /\ Cardinality(Going') <= Cardinality(Voters) /\ Cardinality(Going') \in Nat
          /\ Cardinality(Voters) \in Nat
      BY <3>2, CountedAssumption, FS_Subset, FS_CardinalityType
    <3>4. Cardinality(Rated) \in Nat BY FS_CardinalityType DEF RatingInv
    <3>5. Cardinality(Rated) < MaxRatingsPerUser BY <2>2, <3>4, CountedAssumption
    <3> QED BY <3>1, <3>3, <3>4, <3>5, CountedAssumption DEF RatingInv
  <2> QED BY <2>1, <2>2
<1>6. \A w \in Voters : rating'[w] # NoVote /\ rating'[w].had => votes'[rating'[w].course] # 0
  <2>1. vote.had => votes[vote.course] # 0 BY Zenon
  <2> HIDE DEF vote
  <2> QED BY <1>2, <1>4, <2>1 DEF RatingInv
<1> QED BY <1>2, <1>4, <1>5, <1>6 DEF RatingInv

LEMMA LookOrFailKeeps ==
    ASSUME NEW v \in Voters, RatingInv, LookAtMine(v) \/ RateFails(v)
    PROVE  RatingInv'
<1>1. UNCHANGED votes BY DEF LookAtMine, RateFails
<1>2. rating[v] # NoVote /\ rating[v] \in Vote BY DEF LookAtMine, RateFails, Awaits, RatingInv
<1>3. \/ rating' = [rating EXCEPT ![v] = NoVote]
      \/ /\ rating' = [rating EXCEPT ![v] = [rating[v] EXCEPT !.stage = "put"]]
         /\ votes[rating[v].course] # 0
  BY <1>2 DEF LookAtMine, RateFails, RatingInv
<1>4. /\ \A w \in Voters \ {v} : rating'[w] = rating[w]
      /\ \/ rating'[v] = NoVote
         \/ /\ rating'[v] = [rating[v] EXCEPT !.stage = "put"]
            /\ votes[rating[v].course] # 0
      /\ rating' \in [Voters -> Vote \cup {NoVote}]
  BY <1>2, <1>3 DEF RatingInv, Vote
<1>5. Going' \subseteq Going
  <2> SUFFICES ASSUME NEW w \in Going' PROVE w \in Going OBVIOUS
  <2>1. w # v BY <1>1, <1>2, <1>4 DEF Going, Vote
  <2> QED BY <1>1, <1>4, <2>1 DEF Going
<1>6. \A w \in Voters : rating'[w] # NoVote /\ rating'[w].had => votes'[rating'[w].course] # 0
  BY <1>1, <1>2, <1>4 DEF RatingInv, Vote
<1>7. TRUE \notin refusals'
  <2>1. refusals' = refusals \/ (refusals' = refusals \cup {rating[v].had}
                                   /\ votes[rating[v].course] = 0)
    BY DEF LookAtMine, RateFails
  <2>2. votes[rating[v].course] = 0 => rating[v].had # TRUE BY <1>2 DEF RatingInv
  <2> QED BY <2>1, <2>2 DEF RatingInv
<1> QED BY <1>1, <1>4, <1>5, <1>6, <1>7, FewerGoing DEF RatingInv

LEMMA PutKeeps == ASSUME NEW v \in Voters, RatingInv, PutVote(v) PROVE RatingInv'
<1> DEFINE c == rating[v].course
<1>1. /\ rating[v] # NoVote /\ rating[v] \in Vote /\ rating[v].stage = "put"
      /\ votes' = [votes EXCEPT ![c] = rating[v].stars]
      /\ rating' = [rating EXCEPT ![v] = NoVote] /\ refusals' = refusals
  BY DEF PutVote, Awaits, RatingInv
<1>2. c \in Rateable /\ rating[v].stars \in Stars /\ rating[v].stars # 0
  BY <1>1, CountedAssumption DEF Vote
<1>3. /\ votes' \in [Rateable -> Stars \cup {0}] /\ rating' \in [Voters -> Vote \cup {NoVote}]
      /\ \A d \in Rateable : votes'[d] = IF d = c THEN rating[v].stars ELSE votes[d]
      /\ \A w \in Voters : rating'[w] = IF w = v THEN NoVote ELSE rating[w]
  BY <1>1, <1>2 DEF RatingInv
<1>4. \A w \in Voters : rating'[w] # NoVote /\ rating'[w].had => votes'[rating'[w].course] # 0
  <2> SUFFICES ASSUME NEW w \in Voters, rating'[w] # NoVote, rating'[w].had
      PROVE  votes'[rating'[w].course] # 0
      OBVIOUS
  <2>1. rating'[w] = rating[w] /\ rating[w] \in Vote BY <1>3 DEF RatingInv
  <2>2. votes[rating[w].course] # 0 /\ rating[w].course \in Rateable
    BY <2>1 DEF RatingInv, Vote
  <2> QED BY <1>2, <1>3, <2>1, <2>2
<1>5. Going' \subseteq Going \ {v}
  <2> SUFFICES ASSUME NEW w \in Going' PROVE w \in Going /\ w # v OBVIOUS
  <2>1. w \in Voters /\ w # v /\ rating'[w] = rating[w] /\ rating[w] # NoVote BY <1>3 DEF Going
  <2>2. rating[w] \in Vote BY <2>1 DEF RatingInv
  <2>3. votes[rating[w].course] = 0 BY <1>2, <1>3, <2>1, <2>2 DEF Going, Vote
  <2> QED BY <2>1, <2>3 DEF Going
<1>6. Rated' = Rated \cup {c} BY <1>2, <1>3 DEF Rated
<1>7. Cardinality(Rated) \in Nat BY FS_CardinalityType DEF RatingInv
<1>8. CASE votes[c] = 0
  <2>1. v \in Going BY <1>1, <1>8 DEF Going
  <2>2. c \notin Rated BY <1>8 DEF Rated
  <2>3. IsFiniteSet(Rated') /\ Cardinality(Rated') = Cardinality(Rated) + 1
    BY <1>6, <2>2, FS_AddElement DEF RatingInv
  <2>4. IsFiniteSet(Going \ {v}) /\ Cardinality(Going \ {v}) = Cardinality(Going) - 1
    BY <2>1, GoingCounts, FS_RemoveElement
  <2>5. Cardinality(Going') <= Cardinality(Going) - 1 /\ Cardinality(Going') \in Nat
    BY <1>5, <2>4, FS_Subset, FS_CardinalityType
  <2>6. Cardinality(Rated') + Cardinality(Going') < MaxRatingsPerUser + Cardinality(Voters)
    BY <1>7, <2>3, <2>5, GoingCounts, CountedAssumption DEF RatingInv
  <2> QED BY <1>1, <1>3, <1>4, <2>3, <2>6 DEF RatingInv
<1>9. CASE votes[c] # 0
  <2>1. Rated' = Rated BY <1>2, <1>6, <1>9 DEF Rated
  <2>2. Cardinality(Going') <= Cardinality(Going) /\ Cardinality(Going') \in Nat
    BY <1>5, GoingCounts, FS_Subset, FS_CardinalityType
  <2>3. Cardinality(Rated') + Cardinality(Going') < MaxRatingsPerUser + Cardinality(Voters)
    BY <1>7, <2>1, <2>2, GoingCounts, CountedAssumption DEF RatingInv
  <2> QED BY <1>1, <1>3, <1>4, <2>1, <2>3 DEF RatingInv
<1> QED BY <1>8, <1>9

LEMMA RatingStep == RatingInv /\ [RatingNext]_ratingVars => RatingInv'
<1> SUFFICES ASSUME RatingInv, [RatingNext]_ratingVars PROVE RatingInv' OBVIOUS
<1>1. CASE UNCHANGED ratingVars
  <2>1. Rated' = Rated /\ Going' = Going BY <1>1 DEF ratingVars, Rated, Going
  <2> QED BY <1>1, <2>1 DEF ratingVars, RatingInv
<1>2. ASSUME NEW v \in Voters, CountForUser(v) \/ LookAtMine(v) \/ PutVote(v) \/ RateFails(v)
      PROVE  RatingInv'
  BY <1>2, CountKeeps, LookOrFailKeeps, PutKeeps
<1> QED BY <1>1, <1>2 DEF RatingNext

LEMMA RatingSafe == RatingInv => CapNearlyHolds
<1> SUFFICES ASSUME RatingInv PROVE CapNearlyHolds OBVIOUS
<1>1. Cardinality(Rated) \in Nat BY FS_CardinalityType DEF RatingInv
<1>2. TRUE \notin refusals BY DEF RatingInv
<1>3. Cardinality(Rated) + Cardinality(Going) < MaxRatingsPerUser + Cardinality(Voters)
  BY DEF RatingInv
<1>4. Cardinality(Rated) < MaxRatingsPerUser + Cardinality(Voters)
  BY <1>1, <1>3, GoingCounts, CountedAssumption
<1> QED BY <1>2, <1>4 DEF CapNearlyHolds

-----------------------------------------------------------------------------
Delivery == [events : Seq(Events), next : Nat \ {0}, mine : SUBSET Events, alone : BOOLEAN]

EventTypes ==
    /\ stored \in [Events -> Nat]
    /\ deliveries \in [Deliveries -> Delivery \cup {NoDelivery}]

(* What a delivery went past is stored or among its own. *)
PassedAreThere ==
    \A d \in Deliveries : Opened(d) =>
        \A i \in DOMAIN deliveries[d].events : i < deliveries[d].next =>
            \/ deliveries[d].events[i] \in deliveries[d].mine
            \/ stored[deliveries[d].events[i]] > 0

(* One that is alone is the only one open, and what it adds is not there. *)
AloneAddsNew ==
    \A d \in Deliveries : Opened(d) /\ deliveries[d].alone =>
        /\ \A x \in Deliveries \ {d} : ~Opened(x)
        /\ \A e \in deliveries[d].mine : stored[e] = 0

EventInv == EventTypes /\ PassedAreThere /\ AloneAddsNew

LEMMA InitStored == InitEvents => EventInv
BY DEF InitEvents, EventInv, EventTypes, PassedAreThere, AloneAddsNew, Opened

LEMMA BatchKeeps == ASSUME NEW d \in Deliveries, EventInv, EventsBatch(d) PROVE EventInv'
<1> DEFINE others == {x \in Deliveries : Opened(x)}
<1>1. PICK b \in EventBatches :
          deliveries' = [x \in Deliveries |->
              IF x = d THEN [events |-> b, next |-> 1, mine |-> {}, alone |-> others = {}]
              ELSE IF x \in others THEN [deliveries[x] EXCEPT !.alone = FALSE]
              ELSE NoDelivery]
  BY DEF EventsBatch
<1>2. UNCHANGED stored /\ ~Opened(d) BY DEF EventsBatch
<1>3. [events |-> b, next |-> 1, mine |-> {}, alone |-> others = {}] \in Delivery
  BY CountedAssumption DEF Delivery
<1>4. \A x \in others : deliveries[x] \in Delivery BY DEF EventInv, EventTypes, Opened
<1>5. \A x \in others : [deliveries[x] EXCEPT !.alone = FALSE] \in Delivery BY <1>4 DEF Delivery
<1>6. EventTypes' BY <1>1, <1>2, <1>3, <1>5 DEF EventInv, EventTypes
<1>7. /\ deliveries'[d].next = 1 /\ deliveries'[d].mine = {} /\ deliveries'[d].events = b
      /\ deliveries'[d].alone = (others = {})
  BY <1>1
<1>8. \A x \in Deliveries \ {d} :
          /\ x \in others =>
                /\ deliveries'[x].events = deliveries[x].events /\ deliveries'[x].next = deliveries[x].next
                /\ deliveries'[x].mine = deliveries[x].mine /\ deliveries'[x].alone = FALSE
          /\ x \notin others => deliveries'[x] = NoDelivery
  BY <1>1, <1>4 DEF Delivery
<1>9. b \in Seq(Events) BY CountedAssumption
<1>10. PassedAreThere'
  <2> SUFFICES ASSUME NEW x \in Deliveries, Opened(x)', NEW i \in DOMAIN deliveries'[x].events,
                      i < deliveries'[x].next
      PROVE  \/ deliveries'[x].events[i] \in deliveries'[x].mine
             \/ stored'[deliveries'[x].events[i]] > 0
      BY DEF PassedAreThere
  <2>1. x # d BY <1>7, <1>9
  <2>2. x \in others BY <1>8, <2>1 DEF Opened
  <2> QED BY <1>2, <1>8, <2>1, <2>2 DEF EventInv, PassedAreThere
<1>11. AloneAddsNew'
  <2> SUFFICES ASSUME NEW x \in Deliveries, Opened(x)', deliveries'[x].alone
      PROVE  /\ \A y \in Deliveries \ {x} : ~Opened(y)'
             /\ \A e \in deliveries'[x].mine : stored'[e] = 0
      BY DEF AloneAddsNew
  <2>1. x = d BY <1>8 DEF Opened
  <2>2. others = {} BY <1>7, <2>1
  <2> QED BY <1>7, <1>8, <2>1, <2>2 DEF Opened
<1> QED BY <1>6, <1>10, <1>11 DEF EventInv

LEMMA InsertKeeps == ASSUME NEW d \in Deliveries, EventInv, InsertEvent(d) PROVE EventInv'
<1> DEFINE was == deliveries[d]
           e == was.events[was.next]
           mine == IF Adds(d, e) THEN was.mine \cup {e} ELSE was.mine
<1>1. /\ Opened(d) /\ was.next <= Len(was.events) /\ UNCHANGED stored
      /\ deliveries' = [deliveries EXCEPT ![d] = [was EXCEPT !.next = was.next + 1, !.mine = mine]]
  BY DEF InsertEvent, EventInv, EventTypes
<1>2. was \in Delivery BY <1>1 DEF EventInv, EventTypes, Opened
<1>3. e \in Events /\ was.next \in Nat /\ DOMAIN was.events = 1 .. Len(was.events)
  BY <1>1, <1>2 DEF Delivery
<1>4. [was EXCEPT !.next = was.next + 1, !.mine = mine] \in Delivery
  <2>1. mine \in SUBSET Events /\ was.next + 1 \in Nat BY <1>2, <1>3 DEF Delivery
  <2>2. \A w \in Delivery, m \in SUBSET Events, k \in Nat \ {0} :
           [w EXCEPT !.next = k, !.mine = m] \in Delivery
    BY DEF Delivery
  <2>3. was.next + 1 \in Nat \ {0} BY <1>2 DEF Delivery
  <2> HIDE DEF mine, was
  <2> QED BY <1>2, <2>1, <2>2, <2>3
<1>5. EventTypes' BY <1>1, <1>4 DEF EventInv, EventTypes
<1>6. /\ \A x \in Deliveries \ {d} : deliveries'[x] = deliveries[x]
      /\ deliveries'[d].events = was.events /\ deliveries'[d].next = was.next + 1
      /\ deliveries'[d].mine = mine /\ deliveries'[d].alone = was.alone
  BY <1>1, <1>2 DEF EventInv, EventTypes, Delivery
<1>7. e \in mine \/ stored[e] > 0 BY <1>3 DEF Adds, EventInv, EventTypes
<1>8. was.mine \subseteq mine /\ \A f \in mine : f \in was.mine \/ (f = e /\ stored[e] = 0)
  BY DEF Adds
<1>9. PassedAreThere'
  <2> SUFFICES ASSUME NEW x \in Deliveries, Opened(x)', NEW i \in DOMAIN deliveries'[x].events,
                      i < deliveries'[x].next
      PROVE  \/ deliveries'[x].events[i] \in deliveries'[x].mine
             \/ stored'[deliveries'[x].events[i]] > 0
      BY DEF PassedAreThere
  <2>1. CASE x = d
    <3>1. i \in 1 .. Len(was.events) /\ (i < was.next \/ i = was.next) BY <1>3, <1>6, <2>1
    <3>2. CASE i = was.next BY <1>1, <1>6, <1>7, <2>1, <3>2
    <3>3. CASE i < was.next BY <1>1, <1>3, <1>6, <1>8, <2>1, <3>1, <3>3 DEF EventInv, PassedAreThere
    <3> QED BY <3>1, <3>2, <3>3
  <2>2. CASE x # d BY <1>1, <1>6, <2>2 DEF EventInv, PassedAreThere, Opened
  <2> QED BY <2>1, <2>2
<1>10. \A x \in Deliveries \ {d} : Opened(x)' <=> Opened(x) BY <1>6 DEF Opened
<1>11. AloneAddsNew'
  <2> SUFFICES ASSUME NEW x \in Deliveries, Opened(x)', deliveries'[x].alone
      PROVE  /\ \A y \in Deliveries \ {x} : ~Opened(y)'
             /\ \A f \in deliveries'[x].mine : stored'[f] = 0
      BY DEF AloneAddsNew
  <2>1. CASE x = d BY <1>1, <1>6, <1>8, <1>10, <2>1 DEF EventInv, AloneAddsNew
  <2>2. CASE x # d BY <1>1, <1>6, <1>10, <2>2 DEF EventInv, AloneAddsNew
  <2> QED BY <2>1, <2>2
<1> QED BY <1>5, <1>9, <1>11 DEF EventInv

LEMMA EndKeeps ==
    ASSUME NEW d \in Deliveries, EventInv, Delivered(d) \/ Undelivered(d)
    PROVE  EventInv'
<1>1. Opened(d) /\ deliveries' = [deliveries EXCEPT ![d] = NoDelivery]
  BY DEF Delivered, Undelivered
<1>2. \/ stored' = stored
      \/ stored' = [e \in Events |-> stored[e] + IF e \in deliveries[d].mine THEN 1 ELSE 0]
  BY DEF Delivered, Undelivered
<1>3. stored' \in [Events -> Nat] /\ \A e \in Events : stored'[e] >= stored[e]
  BY <1>2 DEF EventInv, EventTypes
<1>4. /\ \A x \in Deliveries \ {d} : deliveries'[x] = deliveries[x]
      /\ deliveries' \in [Deliveries -> Delivery \cup {NoDelivery}] /\ ~Opened(d)'
  BY <1>1 DEF EventInv, EventTypes, Opened
<1>5. PassedAreThere'
  <2> SUFFICES ASSUME NEW x \in Deliveries, Opened(x)', NEW i \in DOMAIN deliveries'[x].events,
                      i < deliveries'[x].next
      PROVE  \/ deliveries'[x].events[i] \in deliveries'[x].mine
             \/ stored'[deliveries'[x].events[i]] > 0
      BY DEF PassedAreThere
  <2>1. x # d /\ deliveries'[x] = deliveries[x] /\ Opened(x) BY <1>4 DEF Opened
  <2>2. deliveries[x] \in Delivery BY <2>1 DEF EventInv, EventTypes, Opened
  <2>3. deliveries[x].events[i] \in Events BY <2>1, <2>2 DEF Delivery
  <2>4. deliveries[x].events[i] \in deliveries[x].mine \/ stored[deliveries[x].events[i]] > 0
    BY <2>1 DEF EventInv, PassedAreThere
  <2> QED BY <1>3, <2>1, <2>3, <2>4 DEF EventInv, EventTypes
<1>6. AloneAddsNew' BY <1>1, <1>4 DEF EventInv, AloneAddsNew, Opened
<1> QED BY <1>3, <1>4, <1>5, <1>6 DEF EventInv, EventTypes

LEMMA EventStep == EventInv /\ [EventNext]_eventVars => EventInv'
<1> SUFFICES ASSUME EventInv, [EventNext]_eventVars PROVE EventInv' OBVIOUS
<1>1. CASE UNCHANGED eventVars
  BY <1>1 DEF eventVars, EventInv, EventTypes, PassedAreThere, AloneAddsNew, Opened
<1>2. ASSUME NEW d \in Deliveries,
             EventsBatch(d) \/ InsertEvent(d) \/ Delivered(d) \/ Undelivered(d)
      PROVE  EventInv'
  BY <1>2, BatchKeeps, InsertKeeps, EndKeeps
<1> QED BY <1>1, <1>2 DEF EventNext

LEMMA DeliveryCounts ==
    ASSUME EventInv, [EventNext]_eventVars
    PROVE  [StoredOnceUnlessTogether]_eventVars
<1> SUFFICES ASSUME EventNext, NEW d \in Deliveries, Opened(d), deliveries'[d] = NoDelivery,
                    stored' # stored
    PROVE  /\ \A i \in DOMAIN deliveries[d].events : stored'[deliveries[d].events[i]] > 0
           /\ deliveries[d].alone => \A e \in Events : stored'[e] <= 1 \/ stored'[e] = stored[e]
    BY DEF StoredOnceUnlessTogether
<1>1. PICK p \in Deliveries : Delivered(p)
  BY DEF EventNext, EventsBatch, InsertEvent, Undelivered
<1>2. p = d BY <1>1 DEF Delivered, EventInv, EventTypes, Opened
<1>3. /\ deliveries[d].next > Len(deliveries[d].events)
      /\ \A e \in Events : stored'[e] = stored[e] + (IF e \in deliveries[d].mine THEN 1 ELSE 0)
  BY <1>1, <1>2 DEF Delivered
<1>4. deliveries[d] \in Delivery BY DEF EventInv, EventTypes, Opened
<1>5. \A i \in DOMAIN deliveries[d].events : stored'[deliveries[d].events[i]] > 0
  <2> TAKE i \in DOMAIN deliveries[d].events
  <2>1. /\ i \in 1 .. Len(deliveries[d].events) /\ i < deliveries[d].next
        /\ deliveries[d].events[i] \in Events
    BY <1>3, <1>4 DEF Delivery
  <2>2. deliveries[d].events[i] \in deliveries[d].mine \/ stored[deliveries[d].events[i]] > 0
    BY <2>1 DEF EventInv, PassedAreThere
  <2> QED BY <1>3, <2>1, <2>2 DEF EventInv, EventTypes
<1>6. deliveries[d].alone => \A e \in Events : stored'[e] <= 1 \/ stored'[e] = stored[e]
  BY <1>3 DEF EventInv, EventTypes, AloneAddsNew
<1> QED BY <1>5, <1>6

(* The cap on votes is exceeded only by requests that were under way       *)
(* together, and a delivery stores what it brings, a second time only if   *)
(* another one was open with it: for any caps, courses and clients.        *)
THEOREM CountsAreRight == RatingSpec /\ EventSpec => CountsHold
<1>1. RatingSpec => []CapNearlyHolds
  BY InitRated, RatingStep, RatingSafe, PTL DEF RatingSpec
<1>2. EventSpec => [][StoredOnceUnlessTogether]_eventVars
  BY InitStored, EventStep, DeliveryCounts, PTL DEF EventSpec
<1> QED BY <1>1, <1>2, PTL DEF CountsHold

-----------------------------------------------------------------------------
Visit == [thread : Threads, stage : {"missed", "asked"}, since : Nat, given : Nat \cup {Never}]
Entry == [ok : BOOLEAN, at : Nat, expires : Nat]

DiscussionTypes ==
    /\ clock \in Nat
    /\ entries \in [Threads -> Entry \cup {Never}]
    /\ failed \in [Threads -> Nat \cup {Never}]
    /\ visits \in [Visitors -> Visit \cup {NoVisit}]
    /\ windowStart \in Nat /\ used \in Nat
    /\ calls \in Seq(Nat)

(* The calls so far are in order of time, the budget's window holds the    *)
(* last ones, and those before the ration of the window before are older   *)
(* than a window before its start.                                         *)
Rationed ==
    /\ windowStart <= clock
    /\ used <= MaxOutboundPerWindow /\ used <= Len(calls)
    /\ \A i \in 1 .. Len(calls) : calls[i] <= clock
    /\ \A i \in 1 .. Len(calls) : i > Len(calls) - used => calls[i] >= windowStart
    /\ \A i \in 1 .. Len(calls) : i <= Len(calls) - used => calls[i] <= windowStart
    /\ \A i \in 1 .. Len(calls) :
          i + MaxOutboundPerWindow <= Len(calls) - used =>
              calls[i] <= windowStart - OutboundWindow

(* A call under way has not outlived its timeout, and what GitHub read for *)
(* it, it read since.                                                      *)
CallsEnd ==
    \A v \in Visitors : visits[v] # NoVisit =>
        /\ visits[v].stage = "missed" => visits[v].given = Never
        /\ visits[v].stage = "asked" =>
              visits[v].since <= clock /\ clock <= visits[v].since + RequestTimeout
        /\ visits[v].given # Never =>
              visits[v].since <= visits[v].given /\ visits[v].given <= clock

(* An entry dies within its lifetime of the reading, or of the failure. *)
EntriesDie ==
    \A t \in Threads : entries[t] # Never =>
        /\ entries[t].ok =>
              entries[t].expires <= entries[t].at + SuccessTTL + RequestTimeout
        /\ ~entries[t].ok =>
              failed[t] # Never /\ entries[t].expires <= failed[t] + FailureTTL

DiscussionInv ==
    DiscussionTypes /\ Rationed /\ CallsEnd /\ EntriesDie /\ BillBounded /\ RefusedOnlyWhenSpent

-----------------------------------------------------------------------------
LEMMA InitDiscusses == InitDiscussion => DiscussionInv
BY DiscussionAssumption
DEF InitDiscussion, DiscussionInv, DiscussionTypes, Rationed, CallsEnd, EntriesDie, BillBounded,
    RefusedOnlyWhenSpent

(* Growing the list of calls takes no call out of a stretch of time. *)
LEMMA StretchGrows ==
    ASSUME NEW old \in Seq(Nat), NEW new \in Seq(Nat), Len(old) <= Len(new),
           \A i \in DOMAIN old : new[i] = old[i],
           NEW at
    PROVE  LET was == Cardinality({i \in DOMAIN old : old[i] <= at /\ old[i] > at - OutboundWindow})
               is == Cardinality({i \in DOMAIN new : new[i] <= at /\ new[i] > at - OutboundWindow})
           IN  was <= is /\ was \in Nat /\ is \in Nat
<1> DEFINE few == {i \in DOMAIN old : old[i] <= at /\ old[i] > at - OutboundWindow}
           many == {i \in DOMAIN new : new[i] <= at /\ new[i] > at - OutboundWindow}
<1>1. DOMAIN old = 1 .. Len(old) /\ DOMAIN new = 1 .. Len(new) OBVIOUS
<1>2. IsFiniteSet(1 .. Len(new)) BY FS_Interval
<1>3. many \subseteq 1 .. Len(new) BY <1>1
<1>4. IsFiniteSet(many) BY <1>2, <1>3, FS_Subset
<1>5. few \subseteq many BY <1>1
<1>6. /\ Cardinality(few) <= Cardinality(many)
      /\ Cardinality(few) \in Nat /\ Cardinality(many) \in Nat
  BY <1>4, <1>5, FS_Subset, FS_CardinalityType
<1> QED BY <1>6

LEMMA LookKeeps == ASSUME NEW v \in Visitors, DiscussionInv, Look(v) PROVE DiscussionInv'
<1> USE DEF DiscussionInv
<1>1. PICK t \in Threads :
          IF Live(t)
          THEN /\ Says(t, IF entries[t].ok THEN "ok" ELSE "unavailable", entries[t].at, TRUE)
               /\ UNCHANGED visits
          ELSE /\ visits' = [visits EXCEPT ![v] =
                                [thread |-> t, stage |-> "missed", since |-> clock, given |-> Never]]
               /\ UNCHANGED heard
  BY DEF Look
<1>2. UNCHANGED <<clock, entries, windowStart, used, calls, failed>> BY DEF Look
<1>3. visits' \in [Visitors -> Visit \cup {NoVisit}] /\ CallsEnd'
  <2>1. CASE Live(t) BY <1>1, <1>2, <2>1 DEF DiscussionTypes, CallsEnd
  <2>2. CASE ~Live(t)
    <3>1. \A w \in Visitors : visits'[w] = IF w = v
             THEN [thread |-> t, stage |-> "missed", since |-> clock, given |-> Never]
             ELSE visits[w]
      BY <1>1, <2>2 DEF DiscussionTypes
    <3>2. visits' \in [Visitors -> Visit \cup {NoVisit}]
      BY <1>1, <2>2 DEF DiscussionTypes, Visit
    <3> QED BY <1>2, <3>1, <3>2 DEF CallsEnd
  <2> QED BY <2>1, <2>2
<1>4. RefusedOnlyWhenSpent'
  <2>1. heard' = heard \/ heard'.reason # "rate_limited" BY <1>1 DEF Says
  <2> QED BY <1>2, <2>1 DEF RefusedOnlyWhenSpent
<1> QED BY <1>2, <1>3, <1>4 DEF DiscussionTypes, Rationed, EntriesDie, BillBounded

LEMMA ReadKeeps == ASSUME NEW v \in Visitors, DiscussionInv, GitHubReads(v) PROVE DiscussionInv'
<1> USE DEF DiscussionInv
<1>1. \A w \in Visitors : w # v => visits'[w] = visits[w]
  BY DEF GitHubReads, DiscussionTypes
<1>2. /\ visits' \in [Visitors -> Visit \cup {NoVisit}]
      /\ visits'[v] = [visits[v] EXCEPT !.given = clock]
  BY DEF GitHubReads, DiscussionTypes, Visit
<1>3. CallsEnd' BY <1>1, <1>2, DiscussionAssumption DEF GitHubReads, CallsEnd, DiscussionTypes, Visit
<1> QED
  BY <1>2, <1>3
  DEF GitHubReads, DiscussionTypes, Rationed, EntriesDie, BillBounded, RefusedOnlyWhenSpent

LEMMA TimeKeeps == ASSUME DiscussionInv, TimePasses PROVE DiscussionInv'
<1> USE DEF DiscussionInv
<1>1. CallsEnd' BY DiscussionAssumption DEF TimePasses, CallsEnd, DiscussionTypes, Visit
<1>2. Rationed' BY DEF TimePasses, Rationed, DiscussionTypes
<1> QED
  BY <1>1, <1>2
  DEF TimePasses, DiscussionTypes, Rationed, EntriesDie, BillBounded, RefusedOnlyWhenSpent

LEMMA ArriveKeeps ==
    ASSUME NEW v \in Visitors, DiscussionInv, Fetched(v) \/ FetchFailed(v)
    PROVE  DiscussionInv'
<1> USE DEF DiscussionInv
<1> DEFINE t == visits[v].thread
<1>0. visits[v] # NoVisit /\ visits[v] \in Visit /\ visits[v].stage = "asked" /\ t \in Threads
  BY DEF Fetched, FetchFailed, Arrives, DiscussionTypes, Visit
<1>1. UNCHANGED <<clock, windowStart, used, calls>> /\ visits' = [visits EXCEPT ![v] = NoVisit]
  BY DEF Fetched, FetchFailed, Arrives
<1>2. CallsEnd' /\ visits' \in [Visitors -> Visit \cup {NoVisit}]
  BY <1>1 DEF CallsEnd, DiscussionTypes
<1>3. heard'.reason # "rate_limited"
  <2>1. CASE Fetched(v)
    <3>1. heard' = [reason |-> "ok", of |-> t, at |-> visits[v].given, cached |-> FALSE]
      BY <2>1 DEF Fetched, Arrives, Says
    <3> QED BY <3>1
  <2>2. CASE FetchFailed(v)
    <3>1. heard' = [reason |-> "unavailable", of |-> t, at |-> clock, cached |-> FALSE]
      BY <2>2 DEF FetchFailed, Arrives, Says
    <3> QED BY <3>1
  <2> QED BY <2>1, <2>2
<1>4. /\ entries' \in [Threads -> Entry \cup {Never}] /\ failed' \in [Threads -> Nat \cup {Never}]
      /\ EntriesDie'
  <2>1. CASE Fetched(v)
    <3>1. /\ visits[v].given \in Nat
          /\ entries' = [entries EXCEPT ![t] =
                            [ok |-> TRUE, at |-> visits[v].given, expires |-> clock + SuccessTTL]]
          /\ failed' = failed
      BY <1>0, <2>1 DEF Fetched, Arrives, Put, DiscussionTypes, Visit
    <3>2. entries' \in [Threads -> Entry \cup {Never}]
      BY <1>0, <3>1, DiscussionAssumption DEF DiscussionTypes, Entry
    <3>3. visits[v].given # Never BY <2>1 DEF Fetched
    <3>4. clock + SuccessTTL <= visits[v].given + SuccessTTL + RequestTimeout
      <4>1. clock <= visits[v].since + RequestTimeout /\ visits[v].since <= visits[v].given
        BY <1>0, <3>3 DEF CallsEnd
      <4>2. clock \in Nat /\ visits[v].since \in Nat BY <1>0 DEF DiscussionTypes, Visit
      <4> QED BY <3>1, <4>1, <4>2, DiscussionAssumption
    <3>5. \A s \in Threads : entries'[s] = IF s = t
             THEN [ok |-> TRUE, at |-> visits[v].given, expires |-> clock + SuccessTTL]
             ELSE entries[s]
      BY <3>1, <1>0 DEF DiscussionTypes
    <3>6. EntriesDie' BY <3>1, <3>4, <3>5, <1>0 DEF EntriesDie
    <3> QED BY <3>1, <3>2, <3>6 DEF DiscussionTypes
  <2>2. CASE FetchFailed(v)
    <3>1. /\ entries' = [entries EXCEPT ![t] =
                            [ok |-> FALSE, at |-> clock, expires |-> clock + FailureTTL]]
          /\ failed' = [failed EXCEPT ![t] = clock]
      BY <2>2 DEF FetchFailed, Arrives, Put
    <3>2. entries' \in [Threads -> Entry \cup {Never}] /\ failed' \in [Threads -> Nat \cup {Never}]
      BY <1>0, <3>1, DiscussionAssumption DEF DiscussionTypes, Entry
    <3>5. \A s \in Threads :
             /\ entries'[s] = IF s = t
                  THEN [ok |-> FALSE, at |-> clock, expires |-> clock + FailureTTL]
                  ELSE entries[s]
             /\ failed'[s] = IF s = t THEN clock ELSE failed[s]
      BY <3>1, <1>0 DEF DiscussionTypes
    <3>6. EntriesDie'
      <4> SUFFICES ASSUME NEW s \in Threads, entries'[s] # Never
          PROVE  /\ entries'[s].ok =>
                      entries'[s].expires <= entries'[s].at + SuccessTTL + RequestTimeout
                 /\ ~entries'[s].ok =>
                      failed'[s] # Never /\ entries'[s].expires <= failed'[s] + FailureTTL
          BY DEF EntriesDie
      <4>1. CASE s = t BY <4>1, <3>5, <1>0, DiscussionAssumption DEF DiscussionTypes
      <4>2. CASE s # t BY <4>2, <3>5, <1>0 DEF EntriesDie
      <4> QED BY <4>1, <4>2
    <3> QED BY <3>2, <3>6
  <2> QED BY <2>1, <2>2
<1> QED
  BY <1>1, <1>2, <1>3, <1>4
  DEF DiscussionTypes, Rationed, BillBounded, RefusedOnlyWhenSpent

(* The budget's account when a call leaves: in a window that begins with   *)
(* it, and in one that goes on.                                            *)
Account(list, start, spent, now) ==
    /\ start <= now /\ spent <= MaxOutboundPerWindow /\ spent <= Len(list)
    /\ \A i \in 1 .. Len(list) : list[i] <= now
    /\ \A i \in 1 .. Len(list) : i > Len(list) - spent => list[i] >= start
    /\ \A i \in 1 .. Len(list) : i <= Len(list) - spent => list[i] <= start
    /\ \A i \in 1 .. Len(list) :
          i + MaxOutboundPerWindow <= Len(list) - spent => list[i] <= start - OutboundWindow

TwoRations(list) ==
    \A i \in 1 .. Len(list), j \in 1 .. Len(list) :
        j = i + 2 * MaxOutboundPerWindow => list[j] - list[i] >= OutboundWindow

LEMMA AccountNext ==
    ASSUME NEW list \in Seq(Nat), NEW start \in Nat, NEW spent \in Nat, NEW now \in Nat,
           Account(list, start, spent, now), TwoRations(list)
    PROVE  /\ now - start >= OutboundWindow =>
                 /\ Account(Append(list, now), now, 1, now)
                 /\ TwoRations(Append(list, now))
           /\ spent < MaxOutboundPerWindow =>
                 /\ Account(Append(list, now), start, spent + 1, now)
                 /\ TwoRations(Append(list, now))
<1> USE DiscussionAssumption
<1> DEFINE new == Append(list, now)
           n == Len(list)
           M == MaxOutboundPerWindow
           W == OutboundWindow
<1>1. /\ Len(new) = n + 1 /\ n \in Nat /\ new[n + 1] = now
      /\ \A i \in 1 .. n : new[i] = list[i] /\ list[i] \in Nat
  OBVIOUS
<1>2. M \in Nat /\ M >= 1 /\ W \in Nat OBVIOUS
<1>3. /\ start <= now /\ spent <= M /\ spent <= n
      /\ \A i \in 1 .. n : list[i] <= now
      /\ \A i \in 1 .. n : i > n - spent => list[i] >= start
      /\ \A i \in 1 .. n : i <= n - spent => list[i] <= start
      /\ \A i \in 1 .. n : i + M <= n - spent => list[i] <= start - W
      /\ \A i \in 1 .. n, j \in 1 .. n : j = i + 2 * M => list[j] - list[i] >= W
  BY DEF Account, TwoRations
<1> HIDE DEF new, n, M, W
<1>4. ASSUME now - start >= W
      PROVE  Account(new, now, 1, now) /\ TwoRations(new)
  <2>1. \A i \in 1 .. n : i + M <= n => list[i] <= now - W
    <3> SUFFICES ASSUME NEW i \in 1 .. n, i + M <= n PROVE list[i] <= now - W OBVIOUS
    <3>1. i <= n - spent BY <1>1, <1>2, <1>3
    <3>2. list[i] <= start /\ list[i] \in Nat BY <1>1, <1>3, <3>1
    <3> QED BY <1>2, <1>4, <3>2
  <2>2. Account(new, now, 1, now)
    <3>1. \A i \in 1 .. (n + 1) : new[i] <= now BY <1>1, <1>3
    <3>2. \A i \in 1 .. (n + 1) : i > n + 1 - 1 => new[i] >= now BY <1>1
    <3>3. \A i \in 1 .. (n + 1) : i + M <= n + 1 - 1 => new[i] <= now - W
      <4> SUFFICES ASSUME NEW i \in 1 .. (n + 1), i + M <= n PROVE new[i] <= now - W
          BY <1>1, <1>2
      <4> QED BY <1>1, <1>2, <2>1
    <3> QED BY <1>1, <1>2, <3>1, <3>2, <3>3 DEF Account, M, W
  <2>3. TwoRations(new)
    <3> SUFFICES ASSUME NEW i \in 1 .. (n + 1), NEW j \in 1 .. (n + 1), j = i + 2 * M
        PROVE  new[j] - new[i] >= W
        BY <1>1 DEF TwoRations, M, W
    <3>1. i \in 1 .. n /\ i + M <= n BY <1>1, <1>2
    <3>2. CASE j = n + 1
      <4>1. list[i] <= now - W BY <2>1, <3>1
      <4>2. new[j] = now /\ new[i] = list[i] /\ list[i] \in Nat BY <1>1, <3>1, <3>2
      <4> QED BY <1>2, <4>1, <4>2
    <3>3. CASE j # n + 1
      <4>1. j \in 1 .. n BY <1>1, <3>3
      <4>2. list[j] - list[i] >= W BY <1>3, <3>1, <4>1
      <4>3. new[j] = list[j] /\ new[i] = list[i] BY <1>1, <3>1, <4>1
      <4> QED BY <4>2, <4>3
    <3> QED BY <3>2, <3>3
  <2> QED BY <2>2, <2>3
<1>5. ASSUME spent < M
      PROVE  Account(new, start, spent + 1, now) /\ TwoRations(new)
  <2>1. \A i \in 1 .. n : i + M <= n - spent => list[i] <= start - W /\ list[i] <= now - W
    <3> SUFFICES ASSUME NEW i \in 1 .. n, i + M <= n - spent
        PROVE  list[i] <= start - W /\ list[i] <= now - W
        OBVIOUS
    <3>1. list[i] <= start - W /\ list[i] \in Nat BY <1>1, <1>3
    <3> QED BY <1>2, <1>3, <3>1
  <2>2. Account(new, start, spent + 1, now)
    <3>1. \A i \in 1 .. (n + 1) : new[i] <= now BY <1>1, <1>3
    <3>2. \A i \in 1 .. (n + 1) : i > n + 1 - (spent + 1) => new[i] >= start BY <1>1, <1>3
    <3>3. \A i \in 1 .. (n + 1) : i <= n + 1 - (spent + 1) => new[i] <= start BY <1>1, <1>3
    <3>4. \A i \in 1 .. (n + 1) : i + M <= n + 1 - (spent + 1) => new[i] <= start - W
      <4> SUFFICES ASSUME NEW i \in 1 .. (n + 1), i + M <= n - spent PROVE new[i] <= start - W
          BY <1>1, <1>2
      <4> QED BY <1>1, <1>2, <2>1
    <3> QED BY <1>1, <1>2, <1>3, <1>5, <3>1, <3>2, <3>3, <3>4 DEF Account, M, W
  <2>3. TwoRations(new)
    <3> SUFFICES ASSUME NEW i \in 1 .. (n + 1), NEW j \in 1 .. (n + 1), j = i + 2 * M
        PROVE  new[j] - new[i] >= W
        BY <1>1 DEF TwoRations, M, W
    <3>1. i \in 1 .. n BY <1>1, <1>2
    <3>2. CASE j = n + 1
      <4>1. i + M <= n - spent BY <1>1, <1>2, <1>5, <3>2
      <4>2. list[i] <= now - W BY <2>1, <3>1, <4>1
      <4>3. new[j] = now /\ new[i] = list[i] /\ list[i] \in Nat BY <1>1, <3>1, <3>2
      <4> QED BY <1>2, <4>2, <4>3
    <3>3. CASE j # n + 1
      <4>1. j \in 1 .. n BY <1>1, <3>3
      <4>2. list[j] - list[i] >= W BY <1>3, <3>1, <4>1
      <4> QED BY <1>1, <3>1, <4>1, <4>2
    <3> QED BY <3>2, <3>3
  <2> QED BY <2>2, <2>3
<1> QED BY <1>4, <1>5 DEF new, M, W

(* What Take does, by whether the window rolls and whether it is spent. *)
LEMMA TakeKeeps == ASSUME NEW v \in Visitors, DiscussionInv, Take(v) PROVE DiscussionInv'
<1> USE DiscussionAssumption DEF DiscussionInv
<1> DEFINE start == IF Rolls THEN clock ELSE windowStart
           spent == IF Rolls THEN 0 ELSE used
           n == Len(calls)
<1>0. visits[v] # NoVisit /\ visits[v] \in Visit BY DEF Take, DiscussionTypes
<1>1. UNCHANGED <<clock, entries, failed>> /\ windowStart' = start BY DEF Take
<1>2. /\ start \in Nat /\ spent \in Nat /\ n \in Nat /\ DOMAIN calls = 1 .. n
      /\ \A i \in 1 .. n : calls[i] \in Nat
      /\ clock \in Nat /\ windowStart \in Nat /\ used \in Nat
  BY DEF DiscussionTypes
<1>5. /\ windowStart <= clock /\ used <= MaxOutboundPerWindow /\ used <= n
      /\ \A i \in 1 .. n : calls[i] <= clock
      /\ \A i \in 1 .. n : i > n - used => calls[i] >= windowStart
      /\ \A i \in 1 .. n : i <= n - used => calls[i] <= windowStart
      /\ \A i \in 1 .. n :
            i + MaxOutboundPerWindow <= n - used => calls[i] <= windowStart - OutboundWindow
  BY DEF Rationed
<1>3. CASE spent >= MaxOutboundPerWindow
  <2>1. /\ used' = spent /\ calls' = calls /\ visits' = [visits EXCEPT ![v] = NoVisit]
        /\ heard' = [reason |-> "rate_limited", of |-> visits[v].thread, at |-> clock,
                     cached |-> FALSE]
    BY <1>3 DEF Take, Says
  <2>2. ~Rolls BY <1>3
  <2>3. windowStart' = windowStart /\ used' = used /\ used = MaxOutboundPerWindow
    BY <1>1, <1>2, <1>3, <1>5, <2>1, <2>2
  <2>4. CallsEnd' /\ visits' \in [Visitors -> Visit \cup {NoVisit}]
    BY <1>1, <2>1 DEF CallsEnd, DiscussionTypes
  <2>5. RefusedOnlyWhenSpent'
    <3> DEFINE all == {i \in DOMAIN calls : calls[i] <= clock /\ calls[i] > clock - OutboundWindow}
               last == (n - used + 1) .. n
    <3>1. clock - windowStart < OutboundWindow BY <2>2 DEF Rolls, DiscussionTypes
    <3>2. last \subseteq all
      <4> SUFFICES ASSUME NEW i \in last PROVE i \in all OBVIOUS
      <4>1. i \in DOMAIN calls /\ i > n - used BY <1>2, <1>5
      <4>2. calls[i] \in Nat BY <4>1 DEF DiscussionTypes
      <4> QED BY <1>2, <1>5, <4>1, <4>2, <3>1
    <3>3. IsFiniteSet(1 .. n) BY <1>2, FS_Interval
    <3>4. all \subseteq 1 .. n BY <1>2
    <3>5. IsFiniteSet(all) BY <3>3, <3>4, FS_Subset
    <3>6. Cardinality(last) = used
      <4>1. n - used + 1 \in Int /\ used \in Nat /\ used <= n BY <1>2 DEF DiscussionTypes, Rationed
      <4>2. \A a \in Int, b \in Int : a <= b + 1 => Cardinality(a .. b) = b - a + 1
        BY FS_Interval
      <4>3. Cardinality(last) = n - (n - used + 1) + 1 BY <1>2, <4>1, <4>2
      <4> QED BY <1>2, <4>1, <4>3
    <3>7. Cardinality(last) <= Cardinality(all) BY <3>2, <3>5, FS_Subset
    <3>8. Cardinality(all) \in Nat BY <3>5, FS_CardinalityType
    <3> QED BY <2>1, <2>3, <3>6, <3>7, <3>8 DEF RefusedOnlyWhenSpent
  <2> QED
    BY <1>1, <2>1, <2>3, <2>4, <2>5 DEF DiscussionTypes, Rationed, EntriesDie, BillBounded
<1>4. CASE ~(spent >= MaxOutboundPerWindow)
  <2>1. /\ used' = spent + 1 /\ calls' = Append(calls, clock) /\ heard' = heard
        /\ visits' = [visits EXCEPT ![v].stage = "asked", ![v].since = clock]
    BY <1>4 DEF Take
  <2>2. /\ calls' \in Seq(Nat) /\ Len(calls') = n + 1 /\ DOMAIN calls' = 1 .. (n + 1)
        /\ \A i \in 1 .. n : calls'[i] = calls[i]
        /\ calls'[n + 1] = clock
    BY <2>1 DEF DiscussionTypes
  <2>3. visits' \in [Visitors -> Visit \cup {NoVisit}] /\ CallsEnd'
    <3>1. \A w \in Visitors : visits'[w] =
             IF w = v THEN [visits[v] EXCEPT !.stage = "asked", !.since = clock] ELSE visits[w]
      BY <2>1 DEF DiscussionTypes
    <3>2. /\ visits'[v] \in Visit /\ visits'[v].stage = "asked" /\ visits'[v].since = clock
          /\ visits'[v].given = visits[v].given
      BY <1>0, <3>1 DEF DiscussionTypes, Visit
    <3>3. visits' \in [Visitors -> Visit \cup {NoVisit}] BY <2>1, <3>1, <3>2 DEF DiscussionTypes
    <3>4. visits[v].given = Never BY <1>0 DEF CallsEnd, Take
    <3>5. clock <= clock + RequestTimeout BY DEF DiscussionTypes
    <3>6. CallsEnd' BY <1>1, <3>1, <3>2, <3>4, <3>5 DEF CallsEnd, DiscussionTypes
    <3> QED BY <3>3, <3>6
  <2>4. Rationed' /\ BillBounded'
    <3>1. /\ calls \in Seq(Nat) /\ windowStart \in Nat /\ used \in Nat /\ clock \in Nat
          /\ Account(calls, windowStart, used, clock)
      BY DEF DiscussionTypes, Rationed, Account
    <3>2. TwoRations(calls)
      BY <1>2 DEF BillBounded, TwoRations
    <3>3. Account(calls', windowStart', used', clock) /\ TwoRations(calls')
      <4>1. CASE Rolls
        BY <3>1, <3>2, <4>1, <1>1, <2>1, AccountNext DEF Rolls
      <4>2. CASE ~Rolls
        <5>1. used < MaxOutboundPerWindow BY <1>2, <1>4, <4>2
        <5> QED BY <3>1, <3>2, <4>2, <5>1, <1>1, <2>1, AccountNext
      <4> QED BY <4>1, <4>2
    <3>4. Rationed' BY <1>1, <3>3 DEF Account, Rationed
    <3>5. BillBounded'
      <4> SUFFICES ASSUME NEW i \in DOMAIN calls', i + 2 * MaxOutboundPerWindow \in DOMAIN calls'
          PROVE  calls'[i + 2 * MaxOutboundPerWindow] - calls'[i] >= OutboundWindow
          BY DEF BillBounded
      <4> QED BY <2>2, <3>3 DEF TwoRations
    <3> QED BY <3>4, <3>5
  <2>5. RefusedOnlyWhenSpent'
    <3> DEFINE was == Cardinality({i \in DOMAIN calls : /\ calls[i] <= heard.at
                                                       /\ calls[i] > heard.at - OutboundWindow})
               is == Cardinality({i \in DOMAIN calls' : /\ calls'[i] <= heard.at
                                                        /\ calls'[i] > heard.at - OutboundWindow})
    <3>1. /\ calls \in Seq(Nat) /\ calls' \in Seq(Nat) /\ Len(calls) <= Len(calls')
          /\ \A i \in DOMAIN calls : calls'[i] = calls[i]
      BY <1>2, <2>2 DEF DiscussionTypes
    <3>2. was <= is /\ was \in Nat /\ is \in Nat BY <3>1, StretchGrows
    <3> HIDE DEF was, is
    <3>3. heard.reason = "rate_limited" => was >= MaxOutboundPerWindow
      BY DEF RefusedOnlyWhenSpent, was
    <3>4. heard.reason = "rate_limited" => is >= MaxOutboundPerWindow BY <3>2, <3>3
    <3> QED BY <2>1, <3>4 DEF RefusedOnlyWhenSpent, is
  <2>6. DiscussionTypes'
    <3>1. spent + 1 \in Nat BY <1>2
    <3> HIDE DEF spent, start
    <3>2. used' \in Nat /\ windowStart' \in Nat BY <1>1, <1>2, <2>1, <3>1
    <3> QED BY <1>1, <2>2, <2>3, <3>2 DEF DiscussionTypes
  <2>7. EntriesDie' BY <1>1 DEF EntriesDie
  <2> QED BY <2>3, <2>4, <2>5, <2>6, <2>7
<1> QED BY <1>3, <1>4

(* The cache answers from an entry that is alive; no other step does. *)
LEMMA CacheAnswers ==
    ASSUME DiscussionInv, [DiscussionNext]_discussionVars
    PROVE  [CacheSpeaksFresh]_discussionVars
<1> USE DiscussionAssumption DEF DiscussionInv
<1> SUFFICES ASSUME DiscussionNext, Answered PROVE CacheSpeaksFresh
    BY DEF CacheSpeaksFresh
<1>1. PICK v \in Visitors : Look(v) \/ Take(v) \/ GitHubReads(v) \/ Fetched(v) \/ FetchFailed(v)
  BY DEF DiscussionNext, TimePasses, Answered, DiscussionTypes
<1>2. Look(v)
  <2>1. heard' # heard /\ heard'.cached BY DEF Answered
  <2>2. ~GitHubReads(v) BY <2>1 DEF GitHubReads
  <2>3. ASSUME NEW ok \in BOOLEAN, Arrives(v, ok) PROVE FALSE
    <3>1. heard' = [reason |-> IF ok THEN "ok" ELSE "unavailable", of |-> visits[v].thread,
                    at |-> IF ok THEN visits[v].given ELSE clock, cached |-> FALSE]
      BY <2>3 DEF Arrives, Says
    <3> QED BY <2>1, <3>1
  <2>4. ~Take(v) BY <2>1 DEF Take, Says
  <2> QED BY <1>1, <2>2, <2>3, <2>4 DEF Fetched, FetchFailed
<1>3. PICK t \in Threads :
          /\ Live(t)
          /\ heard' = [reason |-> IF entries[t].ok THEN "ok" ELSE "unavailable",
                       of |-> t, at |-> entries[t].at, cached |-> TRUE]
  BY <1>2 DEF Look, Says, Answered
<1>4. /\ entries[t] # Never /\ clock < entries[t].expires /\ clock \in Nat
      /\ entries[t].ok \in BOOLEAN /\ entries[t].at \in Nat /\ entries[t].expires \in Nat
      /\ failed[t] \in Nat \cup {Never}
  BY <1>3 DEF Live, DiscussionTypes, Entry
<1>5. CASE entries[t].ok
  <2>1. heard'.reason = "ok" /\ heard'.at = entries[t].at BY <1>3, <1>5
  <2>2. entries[t].expires <= entries[t].at + SuccessTTL + RequestTimeout
    BY <1>4, <1>5 DEF EntriesDie
  <2>3. clock - entries[t].at < SuccessTTL + RequestTimeout BY <1>4, <2>2
  <2> QED BY <2>1, <2>3 DEF CacheSpeaksFresh
<1>6. CASE ~entries[t].ok
  <2>1. heard'.reason = "unavailable" /\ heard'.of = t BY <1>3, <1>6
  <2>2. failed[t] # Never /\ entries[t].expires <= failed[t] + FailureTTL
    BY <1>4, <1>6 DEF EntriesDie
  <2>3. clock - failed[t] < FailureTTL BY <1>4, <2>2
  <2> QED BY <2>1, <2>2, <2>3 DEF CacheSpeaksFresh
<1> QED BY <1>5, <1>6

LEMMA DiscussionStep == DiscussionInv /\ [DiscussionNext]_discussionVars => DiscussionInv'
<1> SUFFICES ASSUME DiscussionInv, [DiscussionNext]_discussionVars PROVE DiscussionInv'
    OBVIOUS
<1>1. CASE UNCHANGED discussionVars
  BY <1>1
  DEF discussionVars, DiscussionInv, DiscussionTypes, Rationed, CallsEnd, EntriesDie, BillBounded,
      RefusedOnlyWhenSpent
<1>2. CASE TimePasses BY <1>2, TimeKeeps
<1>3. CASE \E v \in Visitors :
              Look(v) \/ Take(v) \/ GitHubReads(v) \/ Fetched(v) \/ FetchFailed(v)
  BY <1>3, LookKeeps, TakeKeeps, ReadKeeps, ArriveKeeps
<1> QED BY <1>1, <1>2, <1>3 DEF DiscussionNext

(* The bill is bounded, only a spent budget refuses, and what the cache    *)
(* says is no older than it may be, for any number of readers and threads. *)
THEOREM DiscussionServes == DiscussionSpec => DiscussionHolds
<1>1. InitDiscussion => DiscussionInv BY InitDiscusses
<1>2. DiscussionInv => BillBounded /\ RefusedOnlyWhenSpent BY DEF DiscussionInv
<1>3. DiscussionInv /\ [DiscussionNext]_discussionVars => [CacheSpeaksFresh]_discussionVars
  BY CacheAnswers
<1> QED BY <1>1, <1>2, <1>3, DiscussionStep, PTL DEF DiscussionSpec, DiscussionHolds

-----------------------------------------------------------------------------
(* CourseCatalog. *)
Course == [version : Nat, package : Packages, visibility : Visibilities,
           plain : Packages \cup {NoText}]
PublishActions == {"publish", "rollback"}
Steps == {"begun", "counted", "numbered", "read", "waiting", "row"}
Case == [action : PublishActions \cup {"visibility", "unpublish"},
         package : Packages \cup {NoText}, visibility : Visibilities,
         version : Nat, row : Nat, step : Steps]
Page == [tag : Nat, page : Packages]

CatalogTypes ==
    /\ live \in Course \cup {NoCourse}
    /\ archive \in Seq(Packages)
    /\ audited \in Visibilities /\ raced \in BOOLEAN
    /\ office \in [Operators -> Case \cup {Quiet}]
    /\ scanned \in Packages \cup {NoText}
    /\ asking \in [Readers -> Page \cup {NoPage}]
    /\ DOMAIN held = Readers

Numbered(o) == Publishing(o) /\ office[o].step \notin {"begun", "counted"}

(* What holds of a transaction that is open, besides its type. *)
GoodCase(o, case) ==
    LET publishes == case.action \in PublishActions
    IN  /\ case.step \in {"counted", "numbered", "read"} => publishes
        /\ publishes => case.package \in Packages
        /\ publishes /\ case.step = "counted" => case.version \in 1 .. (Len(archive) + 1)
        /\ publishes /\ case.step \notin {"begun", "counted"} =>
              /\ case.version = Len(archive) + 1
              /\ \A p \in Operators \ {o} : ~Numbered(p)
        /\ publishes /\ case.step \in {"read", "waiting", "row"} =>
              raced \/ case.visibility = audited
        /\ publishes /\ case.step \in {"waiting", "row"} =>
              live = NoCourse \/ live.version = case.row
        /\ ~publishes /\ case.step = "row" => case.row # 0
        /\ case.step = "row" /\ case.row # 0 =>
              /\ live # NoCourse /\ live.version = case.row
              /\ \A p \in Operators \ {o} : ~HasRow(p)

OfficeInv == \A o \in Operators : office[o] # Quiet => GoodCase(o, office[o])

LiveInv ==
    /\ live # NoCourse => Len(archive) >= 1
    /\ live = NoCourse => audited = "public"
    /\ scanned # NoText /\ live # NoCourse /\ live.plain = NoText => scanned = live.package

Archived(page) == page.tag \in DOMAIN archive /\ page.page = archive[page.tag]

ReaderInv ==
    \A r \in Readers :
        /\ asking[r] # NoPage => Archived(asking[r])
        /\ held[r] # NoPage => Archived(held[r])

CatalogInv ==
    CatalogTypes /\ OfficeInv /\ LiveInv /\ ReaderInv /\ LiveIsArchived /\ NotModifiedIsWhole

-----------------------------------------------------------------------------
LEMMA InitIsGood == InitCatalog => CatalogInv
<1> SUFFICES ASSUME InitCatalog PROVE CatalogInv OBVIOUS
<1>1. /\ office = [o \in Operators |-> Quiet] /\ scanned = NoText
      /\ asking = [r \in Readers |-> NoPage] /\ held = [r \in Readers |-> NoPage]
      /\ audited = "public" /\ raced = FALSE
  BY DEF InitCatalog
<1>2. CASE live = NoCourse
  <2>1. archive \in Seq(Packages) BY <1>2 DEF InitCatalog
  <2>2. CatalogTypes BY <1>1, <1>2, <2>1 DEF CatalogTypes, Visibilities
  <2>3. OfficeInv /\ ReaderInv /\ NotModifiedIsWhole
    BY <1>1 DEF OfficeInv, ReaderInv, NotModifiedIsWhole
  <2>4. LiveInv /\ LiveIsArchived BY <1>1, <1>2 DEF LiveInv, LiveIsArchived
  <2> QED BY <2>2, <2>3, <2>4 DEF CatalogInv
<1>3. CASE live # NoCourse
  <2>1. /\ live \in Course /\ live.version = 1 /\ live.visibility = "public" /\ live.plain = NoText
        /\ archive = <<live.package>> /\ live.package \in Packages
    BY <1>3 DEF InitCatalog, Course, Visibilities
  <2>2. archive \in Seq(Packages) /\ Len(archive) = 1 /\ archive[1] = live.package BY <2>1
  <2>3. CatalogTypes BY <1>1, <2>1, <2>2 DEF CatalogTypes, Visibilities
  <2>4. OfficeInv /\ ReaderInv /\ NotModifiedIsWhole
    BY <1>1 DEF OfficeInv, ReaderInv, NotModifiedIsWhole
  <2>5. LiveInv BY <1>1, <1>3, <2>2 DEF LiveInv
  <2>6. LiveIsArchived BY <1>1, <2>1, <2>2 DEF LiveIsArchived
  <2> QED BY <2>3, <2>4, <2>5, <2>6 DEF CatalogInv
<1> QED BY <1>2, <1>3

-----------------------------------------------------------------------------
(* A statement that changes nothing but the transaction's own place.       *)
Elsewhere == <<live, archive, audited, raced, scanned, asking, held>>

LEMMA OneCase ==
    ASSUME NEW o \in Operators, NEW case, CatalogInv, UNCHANGED Elsewhere,
           office' = [office EXCEPT ![o] = case],
           case = Quiet \/ (case \in Case /\ GoodCase(o, case))
    PROVE  CatalogInv'
<1>1. /\ office' \in [Operators -> Case \cup {Quiet}] /\ office'[o] = case
      /\ \A p \in Operators \ {o} : office'[p] = office[p]
  BY DEF CatalogInv, CatalogTypes
<1>2. OfficeInv'
  <2> SUFFICES ASSUME NEW p \in Operators, office'[p] # Quiet PROVE GoodCase(p, office[p])'
      BY DEF OfficeInv
  <2>1. CASE p = o
    <3>1. \A q \in Operators \ {o} : (Numbered(q))' = Numbered(q) /\ (HasRow(q))' = HasRow(q)
      BY <1>1 DEF Numbered, Publishing, HasRow, At
    <3> QED BY <1>1, <2>1, <3>1 DEF GoodCase, Elsewhere
  <2>2. CASE p # o
    <3>1. office'[p] = office[p] /\ office[p] # Quiet /\ GoodCase(p, office[p])
      BY <1>1, <2>2 DEF CatalogInv, OfficeInv
    <3>2. office[p] \in Case BY <3>1 DEF CatalogInv, CatalogTypes
    <3>3. /\ \A q \in Operators \ {p} : q # o => (Numbered(q))' = Numbered(q) /\ (HasRow(q))' = HasRow(q)
          /\ Numbered(p) /\ Numbered(o)' => FALSE
          /\ HasRow(p) /\ HasRow(o)' => FALSE
      <4>1. \A q \in Operators \ {p} :
               q # o => (Numbered(q))' = Numbered(q) /\ (HasRow(q))' = HasRow(q)
        BY <1>1 DEF Numbered, Publishing, HasRow, At
      <4>2. Numbered(o)' => ~Numbered(p)
        BY <1>1, <2>2 DEF GoodCase, Numbered, Publishing, PublishActions
      <4>3. HasRow(o)' => ~HasRow(p)
        BY <1>1, <2>2 DEF GoodCase, HasRow, At
      <4> QED BY <4>1, <4>2, <4>3
    <3>4. office[p].action \in PublishActions /\ office[p].step \notin {"begun", "counted"} =>
             Numbered(p)
      BY <3>1 DEF Numbered, Publishing, PublishActions
    <3>5. office[p].step = "row" /\ office[p].row # 0 => HasRow(p)
      BY <3>1 DEF HasRow, At
    <3> QED BY <3>1, <3>3, <3>4, <3>5 DEF GoodCase, Elsewhere
  <2> QED BY <2>1, <2>2
<1> QED
  BY <1>1, <1>2
  DEF CatalogInv, CatalogTypes, LiveInv, ReaderInv, Archived, LiveIsArchived, NotModifiedIsWhole,
      Elsewhere

LEMMA OpenKeeps ==
    ASSUME NEW o \in Operators, CatalogInv,
           Publish(o) \/ Rollback(o) \/ SetVisibility(o) \/ Unpublish(o)
    PROVE  CatalogInv'
<1>1. ASSUME NEW action \in PublishActions \cup {"visibility", "unpublish"},
             NEW package \in Packages \cup {NoText}, NEW visibility \in Visibilities,
             action \in PublishActions => package \in Packages,
             Open(o, action, package, visibility)
      PROVE  CatalogInv'
  <2> DEFINE case == [action |-> action, package |-> package, visibility |-> visibility,
                      version |-> 0, row |-> 0, step |-> "begun"]
  <2>1. case \in Case /\ GoodCase(o, case) BY <1>1 DEF Case, Steps, GoodCase
  <2>2. office' = [office EXCEPT ![o] = case] /\ UNCHANGED Elsewhere BY <1>1 DEF Open, Elsewhere
  <2> HIDE DEF case
  <2> QED BY <2>1, <2>2, OneCase
<1>2. \A v \in DOMAIN archive : archive[v] \in Packages BY DEF CatalogInv, CatalogTypes
<1>3. CASE Publish(o) BY <1>1, <1>3 DEF Publish, PublishActions, Visibilities
<1>4. CASE Rollback(o) BY <1>1, <1>2, <1>4 DEF Rollback, PublishActions, Visibilities
<1>5. CASE SetVisibility(o) BY <1>1, <1>5 DEF SetVisibility, PublishActions
<1>6. CASE Unpublish(o) BY <1>1, <1>6 DEF Unpublish, PublishActions, Visibilities
<1> QED BY <1>3, <1>4, <1>5, <1>6

LEMMA CountKeepsCatalog ==
    ASSUME NEW o \in Operators, CatalogInv, CountVersions(o) \/ InsertVersion(o)
    PROVE  CatalogInv'
<1> DEFINE was == office[o]
           n == Len(archive)
<1>1. was # Quiet /\ was \in Case /\ GoodCase(o, was) /\ n \in Nat /\ UNCHANGED Elsewhere
      /\ DOMAIN archive = 1 .. n
  BY DEF CountVersions, InsertVersion, Publishing, At, CatalogInv, CatalogTypes, OfficeInv, Elsewhere
<1>2. CASE CountVersions(o)
  <2> DEFINE case == [was EXCEPT !.version = n + 1, !.step = "counted"]
  <2>1. office' = [office EXCEPT ![o] = case]
    BY <1>1, <1>2 DEF CountVersions, CatalogInv, CatalogTypes, Case
  <2>2. /\ case \in Case /\ case.action = was.action /\ case.package = was.package
        /\ case.version = n + 1 /\ case.step = "counted"
    <3>1. n + 1 \in Nat /\ "counted" \in Steps BY <1>1 DEF Steps
    <3>2. \A c \in Case, v \in Nat, s \in Steps :
             [c EXCEPT !.version = v, !.step = s] \in Case
      BY DEF Case
    <3> HIDE DEF n
    <3> QED BY <1>1, <3>1, <3>2 DEF Case
  <2>3. was.action \in PublishActions BY <1>2 DEF CountVersions, Publishing, PublishActions
  <2> HIDE DEF case
  <2>4. GoodCase(o, case) BY <1>1, <2>2, <2>3 DEF GoodCase
  <2> QED BY <1>1, <2>1, <2>2, <2>4, OneCase
<1>3. CASE InsertVersion(o) /\ was.version \in DOMAIN archive
  <2>1. office' = [office EXCEPT ![o] = Quiet] BY <1>3 DEF InsertVersion, Leave
  <2> QED BY <1>1, <2>1, OneCase
<1>4. CASE InsertVersion(o) /\ was.version \notin DOMAIN archive
  <2> DEFINE case == [was EXCEPT !.step = "numbered"]
  <2>1. office' = [office EXCEPT ![o] = case]
    BY <1>1, <1>4 DEF InsertVersion, Move, CatalogInv, CatalogTypes
  <2>2. /\ case \in Case /\ case.action = was.action /\ case.package = was.package
        /\ case.version = was.version /\ case.step = "numbered"
    BY <1>1 DEF Case, Steps
  <2> HIDE DEF case
  <2>3. was.step = "counted" /\ ~KeyHeld(o) BY <1>4 DEF InsertVersion, At
  <2>4. was.action \in PublishActions /\ was.version = n + 1
    BY <1>1, <1>4, <2>3 DEF GoodCase
  <2>5. \A p \in Operators \ {o} : ~Numbered(p)
    <3> SUFFICES ASSUME NEW p \in Operators \ {o}, Numbered(p) PROVE FALSE OBVIOUS
    <3>1. GoodCase(p, office[p]) BY DEF CatalogInv, OfficeInv, Numbered, Publishing
    <3>2. office[p].version = n + 1
      BY <3>1 DEF GoodCase, Numbered, Publishing, PublishActions
    <3> QED BY <2>3, <2>4, <3>2 DEF KeyHeld, Numbered
  <2>6. GoodCase(o, case) BY <1>1, <2>2, <2>4, <2>5 DEF GoodCase
  <2> QED BY <1>1, <2>1, <2>2, <2>6, OneCase
<1> QED BY <1>2, <1>3, <1>4

LEMMA ReadVisibilityKeeps ==
    ASSUME NEW o \in Operators, CatalogInv, ReadVisibility(o)
    PROVE  CatalogInv'
<1> DEFINE was == office[o]
           shown == IF live = NoCourse THEN "public" ELSE live.visibility
           case == [was EXCEPT !.step = "read", !.visibility = shown]
<1>1. was # Quiet /\ was \in Case /\ GoodCase(o, was) /\ was.step = "numbered"
      /\ UNCHANGED Elsewhere
  BY DEF ReadVisibility, At, CatalogInv, CatalogTypes, OfficeInv, Elsewhere
<1>2. shown \in Visibilities /\ (raced \/ shown = audited)
  <2>1. CASE live = NoCourse BY <2>1 DEF CatalogInv, LiveInv, Visibilities
  <2>2. CASE live # NoCourse
    BY <2>2 DEF CatalogInv, CatalogTypes, Course, LiveIsArchived
  <2> QED BY <2>1, <2>2
<1> HIDE DEF shown
<1>3. office' = [office EXCEPT ![o] = case]
  BY <1>1 DEF ReadVisibility, shown, CatalogInv, CatalogTypes, Case
<1>4. /\ case \in Case /\ case.action = was.action /\ case.package = was.package
      /\ case.version = was.version /\ case.step = "read" /\ case.visibility = shown
  BY <1>1, <1>2 DEF Case, Steps
<1> HIDE DEF case
<1>5. GoodCase(o, case) BY <1>1, <1>2, <1>4 DEF GoodCase
<1> QED BY <1>1, <1>3, <1>4, <1>5, OneCase

LEMMA ChooseRowKeeps ==
    ASSUME NEW o \in Operators, CatalogInv, ChooseRow(o)
    PROVE  CatalogInv'
<1> DEFINE was == office[o]
           chosen == IF live = NoCourse THEN 0 ELSE live.version
           case == [was EXCEPT !.step = "waiting", !.row = chosen]
<1>1. was # Quiet /\ was \in Case /\ GoodCase(o, was) /\ UNCHANGED Elsewhere
  BY DEF ChooseRow, At, CatalogInv, CatalogTypes, OfficeInv, Elsewhere
<1>2. was.action \in PublishActions => was.step = "read"
  BY <1>1 DEF ChooseRow, Publishing, PublishActions, At
<1>3. chosen \in Nat /\ (live = NoCourse \/ live.version = chosen)
  BY DEF CatalogInv, CatalogTypes, Course
<1> HIDE DEF chosen
<1>4. office' = [office EXCEPT ![o] = case]
  BY <1>1 DEF ChooseRow, chosen, CatalogInv, CatalogTypes, Case
<1>5. /\ case \in Case /\ case.action = was.action /\ case.package = was.package
      /\ case.version = was.version /\ case.step = "waiting" /\ case.visibility = was.visibility
      /\ case.row = chosen
  BY <1>1, <1>3 DEF Case, Steps
<1> HIDE DEF case
<1>6. GoodCase(o, case) BY <1>1, <1>2, <1>3, <1>5 DEF GoodCase
<1> QED BY <1>1, <1>4, <1>5, <1>6, OneCase

LEMMA TakeRowKeeps ==
    ASSUME NEW o \in Operators, CatalogInv, TakeRow(o)
    PROVE  CatalogInv'
<1> DEFINE was == office[o]
           there == live # NoCourse /\ live.version = was.row
<1>1. was # Quiet /\ was \in Case /\ GoodCase(o, was) /\ was.step = "waiting"
      /\ UNCHANGED Elsewhere
  BY DEF TakeRow, At, CatalogInv, CatalogTypes, OfficeInv, Elsewhere
<1>2. CASE there
  <2> DEFINE case == [was EXCEPT !.step = "row"]
  <2>1. office' = [office EXCEPT ![o] = case]
    BY <1>1, <1>2 DEF TakeRow, Move, CatalogInv, CatalogTypes
  <2>2. /\ case \in Case /\ case.action = was.action /\ case.package = was.package
        /\ case.version = was.version /\ case.step = "row" /\ case.visibility = was.visibility
        /\ case.row = was.row
    BY <1>1 DEF Case, Steps
  <2> HIDE DEF case
  <2>3. was.row # 0
    BY <1>2 DEF CatalogInv, CatalogTypes, LiveInv, LiveIsArchived
  <2>4. \A p \in Operators \ {o} : ~HasRow(p) BY <2>3 DEF TakeRow
  <2>5. GoodCase(o, case) BY <1>1, <1>2, <2>2, <2>3, <2>4 DEF GoodCase
  <2> QED BY <1>1, <2>1, <2>2, <2>5, OneCase
<1>3. CASE ~there /\ Publishing(o)
  <2> DEFINE case == [was EXCEPT !.step = "row", !.row = 0]
  <2>1. office' = [office EXCEPT ![o] = case]
    BY <1>1, <1>3 DEF TakeRow, CatalogInv, CatalogTypes, Case
  <2>2. /\ case \in Case /\ case.action = was.action /\ case.package = was.package
        /\ case.version = was.version /\ case.step = "row" /\ case.visibility = was.visibility
        /\ case.row = 0
    BY <1>1 DEF Case, Steps
  <2> HIDE DEF case
  <2>3. live = NoCourse /\ was.action \in PublishActions
    BY <1>1, <1>3 DEF GoodCase, Publishing, PublishActions
  <2>4. GoodCase(o, case) BY <1>1, <2>2, <2>3 DEF GoodCase
  <2> QED BY <1>1, <2>1, <2>2, <2>4, OneCase
<1>4. CASE ~there /\ ~Publishing(o)
  <2>1. office' = [office EXCEPT ![o] = Quiet] BY <1>4 DEF TakeRow, Leave
  <2> QED BY <1>1, <2>1, OneCase
<1> QED BY <1>2, <1>3, <1>4

LEMMA AbandonKeeps == ASSUME NEW o \in Operators, CatalogInv, Abandon(o) PROVE CatalogInv'
<1>1. office' = [office EXCEPT ![o] = Quiet] /\ UNCHANGED Elsewhere
  BY DEF Abandon, Leave, Elsewhere
<1> QED BY <1>1, OneCase

-----------------------------------------------------------------------------
(* Commits. Who commits leaves; what it wrote bothers no other case.       *)
LEMMA OthersGoOn ==
    ASSUME NEW o \in Operators, CatalogInv, office[o] # Quiet, Leave(o)
    PROVE  /\ office' \in [Operators -> Case \cup {Quiet}] /\ office'[o] = Quiet
           /\ \A p \in Operators \ {o} : office'[p] = office[p]
           /\ \A p \in Operators : Numbered(p)' => Numbered(p)
           /\ \A p \in Operators : HasRow(p)' => HasRow(p)
           /\ \A p \in Operators \ {o} : Numbered(p) => ~Numbered(o)
           /\ \A p \in Operators \ {o} : HasRow(p) => ~HasRow(o)
           /\ \A p \in Operators : office'[p] # Quiet =>
                 p # o /\ office[p] # Quiet /\ office[p] \in Case /\ GoodCase(p, office[p])
<1>1. /\ office' \in [Operators -> Case \cup {Quiet}] /\ office'[o] = Quiet
      /\ \A p \in Operators \ {o} : office'[p] = office[p]
  BY DEF Leave, CatalogInv, CatalogTypes
<1>2. \A p \in Operators : (Numbered(p)' => Numbered(p)) /\ (HasRow(p)' => HasRow(p))
  BY <1>1 DEF Numbered, Publishing, HasRow, At
<1>3. \A p \in Operators \ {o} : (Numbered(p) => ~Numbered(o)) /\ (HasRow(p) => ~HasRow(o))
  <2> SUFFICES ASSUME NEW p \in Operators \ {o}
      PROVE  (Numbered(p) => ~Numbered(o)) /\ (HasRow(p) => ~HasRow(o))
      OBVIOUS
  <2>1. GoodCase(o, office[o]) BY DEF CatalogInv, OfficeInv
  <2>2. Numbered(o) => ~Numbered(p)
    BY <2>1 DEF GoodCase, Numbered, Publishing, PublishActions
  <2>3. HasRow(o) => ~HasRow(p) BY <2>1 DEF GoodCase, HasRow, At
  <2> QED BY <2>2, <2>3
<1>4. \A p \in Operators : office'[p] # Quiet =>
          p # o /\ office[p] # Quiet /\ office[p] \in Case /\ GoodCase(p, office[p])
  BY <1>1 DEF CatalogInv, CatalogTypes, OfficeInv
<1> QED BY <1>1, <1>2, <1>3, <1>4

LEMMA CommitPublishKeeps ==
    ASSUME NEW o \in Operators, CatalogInv, CommitPublish(o)
    PROVE  CatalogInv'
<1> DEFINE was == office[o]
           n == Len(archive)
<1>1. /\ was # Quiet /\ was \in Case /\ GoodCase(o, was) /\ n \in Nat /\ DOMAIN archive = 1 .. n
      /\ was.step = "row" /\ was.action \in PublishActions
  BY DEF CommitPublish, Publishing, At, PublishActions, CatalogInv, CatalogTypes, OfficeInv
<1>2. /\ was.package \in Packages /\ was.version = n + 1 /\ (raced \/ was.visibility = audited)
      /\ live = NoCourse \/ live.version = was.row
  BY <1>1 DEF GoodCase
<1>3. /\ UNCHANGED <<audited, raced, scanned, asking, held>> /\ Leave(o)
      /\ archive' = Append(archive, was.package)
      /\ live' = [version |-> was.version, package |-> was.package,
                  visibility |-> was.visibility, plain |-> was.package]
  BY DEF CommitPublish
<1>4. /\ archive' \in Seq(Packages) /\ Len(archive') = n + 1 /\ DOMAIN archive' = 1 .. (n + 1)
      /\ archive'[n + 1] = was.package /\ \A i \in 1 .. n : archive'[i] = archive[i]
  BY <1>2, <1>3 DEF CatalogInv, CatalogTypes
<1>5. /\ live' \in Course /\ live' # NoCourse /\ live'.version = n + 1
      /\ live'.package = was.package /\ live'.visibility = was.visibility
      /\ live'.plain = was.package
  <2>1. was.version \in Nat /\ was.visibility \in Visibilities BY <1>1 DEF Case
  <2>2. live' \in Course BY <1>2, <1>3, <2>1 DEF Course
  <2> QED BY <1>2, <1>3, <2>2, CatalogAssumption DEF Course
<1>6. CatalogTypes'
  BY <1>1, <1>3, <1>4, <1>5, OthersGoOn DEF CatalogInv, CatalogTypes
<1>7. Numbered(o) BY <1>1 DEF Numbered, Publishing, PublishActions
<1>8. live # NoCourse => HasRow(o)
  <2>1. live # NoCourse => live.version # 0
    BY DEF CatalogInv, CatalogTypes, LiveInv, LiveIsArchived
  <2> QED BY <1>1, <1>2, <2>1 DEF HasRow, At
<1>9. OfficeInv'
  <2> SUFFICES ASSUME NEW p \in Operators, office'[p] # Quiet PROVE GoodCase(p, office[p])'
      BY DEF OfficeInv
  <2>1. /\ p # o /\ office[p] # Quiet /\ office[p] \in Case /\ GoodCase(p, office[p])
        /\ office'[p] = office[p] /\ ~Numbered(p)
    BY <1>1, <1>3, <1>7, OthersGoOn
  <2>2. ~HasRow(p)
    <3>1. HasRow(p) => live # NoCourse BY <2>1 DEF GoodCase, HasRow, At
    <3> QED BY <1>1, <1>3, <1>8, <2>1, <3>1, OthersGoOn
  <2>3. office[p].action \in PublishActions => office[p].step \in {"begun", "counted"}
    BY <2>1 DEF Numbered, Publishing, PublishActions
  <2>4. ~(office[p].step = "row" /\ office[p].row # 0) BY <2>1, <2>2 DEF HasRow, At
  <2>5. office[p].version \in 1 .. (n + 1) => office[p].version \in 1 .. (n + 1 + 1)
    BY <1>1
  <2> QED BY <1>4, <2>1, <2>3, <2>4, <2>5 DEF GoodCase
<1>10. LiveInv' BY <1>1, <1>2, <1>4, <1>5, CatalogAssumption DEF LiveInv
<1>11. LiveIsArchived' BY <1>2, <1>3, <1>4, <1>5 DEF LiveIsArchived
<1>12. ReaderInv' BY <1>1, <1>3, <1>4 DEF CatalogInv, ReaderInv, Archived
<1>13. NotModifiedIsWhole'
  <2>1. \A r \in Readers : held[r] # NoPage => held[r].tag # n + 1
    BY <1>1 DEF CatalogInv, ReaderInv, Archived
  <2> QED BY <1>3, <1>5, <2>1 DEF NotModifiedIsWhole
<1> QED BY <1>6, <1>9, <1>10, <1>11, <1>12, <1>13 DEF CatalogInv

(* A flip is what a publish that has read the visibility before races with. *)
LEMMA FlipKeepsOffice ==
    ASSUME NEW o \in Operators, CatalogInv, HasRow(o), Leave(o), UNCHANGED archive,
           raced' = VisibilityRead,
           live' = NoCourse \/ (live # NoCourse /\ live'.version = live.version)
    PROVE  OfficeInv'
<1> SUFFICES ASSUME NEW p \in Operators, office'[p] # Quiet PROVE GoodCase(p, office[p])'
    BY DEF OfficeInv
<1>0. office[o] # Quiet BY DEF HasRow, At
<1>1. /\ p # o /\ office[p] # Quiet /\ office[p] \in Case /\ GoodCase(p, office[p])
      /\ office'[p] = office[p] /\ ~HasRow(p)
      /\ \A q \in Operators : Numbered(q)' => Numbered(q)
  BY <1>0, OthersGoOn
<1>2. office[p].action \in PublishActions /\ office[p].step \in {"read", "waiting", "row"} => raced'
  BY <1>1 DEF VisibilityRead, Publishing, PublishActions
<1>3. ~(office[p].step = "row" /\ office[p].row # 0) BY <1>1 DEF HasRow, At
<1> QED BY <1>1, <1>2, <1>3 DEF GoodCase

LEMMA CommitVisibilityKeeps ==
    ASSUME NEW o \in Operators, CatalogInv, CommitVisibility(o)
    PROVE  CatalogInv'
<1> DEFINE was == office[o]
<1>1. /\ was # Quiet /\ was \in Case /\ GoodCase(o, was) /\ was.step = "row"
      /\ was.action = "visibility"
  BY DEF CommitVisibility, At, CatalogInv, CatalogTypes, OfficeInv
<1>2. was.row # 0 /\ live # NoCourse /\ live \in Course /\ HasRow(o)
  BY <1>1 DEF GoodCase, PublishActions, HasRow, At, CatalogInv, CatalogTypes
<1>3. /\ UNCHANGED <<archive, scanned, asking, held>> /\ Leave(o) /\ raced' = VisibilityRead
      /\ audited' = was.visibility /\ live' = [live EXCEPT !.visibility = was.visibility]
  BY DEF CommitVisibility
<1>4. /\ live' \in Course /\ live' # NoCourse /\ live'.version = live.version
      /\ live'.package = live.package /\ live'.visibility = was.visibility
      /\ live'.plain = live.plain /\ was.visibility \in Visibilities
  <2>1. was.visibility \in Visibilities BY <1>1 DEF Case
  <2>2. live' \in Course BY <1>2, <1>3, <2>1 DEF Course
  <2> QED BY <1>2, <1>3, <2>1, <2>2, CatalogAssumption DEF Course
<1>5. OfficeInv' BY <1>2, <1>3, <1>4, FlipKeepsOffice
<1>6. raced' \in BOOLEAN BY <1>3 DEF VisibilityRead
<1>7. CatalogTypes'
  BY <1>1, <1>3, <1>4, <1>6, OthersGoOn DEF CatalogInv, CatalogTypes
<1> QED
  BY <1>2, <1>3, <1>4, <1>5, <1>7
  DEF CatalogInv, LiveInv, LiveIsArchived, ReaderInv, Archived, NotModifiedIsWhole

LEMMA CommitUnpublishKeeps ==
    ASSUME NEW o \in Operators, CatalogInv, CommitUnpublish(o)
    PROVE  CatalogInv'
<1> DEFINE was == office[o]
<1>1. /\ was # Quiet /\ was \in Case /\ GoodCase(o, was) /\ was.step = "row"
      /\ was.action = "unpublish"
  BY DEF CommitUnpublish, At, CatalogInv, CatalogTypes, OfficeInv
<1>2. HasRow(o) BY <1>1 DEF GoodCase, PublishActions, HasRow, At
<1>3. /\ UNCHANGED <<archive, scanned, asking, held>> /\ Leave(o) /\ raced' = VisibilityRead
      /\ audited' = "public" /\ live' = NoCourse
  BY DEF CommitUnpublish
<1>4. OfficeInv' BY <1>2, <1>3, FlipKeepsOffice
<1>5. raced' \in BOOLEAN BY <1>3 DEF VisibilityRead
<1>6. CatalogTypes'
  BY <1>1, <1>3, <1>5, OthersGoOn DEF CatalogInv, CatalogTypes, Visibilities
<1> QED
  BY <1>3, <1>4, <1>6
  DEF CatalogInv, LiveInv, LiveIsArchived, ReaderInv, Archived, NotModifiedIsWhole

-----------------------------------------------------------------------------
(* The backfill, grants and readers.                                       *)
LEMMA SameOffice ==
    ASSUME CatalogInv, UNCHANGED <<archive, audited, raced, office>>,
           live' = live \/ (live # NoCourse /\ live' # NoCourse /\ live'.version = live.version)
    PROVE  OfficeInv'
<1>1. \A p \in Operators : Numbered(p)' = Numbered(p) /\ HasRow(p)' = HasRow(p)
  BY DEF Numbered, Publishing, HasRow, At
<1> QED BY <1>1 DEF CatalogInv, OfficeInv, GoodCase

LEMMA BackfillKeeps ==
    ASSUME CatalogInv, ScanChapters \/ FillPlainText
    PROVE  CatalogInv'
<1>1. CASE ScanChapters
  <2>1. /\ UNCHANGED <<live, archive, audited, raced, office, asking, held>>
        /\ live # NoCourse /\ scanned' = live.package /\ live.package \in Packages
    BY <1>1 DEF ScanChapters, CatalogInv, CatalogTypes, Course
  <2>2. OfficeInv' BY <2>1, SameOffice
  <2> QED
    BY <2>1, <2>2
    DEF CatalogInv, CatalogTypes, LiveInv, LiveIsArchived, ReaderInv, Archived, NotModifiedIsWhole
<1>2. CASE FillPlainText
  <2>1. UNCHANGED <<archive, audited, raced, office, asking, held>> /\ scanned' = NoText
    BY <1>2 DEF FillPlainText
  <2>2. CASE live' = live
    <3>1. OfficeInv' BY <2>1, <2>2, SameOffice
    <3> QED
      BY <2>1, <2>2, <3>1
      DEF CatalogInv, CatalogTypes, LiveInv, LiveIsArchived, ReaderInv, Archived,
          NotModifiedIsWhole
  <2>3. CASE live # NoCourse /\ live.plain = NoText /\ live' = [live EXCEPT !.plain = scanned]
    <3>1. scanned = live.package /\ live \in Course /\ live.package \in Packages
      BY <1>2, <2>3 DEF FillPlainText, CatalogInv, CatalogTypes, LiveInv, Course
    <3>2. /\ live' \in Course /\ live'.version = live.version /\ live'.package = live.package
          /\ live'.visibility = live.visibility /\ live'.plain = live.package
      BY <2>3, <3>1 DEF Course
    <3>3. live' # NoCourse BY <3>2, CatalogAssumption DEF Course
    <3>4. OfficeInv' BY <2>1, <2>3, <3>2, <3>3, SameOffice
    <3> QED
      BY <2>1, <2>3, <3>2, <3>3, <3>4
      DEF CatalogInv, CatalogTypes, LiveInv, LiveIsArchived, ReaderInv, Archived,
          NotModifiedIsWhole
  <2> QED BY <1>2, <2>2, <2>3 DEF FillPlainText
<1> QED BY <1>1, <1>2

LEMMA ReadersKeep ==
    ASSUME NEW r \in Readers, CatalogInv,
           GrantAccess(r) \/ RevokeAccess(r) \/ ReadChapter(r) \/ AnswerChapter(r)
    PROVE  CatalogInv'
<1>0. UNCHANGED <<live, archive, audited, raced, office, scanned>>
  BY DEF GrantAccess, RevokeAccess, ReadChapter, AnswerChapter
<1>1. OfficeInv' BY <1>0, SameOffice
<1>2. LiveInv' /\ LiveIsArchived' BY <1>0 DEF CatalogInv, LiveInv, LiveIsArchived
<1>3. CASE GrantAccess(r) \/ RevokeAccess(r)
  <2>1. UNCHANGED <<asking, held>> BY <1>3 DEF GrantAccess, RevokeAccess
  <2> QED
    BY <1>0, <1>1, <1>2, <2>1
    DEF CatalogInv, CatalogTypes, ReaderInv, Archived, NotModifiedIsWhole
<1>4. CASE ReadChapter(r)
  <2> DEFINE page == [tag |-> live.version, page |-> live.package]
  <2>1. live # NoCourse /\ UNCHANGED held /\ asking' = [asking EXCEPT ![r] = page]
    BY <1>4 DEF ReadChapter, MayRead
  <2>2. live \in Course /\ page \in Page /\ Archived(page)
    BY <2>1 DEF CatalogInv, CatalogTypes, Course, Page, Archived, LiveInv, LiveIsArchived
  <2> HIDE DEF page
  <2>3. /\ asking' \in [Readers -> Page \cup {NoPage}]
        /\ \A s \in Readers : asking'[s] = IF s = r THEN page ELSE asking[s]
    BY <2>1, <2>2 DEF CatalogInv, CatalogTypes
  <2>4. ReaderInv' BY <1>0, <2>1, <2>2, <2>3 DEF CatalogInv, ReaderInv, Archived
  <2> QED
    BY <1>0, <1>1, <1>2, <2>1, <2>3, <2>4 DEF CatalogInv, CatalogTypes, NotModifiedIsWhole
<1>5. CASE AnswerChapter(r)
  <2> DEFINE asked == asking[r]
             names == WidgetsOf[asked.page]
             body == [tag |-> asked.tag, page |-> asked.page, widgets |-> Resolved(r, names),
                      barred |-> names # {} /\ ~MayRead(r)]
  <2>1. /\ asked # NoPage /\ asking' = [asking EXCEPT ![r] = NoPage]
        /\ held' = held \/ held' = [held EXCEPT ![r] = body]
    BY <1>5 DEF AnswerChapter
  <2>2. asked \in Page /\ Archived(asked) /\ asked.page \in Packages
    BY <2>1 DEF CatalogInv, CatalogTypes, ReaderInv, Page
  <2>3. /\ body.tag = asked.tag /\ body.page = asked.page
        /\ body.widgets = Resolved(r, names)
        /\ (names # {} /\ ~MayRead(r)) => body.barred
    BY Zenon
  <2>4. ASSUME live # NoCourse, body.tag = live.version
        PROVE  /\ body.page = live.package
               /\ body.barred \/ body.widgets = [n \in WidgetsOf[live.package] |-> live.package]
    <3>1. body.page = live.package
      BY <2>2, <2>3, <2>4 DEF Archived, CatalogInv, LiveIsArchived
    <3>2. names = WidgetsOf[live.package] BY <2>3, <3>1
    <3>3. CASE MayRead(r)
      <4>1. Resolved(r, names) = [n \in names \cap WidgetsOf[live.package] |-> live.package]
        BY <3>3 DEF Resolved
      <4>2. names \cap WidgetsOf[live.package] = WidgetsOf[live.package] BY <3>2
      <4> QED BY <2>3, <3>1, <4>1, <4>2
    <3>4. CASE ~MayRead(r) /\ names = {}
      <4>1. Resolved(r, names) = [n \in {} |-> live.package] BY <3>4 DEF Resolved
      <4> QED BY <2>3, <3>1, <3>2, <3>4, <4>1
    <3>5. CASE ~MayRead(r) /\ names # {} BY <2>3, <3>1, <3>5
    <3> QED BY <3>3, <3>4, <3>5
  <2>5. /\ asking' \in [Readers -> Page \cup {NoPage}]
        /\ \A s \in Readers : asking'[s] = IF s = r THEN NoPage ELSE asking[s]
    BY <2>1 DEF CatalogInv, CatalogTypes
  <2>6. Archived(body) BY <2>2, <2>3 DEF Archived
  <2> HIDE DEF body
  <2>7. /\ DOMAIN held' = Readers
        /\ \A s \in Readers : held'[s] = held[s] \/ (s = r /\ held'[s] = body)
    BY <2>1 DEF CatalogInv, CatalogTypes
  <2>8. ReaderInv' BY <1>0, <2>5, <2>6, <2>7 DEF CatalogInv, ReaderInv, Archived
  <2>9. NotModifiedIsWhole'
    <3> SUFFICES ASSUME NEW s \in Readers, live # NoCourse, held'[s] # NoPage,
                        held'[s].tag = live.version
        PROVE  /\ held'[s].page = live.package
               /\ \/ held'[s].barred
                  \/ held'[s].widgets = [n \in WidgetsOf[live.package] |-> live.package]
        BY <1>0 DEF NotModifiedIsWhole
    <3>1. CASE held'[s] = held[s] BY <3>1 DEF CatalogInv, NotModifiedIsWhole
    <3>2. CASE held'[s] = body BY <2>4, <3>2
    <3> QED BY <2>7, <3>1, <3>2
  <2> QED
    BY <1>0, <1>1, <1>2, <2>5, <2>7, <2>8, <2>9 DEF CatalogInv, CatalogTypes
<1> QED BY <1>3, <1>4, <1>5

LEMMA CatalogStep == CatalogInv /\ [CatalogNext]_catalogVars => CatalogInv'
<1> SUFFICES ASSUME CatalogInv, [CatalogNext]_catalogVars PROVE CatalogInv'
    OBVIOUS
<1>1. CASE UNCHANGED catalogVars
  <2>1. UNCHANGED <<live, archive, audited, raced, office, scanned, asking, held>>
    BY <1>1 DEF catalogVars
  <2>2. OfficeInv' BY <2>1, SameOffice
  <2> QED
    BY <2>1, <2>2
    DEF CatalogInv, CatalogTypes, LiveInv, LiveIsArchived, ReaderInv, Archived, NotModifiedIsWhole
<1>2. ASSUME NEW o \in Operators,
             \/ Publish(o) \/ Rollback(o) \/ SetVisibility(o) \/ Unpublish(o)
             \/ CountVersions(o) \/ InsertVersion(o) \/ ReadVisibility(o)
             \/ ChooseRow(o) \/ TakeRow(o)
             \/ CommitPublish(o) \/ CommitVisibility(o) \/ CommitUnpublish(o) \/ Abandon(o)
      PROVE  CatalogInv'
  BY <1>2, OpenKeeps, CountKeepsCatalog, ReadVisibilityKeeps, ChooseRowKeeps, TakeRowKeeps,
     CommitPublishKeeps, CommitVisibilityKeeps, CommitUnpublishKeeps, AbandonKeeps
<1>3. ASSUME NEW r \in Readers,
             GrantAccess(r) \/ RevokeAccess(r) \/ ReadChapter(r) \/ AnswerChapter(r)
      PROVE  CatalogInv'
  BY <1>3, ReadersKeep
<1>4. CASE ScanChapters \/ FillPlainText BY <1>4, BackfillKeeps
<1> QED BY <1>1, <1>2, <1>3, <1>4 DEF CatalogNext

(* However operators, failures and the backfill interleave, what readers   *)
(* get is the newest version of the archive, unmixed.                      *)
THEOREM CatalogLive == CatalogSpec => []LiveIsArchived
<1>1. CatalogInv => LiveIsArchived BY DEF CatalogInv
<1> QED BY <1>1, InitIsGood, CatalogStep, PTL DEF CatalogSpec

(* What a browser may be told to keep is the live version's page with all  *)
(* its widgets, though page and widgets are read in two statements.        *)
THEOREM CatalogNotModified == CatalogSpec => []NotModifiedIsWhole
<1>1. CatalogInv => NotModifiedIsWhole BY DEF CatalogInv
<1> QED BY <1>1, InitIsGood, CatalogStep, PTL DEF CatalogSpec

=============================================================================
