----------------------------- MODULE LabFigures -----------------------------
(***************************************************************************)
(* What the labs of the stories compute from a message and show beside     *)
(* their results: the two hundred trials of each code that fits the budget *)
(* (channel-budget), the window of Huffman's tree (huffman-message), and   *)
(* what a shorter draft has changed (message-budget).                      *)
(***************************************************************************)
EXTENDS LabBench
LOCAL INSTANCE FiniteSetsExt
LOCAL INSTANCE SequencesExt
LOCAL INSTANCE Functions

CONSTANT Trials     \* 200

-----------------------------------------------------------------------------
(* channel-budget/batch.ts                                                 *)

(* One trial with the seed of its number. *)
Trial(bytes, code, c, i) ==
    LET sent == Encode(ToBits(bytes), code)
    IN  RunTransmission(bytes, code, c.budget, BscFlips(sent, c.p, (c.seed + i) % DrawRange)).value

(* Mutant: a message that was rejected counts among the decoded bits. *)
BatchRowOfAll(bytes, code, c) ==
    LET trials == [i \in 0 .. Trials - 1 |-> Trial(bytes, code, c, i)]
        number(outcome) == Cardinality({i \in DOMAIN trials : trials[i].outcome = outcome})
    IN  [exact |-> number("exact"), rejected |-> number("rejected"),
         silent |-> number("silent-corruption"), decodedBits |-> Trials * Width * Len(bytes),
         payloadErrors |-> 0]

RowOfTrials(bytes, trials) ==
    LET number(outcome) == Cardinality({i \in DOMAIN trials : trials[i].outcome = outcome})
        decoded == {i \in DOMAIN trials : trials[i].outcome # "rejected"}
    IN  [exact |-> number("exact"), rejected |-> number("rejected"),
         silent |-> number("silent-corruption"),
         decodedBits |-> Width * Len(bytes) * Cardinality(decoded),
         payloadErrors |-> MapThenSumSet(
             LAMBDA i : Differences(ToBits(bytes), ToBits(trials[i].received)), decoded)]
BatchRow(bytes, code, c) ==
    RowOfTrials(bytes, [i \in 0 .. Trials - 1 |-> Trial(bytes, code, c, i)])

(* The codes the budget has room for, and the others. *)
CompareCodes(bytes, c) ==
    LET eligible == {code \in DOMAIN CodeParameters : Required(Width * Len(bytes), code) <= c.budget}
    IN  [rows |-> [code \in eligible |-> BatchRow(bytes, code, c)],
         excluded |-> DOMAIN CodeParameters \ eligible]

(* BudgetBreakdown: what of the budget is unused, or missing. *)
Breakdown(bytes, c, code) ==
    LET needed == Required(Width * Len(bytes), code)
    IN  [fits |-> needed <= c.budget,
         apart |-> IF needed <= c.budget THEN c.budget - needed ELSE needed - c.budget]

(* Each trial is counted once, bits that were not decoded are not, there   *)
(* are wrong bits exactly when a message was silently wrong, and the code  *)
(* whose table says nothing is missing is the code that was tried.         *)
RowAddsUp(row, bytes, c) ==
    /\ row.exact + row.rejected + row.silent = Trials
    /\ row.decodedBits = Width * Len(bytes) * (row.exact + row.silent)
    /\ row.silent <= row.payloadErrors /\ row.payloadErrors <= row.decodedBits
    /\ c.p = 0 => row.exact = Trials
TableAddsUp(rows, bytes, c) ==
    /\ \A code \in DOMAIN rows : RowAddsUp(rows[code], bytes, c)
    /\ \A code \in DOMAIN CodeParameters :
          (code \in DOMAIN rows) = Breakdown(bytes, c, code).fits
BatchHolds(bytes, c) == TableAddsUp(CompareCodes(bytes, c).rows, bytes, c)

-----------------------------------------------------------------------------
(* huffman-message/HuffmanMessageLab.tsx                                   *)

Leaf(byte, count) == [byte |-> byte, least |-> byte, count |-> count, children |-> <<>>]

(* The nodes in the order they are made: the bytes, then the merges. *)
TreeNodes(counts) ==
    LET sorted == SetToSortSeq(DOMAIN counts, <)
        leaves == [i \in DOMAIN sorted |-> Leaf(sorted[i], counts[sorted[i]])]
        earliest(nodes, open) ==
            CHOOSE a \in open : \A b \in open \ {a} :
                \/ nodes[a].count < nodes[b].count
                \/ nodes[a].count = nodes[b].count /\ nodes[a].least < nodes[b].least
        merge(so, i) ==
            LET a == earliest(so.nodes, so.open)
                b == earliest(so.nodes, so.open \ {a})
                parent == [byte |-> Never, least |-> Min({so.nodes[a].least, so.nodes[b].least}),
                           count |-> so.nodes[a].count + so.nodes[b].count,
                           children |-> <<a, b>>]
            IN  [nodes |-> Append(so.nodes, parent),
                 open |-> (so.open \ {a, b}) \cup {Len(so.nodes) + 1}]
    IN  FoldLeft(merge, [nodes |-> leaves, open |-> DOMAIN leaves],
                 [i \in 1 .. Len(leaves) - 1 |-> i]).nodes

(* visibleHuffmanMerges and selectedTreeWindow: breadth first from the     *)
(* node of the last merge revealed, or the leaves before any is.           *)
TreeWindow(nodes, step, limit) ==
    LET leaves == {i \in DOMAIN nodes : nodes[i].children = <<>>}
        revealed == Min({step, Len(nodes) - Cardinality(leaves)})
        start == IF revealed = 0 THEN SetToSortSeq(leaves, <)
                 ELSE <<Cardinality(leaves) + revealed>>
        visit(so, i) ==
            IF so.queue = <<>> \/ Len(so.ids) >= limit THEN so
            ELSE [ids |-> Append(so.ids, Head(so.queue)),
                  queue |-> Tail(so.queue) \o nodes[Head(so.queue)].children]
    IN  FoldLeft(visit, [ids |-> <<>>, queue |-> start], [i \in DOMAIN nodes |-> i]).ids

(* HuffmanTree's place: leaves of the window from left to right, a parent  *)
(* halfway between its first and last child that are shown. In half steps. *)
TreePlaces(nodes, ids) ==
    LET shown == Range(ids)
        children(i) == SelectSeq(nodes[i].children, LAMBDA j : j \in shown)
        leaves[i \in DOMAIN nodes] ==
            IF children(i) = <<>> THEN 1
            ELSE FoldLeft(LAMBDA sum, j : sum + leaves[j], 0, children(i))
        roots == SelectSeq(ids, LAMBDA i : \A j \in shown : i \notin Range(nodes[j].children))
        place[i \in DOMAIN nodes, left \in 0 .. Len(nodes), depth \in 0 .. Len(nodes)] ==
            LET below == children(i)
                at[k \in DOMAIN below] ==
                    place[below[k],
                          left + FoldLeft(LAMBDA sum, j : sum + leaves[j], 0, SubSeq(below, 1, k - 1)),
                          depth + 1]
                first == at[1]
                last == at[Len(below)]
                x == IF below = <<>> THEN 2 * left + 1
                     ELSE ((CHOOSE p \in first : p.node = below[1]).x
                            + (CHOOSE p \in last : p.node = below[Len(below)]).x) \div 2
            IN  {[node |-> i, x |-> x, depth |-> depth]} \cup UNION {at[k] : k \in DOMAIN below}
        before(k) == FoldLeft(LAMBDA sum, j : sum + leaves[j], 0, SubSeq(roots, 1, k - 1))
    IN  UNION {place[roots[k], before(k), 0] : k \in DOMAIN roots}

(* The window is what is near the node that was chosen: a child is shown   *)
(* after its parent, no node that was left out is nearer than one shown    *)
(* beside it, and no two nodes are drawn at one place.                     *)
PlacesHold(places, ids) ==
    /\ {p.node : p \in places} = Range(ids) /\ Cardinality(places) = Len(ids)
    /\ \A p, q \in places : p # q => p.depth # q.depth \/ p.x # q.x
WindowHolds(nodes, ids, bytes, step, limit) ==
    LET rooted == step > 0 /\ Cardinality(Range(bytes)) > 1
    IN  /\ Len(ids) <= limit /\ Len(ids) = Cardinality(Range(ids))
        /\ PlacesHold(TreePlaces(nodes, ids), ids)
        /\ rooted => \A k \in 2 .. Len(ids) :
              \E j \in 1 .. k - 1 : ids[k] \in Range(nodes[ids[j]].children)
        /\ rooted /\ Len(ids) < limit =>
              \A i \in Range(ids) : Range(nodes[i].children) \subseteq Range(ids)
        /\ Last(nodes).count = Len(bytes)
NodesHold(nodes, bytes, step, limit) ==
    WindowHolds(nodes, TreeWindow(nodes, step, limit), bytes, step, limit)
TreeWindowHolds(bytes, step, limit) ==
    NodesHold(TreeNodes(Counts(bytes)), bytes, step, limit)

-----------------------------------------------------------------------------
(* message-budget                                                          *)

(* compareDraft: how far the shorter text is over the budget. *)
OverBudget(shorter, budget) == Max({0, Len(shorter) - budget})

(* draftParts: what both have in common at the start, then at the end. *)
CommonPrefix(a, b) ==
    Max({n \in 0 .. Min({Len(a), Len(b)}) : SubSeq(a, 1, n) = SubSeq(b, 1, n)})
CommonSuffix(a, b) ==
    LET p == CommonPrefix(a, b)
    IN  Max({n \in 0 .. Min({Len(a), Len(b)}) - p :
                SubSeq(a, Len(a) - n + 1, Len(a)) = SubSeq(b, Len(b) - n + 1, Len(b))})

(* The graphemes of a that are marked as changed when compared with b. *)
ChangedParts(a, b) == CommonPrefix(a, b) + 1 .. Len(a) - CommonSuffix(a, b)
Kept2(a, b) == SelectSeq([i \in DOMAIN a |-> <<i, a[i]>>], LAMBDA g : g[1] \notin ChangedParts(a, b))

(* What is not marked is the same text in both, and the marks are tight.   *)
DraftsHold(a, b) ==
    LET text(marked) == [i \in DOMAIN marked |-> marked[i][2]]
        changed == ChangedParts(a, b)
        other == ChangedParts(b, a)
    IN  /\ text(Kept2(a, b)) = text(Kept2(b, a))
        /\ (changed = {} /\ other = {}) = (a = b)
        /\ changed # {} /\ other # {} =>
              a[Min(changed)] # b[Min(other)] /\ a[Max(changed)] # b[Max(other)]

=============================================================================
