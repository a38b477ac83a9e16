------------------------------ MODULE PageText ------------------------------
(***************************************************************************)
(* The text of a chapter's page as annotations/normalize.ts reads it and   *)
(* annotations/painter.ts marks it. The page is its leaves in document     *)
(* order: text nodes, formulas that count as one character, and what is    *)
(* left out of the text. Painting cuts text nodes and wraps them in <mark> *)
(* elements; unpainting unwraps them and joins what was cut. Attributes,    *)
(* classes and rectangles are left out.                                    *)
(***************************************************************************)
EXTENDS Integers, Sequences, FiniteSets

CONSTANTS
    Page,           \* the page at first: [kind, box, data] of each leaf
    Blanks,         \* the characters that are white space
    Marked,         \* notes that may be painted
    MaxStrokes      \* bound: batches painted, notes unpainted

LeafKinds == {"text", "atomic", "excluded"}

\* Box 0 is the chapter's element, any other a block within it.
ASSUME PageAssumption ==
    /\ Page \in Seq([kind : LeafKinds, box : Nat, data : Seq(Nat)])
    /\ \A i \in DOMAIN Page : Page[i].kind = "atomic" => Len(Page[i].data) = 1
    /\ MaxStrokes \in Nat

\* A mark is a <mark> above the leaf, or a formula's tint, of a note. A
\* later one is always within the earlier ones of its leaf (wrapText).
VARIABLES
    leaves,         \* [kind, box, data, marks] in document order
    made,           \* marks made: they are numbered in that order
    spans,          \* history: what each painted note was painted over
    strokes

pageVars == <<leaves, made, spans, strokes>>

Nowhere == <<0, 0>>

InitPage(page) ==
    /\ leaves = [i \in DOMAIN page |->
                    [kind |-> page[i].kind, box |-> page[i].box,
                     data |-> page[i].data, marks |-> {}]]
    /\ made = 0 /\ strokes = 0
    /\ spans = [n \in Marked |-> Nowhere]

-----------------------------------------------------------------------------
(* normalizeContainer: flat offsets, from 0; an excluded leaf has none.    *)

CharsOf(leaf) == IF leaf.kind = "excluded" THEN <<>> ELSE leaf.data

WidthOf(leaf) == Len(CharsOf(leaf))

(* The offset at which each leaf ends, which is where the next one starts. *)
Ends(page) ==
    LET end[i \in 0 .. Len(page)] ==
            IF i = 0 THEN 0 ELSE end[i - 1] + WidthOf(page[i])
    IN  end

TextLength(page) == Ends(page)[Len(page)]

Flat(page) ==
    LET upTo[i \in 0 .. Len(page)] ==
            IF i = 0 THEN <<>> ELSE upTo[i - 1] \o CharsOf(page[i])
    IN  upTo[Len(page)]

TheText == Flat(Page)

-----------------------------------------------------------------------------
(* paintAll over spans <<from, to>> of flat offsets.                       *)

(* splitText: what follows the m-th character of a leaf becomes a leaf of  *)
(* its own.                                                                *)
Split(page, i, m) ==
    [k \in 1 .. Len(page) + 1 |->
        IF k < i THEN page[k]
        ELSE IF k = i THEN [page[i] EXCEPT !.data = SubSeq(@, 1, m)]
        ELSE IF k = i + 1 THEN [page[i] EXCEPT !.data = SubSeq(@, m + 1, Len(@))]
        ELSE page[k - 1]]

(* The text nodes within which an offset is; there is one, or none. *)
Straddling(page, c) ==
    {i \in DOMAIN page : /\ page[i].kind = "text"
                         /\ Ends(page)[i - 1] < c /\ c < Ends(page)[i]}

(* applyCuts: a text node is cut at each offset within it at which a span  *)
(* begins or ends.                                                         *)
CutAt(page, c, cuts) ==
    LET hit == Straddling(page, c)
        i == CHOOSE i \in hit : TRUE
    IN  IF c \in cuts /\ hit # {} THEN Split(page, i, c - Ends(page)[i - 1]) ELSE page

ApplyCuts(page, cuts) ==
    LET upTo[c \in 0 .. TextLength(page)] ==
            IF c = 0 THEN page ELSE CutAt(upTo[c - 1], c, cuts)
    IN  upTo[TextLength(page)]

Inside(page, i, span) ==
    /\ WidthOf(page[i]) > 0
    /\ Ends(page)[i - 1] >= span[1] /\ Ends(page)[i] <= span[2]

(* side: what a neighbour in document order is to this leaf. *)
Side(page, i, j) ==
    IF j \in DOMAIN page /\ page[j].box = page[i].box
    THEN IF page[j].kind = "excluded" THEN "block" ELSE "inline"
    ELSE IF j \in DOMAIN page /\ page[i].box = 0 THEN "block" ELSE "none"

(* paintable: not the white space between blocks. *)
Paintable(page, i) ==
    \/ page[i].kind = "atomic"
    \/ \E k \in DOMAIN page[i].data : page[i].data[k] \notin Blanks
    \/ page[i].marks # {}
    \/ LET sides == {Side(page, i, i - 1), Side(page, i, i + 1)}
       IN "block" \notin sides /\ "inline" \in sides

(* wrapText, innermost; tintAtomic. *)
Wrap(page, item, fresh) ==
    [i \in DOMAIN page |->
        IF Inside(page, i, item.span) /\ Paintable(page, i)
        THEN [page[i] EXCEPT !.marks = @ \cup {[note |-> item.note, element |-> fresh + i]}]
        ELSE page[i]]

(* Mutant: text is cut where the first span of a batch begins and ends.    *)
CutsOfFirst(items) == {items[1].span[1], items[1].span[2]}

CutsOf(items) == UNION {{items[k].span[1], items[k].span[2]} : k \in DOMAIN items}

(* The page after each item of a batch is wrapped. *)
Wrapped(cut, items) ==
    LET after[k \in 0 .. Len(items)] ==
            IF k = 0 THEN cut
            ELSE Wrap(after[k - 1], items[k], made + (k - 1) * Len(cut))
    IN  after[Len(items)]

PaintAll(items) ==
    LET cut == ApplyCuts(leaves, CutsOf(items))
        painted == Wrapped(cut, items)
    IN  /\ strokes < MaxStrokes /\ strokes' = strokes + 1
        /\ spans' = [n \in Marked |->
               IF \E k \in DOMAIN items : items[k].note = n
               THEN items[CHOOSE k \in DOMAIN items : items[k].note = n].span
               ELSE spans[n]]
        /\ leaves' = IF painted = cut THEN leaves ELSE painted     \* undoCuts
        /\ made' = made + Len(items) * Len(cut)

-----------------------------------------------------------------------------
(* unpaint *)

Unwrapped(leaf, note) == [leaf EXCEPT !.marks = {m \in @ : m.note # note}]

(* Mutant: the parents are forgotten. *)
TouchedNever(page, note) == {}

(* The parents of the marks that are unwrapped: the marks around each. *)
Touched(page, note) ==
    UNION {{[box |-> page[i].box, above |-> {a \in page[i].marks : a.element < m.element}] :
               m \in {m \in page[i].marks : m.note = note}} :
               i \in {i \in DOMAIN page : page[i].kind = "text"}}

Under(parent, leaf) ==
    parent.box \in {0, leaf.box} /\ parent.above \subseteq leaf.marks

(* normalize(): adjacent text nodes below a touched parent become one.     *)
Joins(a, b, touched) ==
    /\ a.kind = "text" /\ b.kind = "text" /\ a.box = b.box /\ a.marks = b.marks
    /\ \E parent \in touched : Under(parent, b)

JoinedAt(page, i) ==
    [k \in 1 .. Len(page) - 1 |->
        IF k < i THEN page[k]
        ELSE IF k = i THEN [page[i] EXCEPT !.data = @ \o page[i + 1].data]
        ELSE page[k + 1]]

JoinAt(page, i, touched) ==
    IF i < Len(page) /\ Joins(page[i], page[i + 1], touched) THEN JoinedAt(page, i) ELSE page

(* From the last leaf to the first. *)
Normalized(page, touched) ==
    LET after[j \in 0 .. Len(page)] ==
            IF j = 0 THEN page ELSE JoinAt(after[j - 1], Len(page) + 1 - j, touched)
    IN  after[Len(page)]

Unpaint(note) ==
    LET bare == [i \in DOMAIN leaves |-> Unwrapped(leaves[i], note)]
    IN  /\ strokes < MaxStrokes /\ strokes' = strokes + 1
        /\ spans[note] # Nowhere /\ spans' = [spans EXCEPT ![note] = Nowhere]
        /\ leaves' = Normalized(bare, Touched(leaves, note))
        /\ UNCHANGED made

Spans == {s \in (0 .. TextLength(leaves)) \X (0 .. TextLength(leaves)) : s[1] < s[2]}

Item(n, s) == [note |-> n, span |-> s]

PageNext ==
    \/ \E n \in Marked, s \in Spans :
          spans[n] = Nowhere /\ PaintAll(<<Item(n, s)>>)
    \/ \E n, o \in Marked, s, t \in Spans :
          /\ n # o /\ spans[n] = Nowhere /\ spans[o] = Nowhere
          /\ PaintAll(<<Item(n, s), Item(o, t)>>)
    \/ \E n \in Marked : Unpaint(n)

PageSpec == InitPage(Page) /\ [][PageNext]_pageVars

-----------------------------------------------------------------------------
NotesOn(leaf) == {m.note : m \in leaf.marks}

(* highlightElements, by the characters that they are over.                *)
PaintedWith(n) ==
    UNION {Ends(leaves)[i - 1] + 1 .. Ends(leaves)[i] :
               i \in {i \in DOMAIN leaves : n \in NotesOn(leaves[i])}}

(* However notes overlap, and in whatever order they are painted and       *)
(* unpainted, the text is the same and each note is on the characters it   *)
(* was painted over, white space between blocks apart, and on no other.    *)
PaintShowsSpans ==
    /\ Flat(leaves) = TheText
    /\ \A n \in Marked :
          /\ PaintedWith(n) \subseteq spans[n][1] + 1 .. spans[n][2]
          /\ \A k \in (spans[n][1] + 1 .. spans[n][2]) \ PaintedWith(n) :
                TheText[k] \in Blanks

(* What counts in a page besides white space. *)
Seen(page) ==
    {i \in DOMAIN page :
        page[i].kind = "text" => \E k \in DOMAIN page[i].data : page[i].data[k] \notin Blanks}

(* A page whose notes are all unpainted is in the pieces it was in: no     *)
(* word stays cut. White space beside a block may: it is cut for a note    *)
(* that is then not painted on it, and only what is painted is joined      *)
(* again (painter.ts 288-351, 557).                                        *)
WordsJoinAgain ==
    (\A n \in Marked : spans[n] = Nowhere) =>
        Cardinality(Seen(leaves)) = Cardinality(Seen(Page))

=============================================================================
