----------------------------- MODULE QuoteAnchor -----------------------------
(***************************************************************************)
(* Quotes and where they are found again: annotations/anchor.ts. The text  *)
(* of a chapter is projected (white space collapsed, a change of block     *)
(* counted as white space), a selection is kept as the projected text and  *)
(* what stands around it, and is looked up by its signature, by its words, *)
(* or, if its words were edited, by a search for what is nearest to them.  *)
(* A page is its segments [block, atomic, data]; a character is a string.  *)
(* Spans are <<from, to>> from 0, as in the code. The budget of cells and  *)
(* the rejection of bodies that are no anchor are left out.                *)
(***************************************************************************)
EXTENDS Integers, Sequences, FiniteSets
LOCAL INSTANCE SequencesExt

CONSTANTS
    ContextLen,     \* CONTEXT_LEN
    Probes,         \* the lengths of context tried, longest first
    FuzzySlack,     \* FUZZY_SLACK
    CandCap,        \* CAND_CAP
    MaxEditDist     \* MAX_EDIT_DIST

ASSUME QuoteAssumption ==
    /\ ContextLen \in Nat /\ FuzzySlack \in Nat /\ CandCap \in Nat \ {0}
    /\ MaxEditDist \in Nat /\ Probes \in Seq(1 .. ContextLen)

Blank == " "
Atom == "@"
NotFound == <<0, 0>>

Lesser(a, b) == IF a < b THEN a ELSE b
Greater(a, b) == IF a > b THEN a ELSE b
Distance(a, b) == IF a < b THEN b - a ELSE a - b
Slice(s, from, to) == SubSeq(s, from + 1, to)

-----------------------------------------------------------------------------
(* buildProjection: characters with where each begins and ends in the raw  *)
(* text; white space waits until a character follows it.                   *)

RawLength(page) == FoldLeft(LAMBDA sum, seg : sum + Len(seg.data), 0, page)

\* Every raw character with its offset, and the blocks that begin at one.
RawChars(page) ==
    FlattenSeq([k \in DOMAIN page |->
        LET at == RawLength(SubSeq(page, 1, k - 1)) IN
        [i \in DOMAIN page[k].data |->
            [ch |-> page[k].data[i], at |-> at + i - 1,
             edge |-> i = 1 /\ k > 1 /\ page[k].block # page[k - 1].block]]])

NoPending == [from |-> -1, to |-> -1]

\* flushPending: a blank, unless nothing stands before it.
WithBlank(chars, pending) ==
    IF pending = NoPending \/ chars = <<>> THEN chars
    ELSE Append(chars, [ch |-> Blank, start |-> pending.from, end |-> pending.to])

Project(page) ==
    FoldLeft(LAMBDA acc, raw :
        LET pending == IF raw.edge /\ acc.pending = NoPending
                       THEN [from |-> raw.at, to |-> raw.at] ELSE acc.pending
        IN  IF raw.ch = Blank
            THEN [chars |-> acc.chars,
                  pending |-> [from |-> IF pending = NoPending THEN raw.at ELSE pending.from,
                               to |-> raw.at + 1]]
            ELSE [chars |-> Append(WithBlank(acc.chars, pending),
                                   [ch |-> raw.ch, start |-> raw.at, end |-> raw.at + 1]),
                  pending |-> NoPending],
        [chars |-> <<>>, pending |-> NoPending], RawChars(page)).chars

TextOf(proj) == [i \in DOMAIN proj |-> proj[i].ch]

(* Mutant: a character that ends where the selection begins is in it. *)
FirstEndAtOrAfter(proj, raw) == Cardinality({i \in DOMAIN proj : proj[i].end < raw})

FirstEndAfter(proj, raw) == Cardinality({i \in DOMAIN proj : proj[i].end <= raw})
FirstStartAtOrAfter(proj, raw) == Cardinality({i \in DOMAIN proj : proj[i].start < raw})

-----------------------------------------------------------------------------
(* selectionToAnchor, of a raw span. *)

\* The projected span without the blanks at its ends.
Trimmed(text, from, to) ==
    LET inner == {i \in from + 1 .. to : text[i] # Blank}
    IN  IF inner = {} THEN NotFound
        ELSE LET first == CHOOSE i \in inner : \A j \in inner : i <= j
                 last == CHOOSE i \in inner : \A j \in inner : i >= j
             IN  <<first - 1, last>>

Selected(proj, raw) ==
    Trimmed(TextOf(proj), FirstEndAfter(proj, raw[1]), FirstStartAtOrAfter(proj, raw[2]))

AnchorAt(text, span) ==
    [exact |-> Slice(text, span[1], span[2]),
     prefix |-> Slice(text, Greater(0, span[1] - ContextLen), span[1]),
     suffix |-> Slice(text, span[2], Lesser(Len(text), span[2] + ContextLen))]

-----------------------------------------------------------------------------
(* Exact search. *)

AllIndexOf(hay, needle) ==
    IF needle = <<>> THEN {}
    ELSE {i \in 0 .. Len(hay) - Len(needle) : Slice(hay, i, i + Len(needle)) = needle}

LeastOf(S) == CHOOSE x \in S : \A y \in S : x <= y
GreatestOf(S) == CHOOSE x \in S : \A y \in S : x >= y

(* contextScore: characters of context that agree, outward from the quote. *)
ContextScore(text, span, prefix, suffix) ==
    GreatestOf({k \in 0 .. Lesser(Len(prefix), span[1]) :
                   Slice(text, span[1] - k, span[1])
                       = SubSeq(prefix, Len(prefix) - k + 1, Len(prefix))})
    + GreatestOf({k \in 0 .. Lesser(Len(suffix), Len(text) - span[2]) :
                     Slice(text, span[2], span[2] + k) = SubSeq(suffix, 1, k)})

-----------------------------------------------------------------------------
(* levenshtein, within a band; beyond it, band + 1. *)

LevRow(prev, a, b, i, band) ==
    FoldLeft(LAMBDA row, j :
        Append(row,
            IF j > i + band \/ j < i - band THEN band + 1
            ELSE IF j = 0 THEN i
            ELSE Lesser(band + 1,
                   Lesser(prev[j] + (IF a[i] = b[j] THEN 0 ELSE 1),
                          Lesser(prev[j + 1], row[j]) + 1))),
        <<>>, [j \in 1 .. Len(b) + 1 |-> j - 1])

Levenshtein(a, b, band) ==
    IF Distance(Len(a), Len(b)) > band THEN band + 1
    ELSE FoldLeft(LAMBDA row, i : LevRow(row, a, b, i, band),
                  [j \in 1 .. Len(b) + 1 |-> Lesser(j - 1, band + 1)],
                  [i \in DOMAIN a |-> i])[Len(b) + 1]

-----------------------------------------------------------------------------
(* bestWindowMatch: Sellers' search in text[from, to), within a band; a    *)
(* cell is the distance and where its best path began.                     *)

Beyond(from, maxDist) == [d |-> maxDist + 1, s |-> from]

\* Of two cells the nearer, and of equals the one that began nearer `expected'.
Nearer(a, b, expected) ==
    IF b.d < a.d \/ (b.d = a.d /\ Distance(b.s, expected) < Distance(a.s, expected))
    THEN b ELSE a

Costlier(cell, by) == [cell EXCEPT !.d = @ + by]

WindowRow(prev, text, from, w, pattern, i, maxDist, slack, expected) ==
    FoldLeft(LAMBDA row, j :
        Append(row,
            IF j < i - maxDist \/ j > i + slack + maxDist THEN Beyond(from, maxDist)
            ELSE IF j = 0 THEN [d |-> i, s |-> from]
            ELSE LET sub == Costlier(prev[j], IF pattern[i] = text[from + j] THEN 0 ELSE 1)
                     best == Nearer(Nearer(sub, Costlier(prev[j + 1], 1), expected),
                                    Costlier(row[j], 1), expected)
                 IN  [best EXCEPT !.d = Lesser(@, maxDist + 1)]),
        <<>>, [j \in 1 .. w + 1 |-> j - 1])

(* Mutant: the band is one cell too narrow where the window leaves slack. *)
NarrowSlack(w, m, maxDist) == Greater(0, w - m + maxDist - 1)

StartSlack(w, m, maxDist) == Greater(0, w - m + maxDist)

LastRow(text, from, to, pattern, maxDist, expected) ==
    LET w == to - from
        slack == StartSlack(w, Len(pattern), maxDist)
        first == [j \in 1 .. w + 1 |-> IF j - 1 <= slack + maxDist
                                       THEN [d |-> 0, s |-> from + j - 1]
                                       ELSE Beyond(from, maxDist)]
    IN  FoldLeft(LAMBDA row, i :
                     WindowRow(row, text, from, w, pattern, i, maxDist, slack, expected),
                 first, [i \in DOMAIN pattern |-> i])

NoMatch == [span |-> NotFound, dist |-> -1]

\* The best of the spans that end at a cell of the last row within reach.
BestOfRow(row, ends, text, from, quote, maxDist) ==
    LET m == Len(quote.exact)
        least == LeastOf({row[j + 1].d : j \in ends})
        SpanTo(j) == <<row[j + 1].s, from + j>>
        candidates == {j \in ends : row[j + 1].d = least /\ from + j > row[j + 1].s}
        Score(j) == ContextScore(text, SpanTo(j), quote.prefix, quote.suffix)
        Gap(j) == Distance(from + j - row[j + 1].s, m)
        Better(j, k) == \/ Score(j) > Score(k)
                        \/ Score(j) = Score(k) /\ Gap(j) < Gap(k)
                        \/ Score(j) = Score(k) /\ Gap(j) = Gap(k) /\ j <= k
    IN  IF ends = {} THEN NoMatch
        ELSE IF least > maxDist \/ candidates = {} THEN NoMatch
        ELSE [span |-> SpanTo(CHOOSE j \in candidates : \A k \in candidates : Better(j, k)),
              dist |-> least]

BestWindowMatch(text, from, to, quote, maxDist, expected) ==
    LET m == Len(quote.exact)
        w == to - from
    IN  IF m = 0 \/ w <= 0 THEN NoMatch
        ELSE BestOfRow(LastRow(text, from, to, quote.exact, maxDist, expected),
                       Greater(1, m - maxDist)
                           .. Lesser(w, m + StartSlack(w, m, maxDist) + maxDist),
                       text, from, quote, maxDist)

-----------------------------------------------------------------------------
(* candidateStarts and probe: where the context says the quote began.      *)

FirstOf(S, cap) == {x \in S : Cardinality({y \in S : y < x}) < cap}

Probe(text, context, isPrefix) ==
    LET lengths == <<Lesser(Len(context), ContextLen)>> \o Probes
        Needle(len) == IF isPrefix THEN SubSeq(context, Len(context) - len + 1, Len(context))
                       ELSE SubSeq(context, 1, len)
        InWindow(k) == /\ lengths[k] \in 1 .. Len(context)
                     /\ AllIndexOf(text, Needle(lengths[k])) # {}
        hits == {k \in DOMAIN lengths : InWindow(k)}
    IN  IF hits = {} THEN {}
        ELSE LET len == lengths[LeastOf(hits)]
                 at == FirstOf(AllIndexOf(text, Needle(len)), CandCap)
             IN  IF isPrefix THEN {i + len : i \in at} ELSE at

CandidateStarts(text, quote) ==
    LET m == Len(quote.exact)
        found == Probe(text, quote.prefix, TRUE)
                     \cup {i - m : i \in Probe(text, quote.suffix, FALSE)}
    IN  FirstOf({c \in found : c > -m /\ c < Len(text)}, CandCap)

(* fuzzyFind *)
MaxDist(m) == Lesser(Greater(2, (m + 4) \div 5), MaxEditDist)

\* What the window around each candidate holds, if it is near enough.
FuzzyHits(text, quote, maxDist) ==
    LET m == Len(quote.exact)
        Hit(c) == BestWindowMatch(text, Greater(0, c - FuzzySlack),
                      Lesser(Len(text), c + m + FuzzySlack), quote, maxDist, c)
        Near(h) == /\ h.hit # NoMatch
                   /\ Levenshtein(quote.exact, Slice(text, h.hit.span[1], h.hit.span[2]),
                                  maxDist) <= maxDist
    IN  {h \in {[hit |-> Hit(c), c |-> c] : c \in CandidateStarts(text, quote)} : Near(h)}

NearestOf(good, text, quote) ==
    LET Score(h) == ContextScore(text, h.hit.span, quote.prefix, quote.suffix)
        Better(g, h) == \/ g.hit.dist < h.hit.dist
                        \/ g.hit.dist = h.hit.dist /\ Score(g) > Score(h)
                        \/ g.hit.dist = h.hit.dist /\ Score(g) = Score(h) /\ g.c <= h.c
    IN  IF good = {} THEN NotFound
        ELSE (CHOOSE g \in good : \A h \in good : Better(g, h)).hit.span

FuzzyFind(text, quote) ==
    LET maxDist == MaxDist(Len(quote.exact))
    IN  IF Len(quote.exact) < 4 * maxDist THEN NotFound
        ELSE NearestOf(FuzzyHits(text, quote, maxDist), text, quote)

(* anchorToRange, as a projected span. *)
Found(text, quote, fuzzy) ==
    LET context == quote.prefix \o quote.exact \o quote.suffix
        unique == AllIndexOf(text, context)
        places == AllIndexOf(text, quote.exact)
        At(i) == <<i, i + Len(quote.exact)>>
        Score(i) == ContextScore(text, At(i), quote.prefix, quote.suffix)
    IN  IF context # quote.exact /\ Cardinality(unique) = 1
        THEN At(LeastOf(unique) + Len(quote.prefix))
        ELSE IF places # {}
        THEN At(CHOOSE i \in places : \A j \in places :
                    Score(i) > Score(j) \/ (Score(i) = Score(j) /\ i <= j))
        ELSE IF fuzzy THEN FuzzyFind(text, quote) ELSE NotFound

(* materialize *)
RawSpan(proj, span) == <<proj[span[1] + 1].start, proj[span[2]].end>>

-----------------------------------------------------------------------------
(* What they promise. *)

(* The least number of edits, by definition. *)
EditDistance(a, b) ==
    LET D[i \in 0 .. Len(a), j \in 0 .. Len(b)] ==
            IF i = 0 THEN j
            ELSE IF j = 0 THEN i
            ELSE IF a[i] = b[j] THEN D[i - 1, j - 1]
            ELSE 1 + LeastOf({D[i - 1, j - 1], D[i - 1, j], D[i, j - 1]})
    IN  D[Len(a), Len(b)]

(* The text a reader sees: words, and one blank where any white space or a *)
(* new block stands between two characters.                                *)
SeenText(page) ==
    LET raw == RawChars(page)
        solid == SelectSeq([i \in DOMAIN raw |-> i], LAMBDA i : raw[i].ch # Blank)
        Apart(i, j) == \/ \E k \in i + 1 .. j - 1 : raw[k].ch = Blank
                       \/ \E k \in i + 1 .. j : raw[k].edge
    IN  FlattenSeq([n \in DOMAIN solid |->
            IF n > 1 /\ Apart(solid[n - 1], solid[n])
            THEN <<Blank, raw[solid[n]].ch>> ELSE <<raw[solid[n]].ch>>])

RawSpans(page) ==
    {s \in (0 .. RawLength(page)) \X (0 .. RawLength(page)) : s[1] < s[2]}

FoundWhereMade(proj, text, span, quote, found) ==
    /\ found # NotFound
    /\ Slice(text, found[1], found[2]) = quote.exact
    /\ ContextScore(text, found, quote.prefix, quote.suffix)
           = Len(quote.prefix) + Len(quote.suffix)
    /\ Cardinality(AllIndexOf(text, quote.prefix \o quote.exact \o quote.suffix)) = 1
           => found = span
    /\ Selected(proj, RawSpan(proj, found)) = found

RoundTrip(proj, text, span, quote) ==
    FoundWhereMade(proj, text, span, quote, Found(text, quote, FALSE))

SelectionsRoundTrip(proj, text, raws) ==
    \A raw \in raws : Selected(proj, raw) # NotFound =>
        RoundTrip(proj, text, Selected(proj, raw), AnchorAt(text, Selected(proj, raw)))

(* Whatever is selected is found again: at the same words with the same    *)
(* words around them, at the very place if the signature is the only one,  *)
(* and selecting what was found selects the same once more.                *)
SelectionRoundTrips(page) ==
    /\ TextOf(Project(page)) = SeenText(page)
    /\ SelectionsRoundTrip(Project(page), SeenText(page), RawSpans(page))

(* The bands lose nothing at or below the threshold: a distance is the     *)
(* true one, and the match is as near as any stretch of the window is.     *)
BandsLoseNothing(text, pattern, maxDist) ==
    LET stretches == {s \in (0 .. Len(text)) \X (0 .. Len(text)) : s[1] < s[2]}
        Far(span) == EditDistance(pattern, Slice(text, span[1], span[2]))
        AsNear(hit, least) ==
            IF least > maxDist THEN hit = NoMatch
            ELSE hit.dist = least /\ Far(hit.span) = least
    IN  /\ Levenshtein(pattern, text, maxDist)
               = Lesser(EditDistance(pattern, text), maxDist + 1)
        /\ AsNear(BestWindowMatch(text, 0, Len(text),
                       [exact |-> pattern, prefix |-> <<>>, suffix |-> <<>>], maxDist, 0),
                  LeastOf({Far(s) : s \in stretches}))

(* A quote edited within, its surroundings left alone, is found again      *)
(* between those surroundings, if what became of it is near enough.        *)
EditedQuoteFound(before, quoted, edited, after) ==
    LET maxDist == MaxDist(Len(quoted))
        EditsTo(other) == Levenshtein(quoted, other, maxDist)
        text == before \o edited \o after
        quote == AnchorAt(before \o quoted \o after,
                          <<Len(before), Len(before) + Len(quoted)>>)
        AsNear(found) ==
            /\ found # NotFound
            /\ EditsTo(Slice(text, found[1], found[2])) <= EditsTo(edited)
    IN  EditsTo(edited) <= maxDist => AsNear(Found(text, quote, TRUE))

=============================================================================
