---------------------------- MODULE MessageLabs ----------------------------
(***************************************************************************)
(* The codes that the labs of the stories run in the page                  *)
(* (apps/web/src/stories/labs): Huffman's container, the (8,4) code that   *)
(* corrects one error and detects two, threefold repetition, the channel   *)
(* with a budget, Morse with gaps, and the machine that is run for a       *)
(* while. Bits are sequences of 0 and 1; what the noise draws is abstracted *)
(* to the set of positions it flips; a byte has Width bits.                *)
(***************************************************************************)
EXTENDS Naturals, Sequences, FiniteSets
LOCAL INSTANCE FiniteSetsExt
LOCAL INSTANCE SequencesExt
LOCAL INSTANCE Functions

CONSTANTS
    Width,          \* bits in a byte: 8
    MaxSource,      \* bytes in a message: 1,024
    MaxPositions    \* cells that are observed: MAX_OBSERVED_TAPE_CELLS

ASSUME LabAssumption ==
    Width \in Nat \ {0} /\ MaxSource \in Nat \ {0} /\ MaxPositions \in Nat \ {0}

Refused(error) == [ok |-> FALSE, error |-> error]
Result(value) == [ok |-> TRUE, value |-> value]

Flip(bits, positions) ==
    [i \in DOMAIN bits |-> IF i \in positions THEN 1 - bits[i] ELSE bits[i]]
Differences(a, b) == Cardinality({i \in DOMAIN a : a[i] # b[i]})

(* toBits and toBytes, high bit first. *)
ToBits(bytes) ==
    [i \in 1 .. Width * Len(bytes) |->
        (bytes[((i - 1) \div Width) + 1] \div 2 ^ (Width - 1 - ((i - 1) % Width))) % 2]
ToBytes(bits) ==
    [n \in 1 .. Len(bits) \div Width |->
        FoldLeft(LAMBDA byte, bit : 2 * byte + bit, 0,
                 SubSeq(bits, Width * (n - 1) + 1, Width * n))]

-----------------------------------------------------------------------------
(* huffman-message/codec.ts *)

(* A node of the tree carries the codes of the bytes below it. *)
Before(a, b) == a.count < b.count \/ (a.count = b.count /\ a.min < b.min)
Earliest(nodes) == CHOOSE a \in nodes : \A b \in nodes \ {a} : Before(a, b)

Merged(a, b) ==
    [count |-> a.count + b.count, min |-> Min({a.min, b.min}),
     codes |-> [x \in DOMAIN a.codes \cup DOMAIN b.codes |->
                   IF x \in DOMAIN a.codes THEN <<0>> \o a.codes[x] ELSE <<1>> \o b.codes[x]]]

MergeEarliest(nodes) ==
    LET a == Earliest(nodes)
        b == Earliest(nodes \ {a})
    IN  (nodes \ {a, b}) \cup {Merged(a, b)}

(* buildTree, for a function from bytes to their counts. *)
Codes(counts) ==
    IF Cardinality(DOMAIN counts) = 1 THEN [x \in DOMAIN counts |-> <<0>>]
    ELSE LET leaves == {[count |-> counts[x], min |-> x, codes |-> [y \in {x} |-> <<>>]] :
                           x \in DOMAIN counts}
             roots == FoldLeft(LAMBDA nodes, i : MergeEarliest(nodes), leaves,
                               [i \in 1 .. Cardinality(leaves) - 1 |-> i])
         IN  (CHOOSE root \in roots : TRUE).codes

Counts(bytes) == [x \in Range(bytes) |-> Cardinality({i \in DOMAIN bytes : bytes[i] = x})]
PayloadBits(counts, codes) ==
    MapThenSumSet(LAMBDA x : counts[x] * Len(codes[x]), DOMAIN counts)
PaddingBits(payloadBits) == (Width - (payloadBits % Width)) % Width
Zeros(n) == [i \in 1 .. n |-> 0]

EncodeHuffman(bytes) ==
    IF Len(bytes) \notin 1 .. MaxSource THEN Refused("invalid-source-length")
    ELSE LET counts == Counts(bytes)
             codes == Codes(counts)
             bits == PayloadBits(counts, codes)
             sorted == SetToSortSeq(DOMAIN counts, <)
         IN  Result([alphabet |-> [i \in DOMAIN sorted |-> <<sorted[i], counts[sorted[i]]>>],
                     length |-> Len(bytes), payloadBits |-> bits,
                     payload |-> FlattenSeq([i \in DOMAIN bytes |-> codes[bytes[i]]])
                                    \o Zeros(PaddingBits(bits))])

(* Mutant: padding is not looked at. *)
PaddingIgnored(box) == TRUE

PaddingClear(box) ==
    \A i \in box.payloadBits + 1 .. Len(box.payload) : box.payload[i] = 0

(* The walk down the tree: the bits since the last byte, and the bytes. *)
Walk(codes, bits) ==
    FoldLeft(LAMBDA so, bit :
                LET at == Append(so.at, bit)
                    leaf == {x \in DOMAIN codes : codes[x] = at}
                IN  IF leaf = {} THEN [so EXCEPT !.at = at]
                    ELSE [at |-> <<>>, bytes |-> Append(so.bytes, CHOOSE x \in leaf : TRUE)],
             [at |-> <<>>, bytes |-> <<>>], bits)

DecodeHuffman(box) ==
    LET bytes == {e[1] : e \in Range(box.alphabet)}
        counts == [x \in bytes |-> (CHOOSE e \in Range(box.alphabet) : e[1] = x)[2]]
        codes == Codes(counts)
        expected == PayloadBits(counts, codes)
        read == Walk(codes, SubSeq(box.payload, 1, box.payloadBits))
    IN  CASE Len(box.alphabet) \notin 1 .. 2 ^ Width -> Refused("invalid-alphabet-count")
          [] box.length \notin 1 .. MaxSource -> Refused("invalid-source-length")
          [] Cardinality(bytes) # Len(box.alphabet) -> Refused("duplicate-byte")
          [] \E x \in bytes : counts[x] = 0 -> Refused("invalid-count")
          [] MapThenSumSet(LAMBDA x : counts[x], bytes) # box.length -> Refused("count-mismatch")
          [] OTHER ->
             IF box.payloadBits # expected THEN Refused("payload-length")
             ELSE IF Len(box.payload) # expected + PaddingBits(expected)
             THEN Refused("truncated-payload or trailing-bytes")
             ELSE IF ~PaddingClear(box) THEN Refused("nonzero-padding")
             ELSE IF Cardinality(bytes) = 1 /\ \E i \in 1 .. expected : box.payload[i] = 1
             THEN Refused("invalid-single-symbol-code")
             ELSE IF read.at # <<>> THEN Refused("incomplete-payload")
             ELSE IF Len(read.bytes) # box.length THEN Refused("decoded-count-mismatch")
             ELSE IF Counts(read.bytes) # counts THEN Refused("decoded-frequency-mismatch")
             ELSE Result(read.bytes)

-----------------------------------------------------------------------------
(* communication/secded.ts and repetition.ts *)

Parity(bits, positions) == Cardinality({i \in positions : bits[i] = 1}) % 2

EncodeSecded(d) ==
    LET p1 == (d[1] + d[2] + d[4]) % 2
        p2 == (d[1] + d[3] + d[4]) % 2
        p4 == (d[2] + d[3] + d[4]) % 2
        seven == <<p1, p2, d[1], p4, d[2], d[3], d[4]>>
    IN  Append(seven, Parity(seven, 1 .. 7))

DecodeSecded(word) ==
    LET syndrome == Parity(word, {1, 3, 5, 7}) + 2 * Parity(word, {2, 3, 6, 7})
                       + 4 * Parity(word, {4, 5, 6, 7})
        overall == Parity(word, 1 .. 8)
        at == IF syndrome = 0 THEN 8 ELSE syndrome
        mended == IF overall = 1 THEN Flip(word, {at}) ELSE word
    IN  IF syndrome # 0 /\ overall = 0 THEN [decision |-> "rejected", data |-> <<>>]
        ELSE [decision |-> IF overall = 1 THEN "corrected" ELSE "no-alarm",
              data |-> <<mended[3], mended[5], mended[6], mended[7]>>]

EncodeRepeat3(bits) == [i \in 1 .. 3 * Len(bits) |-> bits[((i - 1) \div 3) + 1]]
DecodeRepeat3(bits) ==
    [i \in 1 .. Len(bits) \div 3 |->
        IF bits[3 * i - 2] + bits[3 * i - 1] + bits[3 * i] >= 2 THEN 1 ELSE 0]

-----------------------------------------------------------------------------
(* channel-budget/model.ts *)

CodeParameters ==
    [raw |-> [k |-> 1, n |-> 1], repeat3 |-> [k |-> 1, n |-> 3], secded |-> [k |-> 4, n |-> 8]]

Required(bitCount, code) ==
    LET c == CodeParameters[code] IN ((bitCount + c.k - 1) \div c.k) * c.n

Word(bits, i, n) == SubSeq(bits, n * (i - 1) + 1, n * i)

Encode(bits, code) ==
    CASE code = "raw" -> bits
      [] code = "repeat3" -> EncodeRepeat3(bits)
      [] code = "secded" ->
            FlattenSeq([i \in 1 .. Len(bits) \div 4 |-> EncodeSecded(Word(bits, i, 4))])

(* One word rejected rejects the message. *)
Decode(bits, code) ==
    CASE code = "raw" -> Result(bits)
      [] code = "repeat3" -> Result(DecodeRepeat3(bits))
      [] code = "secded" ->
            LET words == [i \in 1 .. Len(bits) \div 8 |-> DecodeSecded(Word(bits, i, 8))]
            IN  IF \E i \in DOMAIN words : words[i].decision = "rejected"
                THEN Refused("rejected")
                ELSE Result(FlattenSeq([i \in DOMAIN words |-> words[i].data]))

RunTransmission(bytes, code, budget, noise) ==
    LET source == ToBits(bytes)
        decoded == Decode(Flip(Encode(source, code), noise), code)
        errors == Differences(source, decoded.value)
    IN  IF bytes = <<>> \/ Len(bytes) > MaxSource THEN Refused("byte-limit")
        ELSE IF Required(Len(source), code) > budget THEN Refused("budget-exceeded")
        ELSE IF ~decoded.ok THEN Result([outcome |-> "rejected", received |-> <<>>])
        ELSE Result([outcome |-> IF errors = 0 THEN "exact" ELSE "silent-corruption",
                     received |-> ToBytes(decoded.value)])

-----------------------------------------------------------------------------
(* morse-spacing/model.ts: a mark is a duration of 1 or 3, and so a gap.   *)

Codebook == [A |-> <<1, 3>>, B |-> <<3, 1, 1, 1>>, E |-> <<1>>, M |-> <<3, 3>>, T |-> <<3>>]
Mark(d) == [kind |-> "mark", duration |-> d]
Gap(d) == [kind |-> "gap", duration |-> d]

(* A text is a sequence of words, a word a sequence of letters. *)
LetterMarks(letter) ==
    LET code == Codebook[letter]
    IN  [i \in 1 .. 2 * Len(code) - 1 |-> IF i % 2 = 1 THEN Mark(code[(i + 1) \div 2]) ELSE Gap(1)]

Joined(parts, gap) ==
    FoldLeft(LAMBDA done, part : IF done = <<>> THEN part ELSE done \o <<gap>> \o part, <<>>, parts)

MorseTimeline(words, letterGap, wordGap) ==
    Joined([w \in DOMAIN words |->
               Joined([l \in DOMAIN words[w] |-> LetterMarks(words[w][l])], Gap(letterGap))],
           Gap(wordGap))

(* readMorse; a code that is no letter of the book ends as unknown here,   *)
(* where the code knows the rest of the alphabet as well.                  *)
ReadMorse(segments) ==
    LET letter(code) == {x \in DOMAIN Codebook : Codebook[x] = code}
        finish(so) == IF letter(so.code) = {} THEN [so EXCEPT !.known = FALSE]
                      ELSE [so EXCEPT !.code = <<>>,
                                !.words[Len(so.words)] = Append(@, CHOOSE x \in letter(so.code) : TRUE)]
        step(so, s) == IF s.kind = "mark" THEN [so EXCEPT !.code = Append(@, s.duration)]
                       ELSE IF s.duration < 2 THEN so
                       ELSE IF s.duration >= 5 THEN [finish(so) EXCEPT !.words = Append(@, <<>>)]
                       ELSE finish(so)
        read == finish(FoldLeft(step, [code |-> <<>>, words |-> << <<>> >>, known |-> TRUE], segments))
    IN  IF read.known THEN Result(read.words) ELSE Refused("unknown-code")

-----------------------------------------------------------------------------
(* computation-limits/model.ts. A state's name is what is observed of it,  *)
(* and the rest, "" unless the name is too long to be observed whole.      *)

Observed(snapshot) == [snapshot EXCEPT !.state = @[1]]

(* Mutant: a name cut short is still taken for the state. *)
SaturatedByTape(program, s, next) == next < 1 \/ next > MaxPositions

(* The window no longer tells everything apart. *)
Saturated(program, s, next) ==
    next < 1 \/ next > MaxPositions \/ program[s.state].next[2] # ""

(* A step: the head moves, then writes; a tape that would grow to the left *)
(* is shifted, and cut at the window's end.                                *)
StepMachine(program, s) ==
    LET t == program[s.state]
        next == IF t.left THEN s.head - 1 ELSE s.head + 1
        shifted == IF next < 1 THEN SubSeq(<<"">> \o s.tape, 1, MaxPositions) ELSE s.tape
        head == IF next < 1 THEN 1 ELSE Min({next, MaxPositions})
        grown == IF head > Len(shifted) THEN Append(shifted, "") ELSE shifted
    IN  [tape |-> [grown EXCEPT ![head] = t.write], head |-> head, state |-> t.next]

RunBoundedMachine(program, start, limit) ==
    LET step(so, i) ==
            IF so.status # "running" THEN so
            ELSE LET s == so.snapshot
                     t == program[s.state]
                     after == StepMachine(program, s)
                     blind == so.blind \/ Saturated(program, s, IF t.left THEN s.head - 1 ELSE s.head + 1)
                 IN  [snapshot |-> after, blind |-> blind,
                      seen |-> so.seen \cup {Observed(after)},
                      status |-> IF after.state \notin DOMAIN program THEN "halted"
                                 ELSE IF ~blind /\ Observed(after) \in so.seen THEN "cycle-detected"
                                 ELSE "running"]
        first == [snapshot |-> start, seen |-> {Observed(start)}, blind |-> start.state[2] # "",
                  status |-> IF start.state \in DOMAIN program THEN "running" ELSE "halted"]
        last == FoldLeft(step, first, [i \in 1 .. limit |-> i])
    IN  IF last.status = "running" THEN "step-limit" ELSE last.status

-----------------------------------------------------------------------------
(* The least cost of a tree over these counts, whatever is merged when.    *)
RECURSIVE LeastCost(_)
LeastCost(weights) ==
    IF Len(weights) = 1 THEN 0
    ELSE Min({weights[i] + weights[j]
                + LeastCost(Append(RemoveAt(RemoveAt(weights, j), i), weights[i] + weights[j])) :
                <<i, j>> \in {p \in (1 .. Len(weights)) \X (1 .. Len(weights)) : p[1] < p[2]}})

(* What decodes is what was encoded, in no more bits than any tree needs;  *)
(* and a container that was tampered with is refused, or is the one        *)
(* container of the bytes it decodes to.                                   *)
HuffmanHolds(bytes, tamper(_)) ==
    LET box == EncodeHuffman(bytes).value
        weights == [i \in DOMAIN box.alphabet |-> box.alphabet[i][2]]
        decoded == DecodeHuffman(tamper(box))
    IN  /\ DecodeHuffman(box) = Result(bytes)
        /\ Len(weights) > 1 => box.payloadBits = LeastCost(weights)
        /\ decoded.ok => EncodeHuffman(decoded.value) = Result(tamper(box))

(* One flip in a word is mended, two are noticed, and only a message with  *)
(* more of them in some word arrives damaged unnoticed.                    *)
ChannelHolds(bytes, code, noise) ==
    LET n == CodeParameters[code].n
        length == Required(Len(bytes) * Width, code)
        worst == Max({Cardinality(noise \cap (n * (w - 1) + 1 .. n * w)) : w \in 1 .. length \div n})
        run == RunTransmission(bytes, code, length, noise)
    IN  /\ run.ok
        /\ (worst = 0 \/ (worst = 1 /\ code # "raw")) =>
              run.value = [outcome |-> "exact", received |-> bytes]
        /\ (worst = 2 /\ code = "secded") => run.value.outcome = "rejected"
        /\ run.value.outcome = "exact" => run.value.received = bytes

(* With gaps the reader can tell apart, what is keyed is read.             *)
MorseHolds(words, letterGap, wordGap) ==
    letterGap \in 2 .. 4 /\ wordGap >= 5 =>
        ReadMorse(MorseTimeline(words, letterGap, wordGap)) = Result(words)

(* A verdict is never taken back: a machine said to have halted has, one   *)
(* said to be in a cycle never halts, however long it is run.              *)
MachineHolds(program, start, limit) ==
    LET longer == RunBoundedMachine(program, start, limit + Cardinality(DOMAIN program))
        states == {program[s].next : s \in DOMAIN program}
    IN  CASE RunBoundedMachine(program, start, limit) = "halted" -> longer = "halted"
          [] RunBoundedMachine(program, start, limit) = "cycle-detected" ->
                \E S \in SUBSET DOMAIN program :
                    start.state \in S /\ \A s \in S : program[s].next \in S
          [] OTHER -> TRUE

=============================================================================
