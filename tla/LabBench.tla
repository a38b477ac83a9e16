------------------------------ MODULE LabBench ------------------------------
(***************************************************************************)
(* The labs of the stories about signals (apps/web/src/stories/labs), each *)
(* as the learner uses it: the value the session keeps for the lab, the    *)
(* controls that write it, the run that records a result with what it was  *)
(* run on, and what the lab then shows and says of it.                     *)
(*                                                                         *)
(* One lab at a time is on the bench. A probability is a number of         *)
(* DrawRange-ths, a position counts from 1, what a pulse has reached is a  *)
(* number of Scale-ths.                                                    *)
(***************************************************************************)
EXTENDS MessageLabs, Integers, TLC
LOCAL INSTANCE FiniteSetsExt
LOCAL INSTANCE SequencesExt
LOCAL INSTANCE Functions

CONSTANTS
    Messages,           \* what the message may be: sequences of bytes
    Alternating,        \* ALTERNATING_BYTES: 0x55
    PageBits,           \* BITS_PER_PAGE: 64
    TriplePage,         \* SOURCE_BITS_PER_PAGE: 12
    DrawRange,          \* UINT32_RANGE
    Increment,          \* MULBERRY32_INCREMENT
    Mixing,             \* mixState
    TypedDrafts,        \* what is typed as a probability, in halves of a step
    Durations,          \* of a pulse
    Kept,               \* tau |-> <<a, q>>: exp(-1/(TicksPerUnit * tau)) is a/q
    TicksPerUnit,       \* TICKS_PER_UNIT: 16
    Scale,
    WeightMax,          \* 100
    SourceSymbols,      \* A, B, C, D
    FirstBook, CodeWords, \* a code book, and what is typed in one
    MaxLetters,         \* symbols in a source: 6
    ReadingLimit,       \* READING_LIMIT: 32
    MorseExamples,
    Never,              \* null
    MaxTurns            \* bound: what is done on the bench

ASSUME BenchAssumption ==
    /\ {PageBits, TriplePage, DrawRange, TicksPerUnit, Scale} \subseteq Nat \ {0}
    /\ Mixing \in [0 .. DrawRange - 1 -> 0 .. DrawRange - 1]
    /\ {Increment, MaxLetters, ReadingLimit, WeightMax, MaxTurns} \subseteq Nat

VARIABLES
    bench,      \* the lab
    value,      \* what the session keeps for it
    inUse,      \* the bytes of the message in use
    revised,    \* its revision
    presses     \* what was done so far

benchVars == <<bench, value, inUse, revised, presses>>

PageCount(length, per) == Max({1, (length + per - 1) \div per})

(* The positions BitWindow or TripleWindow shows of a page that may be gone. *)
Window(length, per, page) ==
    LET safe == Min({page, PageCount(length, per) - 1})
    IN  per * safe + 1 .. Min({per * (safe + 1), length})

(* Previous and next, from the page that is shown. *)
Neighbours(length, per, page) ==
    LET safe == Min({page, PageCount(length, per) - 1})
    IN  {safe - 1, safe + 1} \cap (0 .. PageCount(length, per) - 1)

-----------------------------------------------------------------------------
(* communication/random.ts and noise.ts                                    *)

Uniforms(seed, count) ==
    LET advance(states, i) == Append(states, (Last(states) + Increment) % DrawRange)
        states == FoldLeft(advance, <<seed>>, [i \in 1 .. count |-> i])
    IN  [i \in 1 .. count |-> Mixing[states[i + 1]]]

UniformAt(seed, index) ==
    LET steps == ((index % DrawRange) + 1) % DrawRange
    IN  Mixing[(seed + Increment * steps) % DrawRange]

BscFlips(bits, p, seed) ==
    LET draws == Uniforms(seed, Len(bits)) IN {i \in DOMAIN bits : draws[i] < p}

Seeds == 0 .. DrawRange - 1
ProbabilityMax == DrawRange \div 2
NextSeed(seed) == (seed + 1) % DrawRange

-----------------------------------------------------------------------------
(* pulse-channel: symbols of one level each, smoothed by a time constant   *)
(* and sampled at a fraction, in quarters, of each.                        *)

Amplitude(bit) == IF bit = 0 THEN -1 ELSE 1

(* A pulse keeps a/q of what it was, tick by tick. With no time constant   *)
(* it follows at once, and the edge has two points.                        *)
SimulatePulses(bits, c) ==
    LET ticks == c.duration * TicksPerUnit
        symbolAt(tick) == Min({tick \div ticks + 1, Len(bits)})
        sampleTick(symbol) == ((4 * (symbol - 1) + c.fraction) * ticks) \div 4
        keep == Kept[c.tau]
        level(tick) == Scale * Amplitude(bits[symbolAt(tick)])
        step(so, tick) ==
            LET moved == IF c.tau = 0 THEN level(tick)
                         ELSE (keep[1] * so.output + (keep[2] - keep[1]) * level(tick)) \div keep[2]
                edge == IF c.tau = 0 /\ level(tick + 1) # moved
                        THEN <<<<tick + 1, moved, moved>>>> ELSE <<>>
                output == IF c.tau = 0 THEN level(tick + 1) ELSE moved
                sampled == {s \in DOMAIN bits : sampleTick(s) = tick + 1}
            IN  [output |-> output,
                 points |-> so.points \o edge \o <<<<tick + 1, level(tick + 1), output>>>>,
                 samples |-> so.samples \o
                    [k \in 1 .. Cardinality(sampled) |->
                        [time |-> tick + 1, value |-> output,
                         sent |-> bits[CHOOSE s \in sampled : TRUE],
                         received |-> IF output >= 0 THEN 1 ELSE 0]]]
        first == IF c.tau = 0 THEN level(0) ELSE 0
        ran == FoldLeft(step,
                        [output |-> 0, points |-> <<<<0, level(0), first>>>>, samples |-> <<>>],
                        [t \in 1 .. Len(bits) * ticks |-> t - 1])
    IN  [points |-> ran.points, samples |-> ran.samples,
         errors |-> Cardinality({i \in DOMAIN ran.samples :
                                    ran.samples[i].sent # ran.samples[i].received})]

PulseBits(v) == ToBits(IF v.source = "alternating" THEN Alternating ELSE inUse)

PulseConfig(v) ==
    [duration |-> v.duration, tau |-> v.tau, fraction |-> v.fraction, source |-> v.source,
     page |-> Min({v.page, PageCount(Len(PulseBits(v)), PageBits) - 1})]

(* The window that is run is the window that is shown. *)
PulseWindow(v) ==
    LET shown == Window(Len(PulseBits(v)), PageBits, v.page)
    IN  SubSeq(PulseBits(v), Min(shown), Max(shown))

PulseSnapshot(s) ==
    /\ s # Never
    /\ s.revision \in Nat /\ s.config.duration \in Durations /\ s.config.tau \in DOMAIN Kept
    /\ s.config.fraction \in 1 .. 3 /\ s.config.source \in {"alternating", "message"}
    /\ s.config.page \in Nat /\ s.result.errors \in Nat

ReadPulse(v) ==
    [duration |-> IF v.duration \in Durations THEN v.duration ELSE Min(Durations),
     tau |-> IF v.tau \in DOMAIN Kept THEN v.tau ELSE 1,
     fraction |-> IF v.fraction \in 1 .. 3 THEN v.fraction ELSE 2,
     source |-> IF v.source = "message" THEN "message" ELSE "alternating",
     page |-> IF v.page \in Nat THEN v.page ELSE 0,
     snapshot |-> IF PulseSnapshot(v.snapshot) THEN v.snapshot ELSE Never]

(* What PulseWaveform draws of the input: it holds its level until the     *)
(* next point and changes it there.                                        *)
InputPath(points) ==
    FoldLeft(LAMBDA path, p :
                path \o <<<<p[1], Last(path)[2]>>>>
                     \o (IF p[2] = Last(path)[2] THEN <<>> ELSE <<<<p[1], p[2]>>>>),
             <<<<points[1][1], points[1][2]>>>>, Tail(points))

-----------------------------------------------------------------------------
(* binary-noise                                                            *)

(* parseProbability: at most a half, and a whole number of steps. *)
ParseProbability(draft) ==
    IF draft = Never THEN Never
    ELSE IF draft <= 2 * ProbabilityMax /\ draft % 2 = 0 THEN draft \div 2 ELSE Never

(* manualNoise and transmitNoisy. *)
NoiseResult(bytes, flips) ==
    LET bits == Flip(ToBits(bytes), flips)
    IN  [received |-> ToBytes(bits), flipped |-> flips, errors |-> Cardinality(flips),
         exact |-> ToBytes(bits) = bytes]

Transmitted(bytes, c) ==
    IF c.mode = "bsc" THEN Result(NoiseResult(bytes, BscFlips(ToBits(bytes), c.p, c.seed)))
    ELSE IF c.manual \subseteq DOMAIN ToBits(bytes) THEN Result(NoiseResult(bytes, c.manual))
    ELSE Refused("invalid-index")

(* The flips that are no longer in the message are not read. *)
ReadNoise(v) ==
    [config |-> [p |-> IF v.config.p \in 0 .. ProbabilityMax THEN v.config.p ELSE 0,
                 seed |-> IF v.config.seed \in Seeds THEN v.config.seed ELSE 0,
                 mode |-> IF v.config.mode = "manual" THEN "manual" ELSE "bsc",
                 manual |-> v.config.manual \cap DOMAIN ToBits(inUse)],
     draft |-> v.draft,
     snapshot |-> v.snapshot,
     page |-> IF v.page \in Nat THEN v.page ELSE 0]

InvalidProbability(v) == v.config.mode = "bsc" /\ ParseProbability(v.draft) = Never

(* Mutant: a probability that cannot be read leaves the result current. *)
NoiseStaleOnConfig(v) == v.snapshot.revision # revised \/ v.snapshot.config # v.config

NoiseStale(v) ==
    \/ v.snapshot.revision # revised
    \/ InvalidProbability(v) \/ v.snapshot.config # v.config

-----------------------------------------------------------------------------
(* source-entropy                                                          *)

Total(weights) == FoldLeft(+, 0, weights)

(* A probability loses what does not fit in it, here a DrawRange-th. *)
Probability(weights, i) == (weights[i] * DrawRange) \div Total(weights)

Positive(weights) == {i \in DOMAIN weights : weights[i] > 0}

(* The share of a uniform draw, the last of the symbols if it is past all. *)
Picked(weights, uniform) ==
    LET below(i) == {j \in Positive(weights) : j <= i}
        cumulative(i) == MapThenSumSet(LAMBDA j : Probability(weights, j), below(i))
        hit == {i \in Positive(weights) : uniform < cumulative(i)}
    IN  IF hit = {} THEN Max(Positive(weights)) ELSE Min(hit)

DrawSymbol(weights, seed, counter) ==
    IF Total(weights) = 0 THEN Refused("empty-source")
    ELSE Result(Picked(weights, UniformAt(seed, counter)))

DrawSnapshot(s) ==
    /\ s # Never
    /\ Total(s.weights) > 0 /\ s.seed \in Seeds /\ s.index \in Nat
    /\ s.result \in DOMAIN s.weights

ReadEntropy(v) ==
    [weights |-> [i \in DOMAIN v.weights |-> IF v.weights[i] \in 0 .. WeightMax THEN v.weights[i] ELSE 0],
     seed |-> IF v.seed \in Seeds THEN v.seed ELSE 0,
     counter |-> IF v.counter \in Nat THEN v.counter ELSE 0,
     prediction |-> v.prediction,
     lastDraw |-> IF DrawSnapshot(v.lastDraw) THEN v.lastDraw ELSE Never]

DrawStale(v) == v.lastDraw.seed # v.seed \/ v.lastDraw.weights # v.weights

-----------------------------------------------------------------------------
(* ambiguous-code                                                          *)

Symbols == Range(SourceSymbols)
ValidBook(book) == \A s \in Symbols : Len(book[s]) \in 1 .. 6
ValidLetters(letters) == Len(letters) \in 1 .. MaxLetters
EncodeLetters(letters, book) == FlattenSeq([i \in DOMAIN letters |-> book[letters[i]]])

PrefixFree(book) ==
    ValidBook(book) /\ \A s \in Symbols : \A t \in Symbols \ {s} : ~IsPrefix(book[s], book[t])

(* The symbols that may be read at an offset. *)
ReadAt(bits, book, at) ==
    {s \in Symbols : IsPrefix(book[s], SubSeq(bits, at + 1, Len(bits)))}

(* The ways from each offset to the end, counted without listing them; and *)
(* the first of them, in the order of the symbols.                         *)
DecodePaths(bits, book) ==
    LET ways[at \in 0 .. Len(bits)] ==
            IF at = Len(bits) THEN 1
            ELSE MapThenSumSet(LAMBDA s : ways[at + Len(book[s])], ReadAt(bits, book, at))
        from[at \in 0 .. Len(bits)] ==
            IF at = Len(bits) THEN << <<>> >>
            ELSE FlattenSeq([k \in DOMAIN SourceSymbols |->
                    LET s == SourceSymbols[k]
                    IN  IF s \notin ReadAt(bits, book, at) THEN <<>>
                        ELSE LET rest == from[at + Len(book[s])]
                             IN  [i \in DOMAIN rest |-> <<s>> \o rest[i]]])
        readings == SubSeq(from[0], 1, Min({Len(from[0]), ReadingLimit}))
    IN  [count |-> ways[0], readings |-> readings, truncated |-> ways[0] > Len(readings)]

(* DecodeGraph: what can be read from the start and leads to the end. *)
DecodeEdges(bits, book) ==
    LET reachable[at \in 0 .. Len(bits)] ==
            at = 0 \/ \E before \in 0 .. at - 1 : reachable[before] /\
                \E s \in ReadAt(bits, book, before) : before + Len(book[s]) = at
        canFinish[at \in 0 .. Len(bits)] ==
            at = Len(bits) \/ \E s \in ReadAt(bits, book, at) : canFinish[at + Len(book[s])]
    IN  {<<at, s>> \in (0 .. Len(bits) - 1) \X Symbols :
            /\ reachable[at] /\ s \in ReadAt(bits, book, at)
            /\ canFinish[at + Len(book[s])]}

-----------------------------------------------------------------------------
(* secded-inspector                                                        *)

SecdedWord(v) == Flip(EncodeSecded(v.data), v.flips)
Checks == (1 :> {1, 3, 5, 7}) @@ (2 :> {2, 3, 6, 7}) @@ (4 :> {4, 5, 6, 7})
FailedChecks(word) == {weight \in DOMAIN Checks : Parity(word, Checks[weight]) = 1}
Syndrome(word) == MapThenSumSet(LAMBDA weight : weight, FailedChecks(word))

(* inspectSecded: whether it is exact is the simulator's to know. *)
InspectSecded(v) ==
    LET decoded == DecodeSecded(SecdedWord(v))
    IN  [decision |-> decoded.decision, data |-> decoded.data, exact |-> decoded.data = v.data]

(* The row of the table that is marked as current. *)
DecisionRow(word) ==
    IF Syndrome(word) = 0 THEN IF Parity(word, 1 .. 8) = 0 THEN "no-alarm" ELSE "corrected"
    ELSE IF Parity(word, 1 .. 8) = 1 THEN "corrected" ELSE "rejected"

SecdedStatus(v) ==
    LET inspection == InspectSecded(v)
    IN  IF ~inspection.exact /\ inspection.decision # "rejected" THEN "misleading"
        ELSE IF inspection.decision = "rejected"
        THEN IF v.advanced THEN "uncorrectable" ELSE "rejected"
        ELSE inspection.decision

FirstTwo(positions) ==
    {i \in positions : Cardinality({j \in positions : j < i}) < 2}

ReadSecded(v) == [v EXCEPT !.flips = IF v.advanced THEN @ ELSE FirstTwo(@)]

-----------------------------------------------------------------------------
(* repetition-channel                                                      *)

BurstFlips(c) == c.start + 1 .. c.start + c.length
InvalidInterval(bytes, c) ==
    LET length == Width * Len(bytes)
    IN  c.mode = "burst" /\ (c.start > length \/ c.length > length - c.start)

(* The two traces: the same draws, or the same stretch, on bits sent once  *)
(* and on bits sent three times.                                           *)
RepetitionTrace(bytes, c) ==
    LET bits == ToBits(bytes)
        coded == EncodeRepeat3(bits)
        flips(sent) == IF c.mode = "bsc" THEN BscFlips(sent, c.p, c.seed) ELSE BurstFlips(c)
    IN  [original |-> bits, rawReceived |-> Flip(bits, flips(bits)), rawFlips |-> flips(bits),
         coded |-> coded, received |-> Flip(coded, flips(coded)), flips |-> flips(coded),
         decoded |-> DecodeRepeat3(Flip(coded, flips(coded)))]

(* 3pp - 2ppp, in DrawRange ** 3-ths. *)
RepeatErrorProbability(p) == 3 * p * p * DrawRange - 2 * p * p * p

CompareRepetition(bytes, c) ==
    LET t == RepetitionTrace(bytes, c)
    IN  [raw |-> [uses |-> Len(t.original), flips |-> Cardinality(t.rawFlips),
                  errors |-> Differences(t.original, t.rawReceived)],
         repeat |-> [uses |-> Len(t.coded), flips |-> Cardinality(t.flips),
                     errors |-> Differences(t.original, t.decoded)],
         received |-> ToBytes(t.decoded),
         theoretical |-> IF c.mode = "bsc" THEN RepeatErrorProbability(c.p) ELSE Never]

(* TripleWindow: a row of the table that shows a page of the trace. *)
TripleRow(t, i) ==
    [position |-> i, raw |-> t.rawReceived[i], triple |-> SubSeq(t.received, 3 * i - 2, 3 * i),
     outcome |-> IF t.decoded[i] # t.original[i] THEN "failure"
                 ELSE IF \E k \in 3 * i - 2 .. 3 * i : t.received[k] # t.coded[k]
                 THEN "corrected" ELSE "unchanged"]

TripleRows(t, page) == {TripleRow(t, i) : i \in Window(Len(t.original), TriplePage, page)}

ReadRepetition(v) ==
    [config |-> [p |-> IF v.config.p \in 0 .. ProbabilityMax THEN v.config.p ELSE 0,
                 seed |-> IF v.config.seed \in Seeds THEN v.config.seed ELSE 0,
                 mode |-> IF v.config.mode = "burst" THEN "burst" ELSE "bsc",
                 start |-> IF v.config.start \in Nat THEN v.config.start ELSE 0,
                 length |-> IF v.config.length \in Nat THEN v.config.length ELSE 1],
     snapshot |-> v.snapshot,
     page |-> IF v.page \in Nat THEN v.page ELSE 0]

RepetitionStale(v) == v.snapshot.revision # revised \/ v.snapshot.config # v.config

(* What the status says of a result that is current. *)
RepetitionVerdict(result) ==
    IF result.raw.errors = 0 /\ result.repeat.errors = 0 THEN "exact"
    ELSE IF result.repeat.errors < result.raw.errors THEN "improved" ELSE "other"

-----------------------------------------------------------------------------
(* morse-spacing and cable-route                                           *)

MorseRun(v) ==
    LET segments == MorseTimeline(v.example, v.letterGap, v.wordGap)
    IN  [example |-> v.example, letterGap |-> v.letterGap, wordGap |-> v.wordGap,
         segments |-> segments, reading |-> ReadMorse(segments)]

(* isMorseRun reads the segments again. *)
ReadMorseLab(v) ==
    [example |-> IF v.example \in MorseExamples THEN v.example ELSE CHOOSE e \in MorseExamples : TRUE,
     letterGap |-> IF v.letterGap \in 1 .. 7 THEN v.letterGap ELSE 3,
     wordGap |-> IF v.wordGap \in 1 .. 9 THEN v.wordGap ELSE 7,
     run |-> IF v.run = Never THEN Never
             ELSE IF /\ v.run.example \in MorseExamples
                     /\ v.run.letterGap \in 1 .. 7 /\ v.run.wordGap \in 1 .. 9
                     /\ v.run.reading = ReadMorse(v.run.segments)
             THEN v.run ELSE Never]

(* Where each segment is drawn, and how wide. *)
MorseBars(segments) ==
    [i \in DOMAIN segments |->
        [x |-> FoldLeft(LAMBDA sum, s : sum + s.duration, 0, SubSeq(segments, 1, i - 1)),
         width |-> segments[i].duration]]

Terrain == [north |-> <<11, 2, 4>>, middle |-> <<9, 5, 1>>, south |-> <<13, 1, 2>>]
RouteComponents(route) ==
    LET t == Terrain[route] IN <<t[1], 4 * t[2], 2 * t[3]>>
RouteTotal(route) == FoldLeft(+, 0, RouteComponents(route))
Shortfall(v) == Max({0, RouteTotal(v.route) - v.budget})
Margin(v) == Max({0, v.budget - RouteTotal(v.route)})
Revealed(v) == SubSeq(RouteComponents(v.route), 1, v.step)

ReadCable(v) ==
    [route |-> IF v.route \in DOMAIN Terrain THEN v.route ELSE "south",
     budget |-> IF v.budget \in 15 .. 40 THEN v.budget ELSE 28,
     step |-> IF v.step \in 0 .. 3 THEN v.step ELSE 0]

-----------------------------------------------------------------------------
(* The bench                                                               *)

Benches == {"pulse", "noise", "entropy", "code", "secded", "repetition", "morse", "cable"}

(* makeInitialLabState *)
InitialValue(lab) ==
    CASE lab = "pulse" ->
            [duration |-> Min(Durations), tau |-> 1, fraction |-> 2,
             source |-> "alternating", page |-> 0, snapshot |-> Never]
      [] lab = "noise" ->
            [config |-> [p |-> 1, seed |-> 0, mode |-> "bsc", manual |-> {}],
             draft |-> 2, snapshot |-> Never, page |-> 0]
      [] lab = "entropy" ->
            [weights |-> [i \in DOMAIN SourceSymbols |-> 1], seed |-> 0, counter |-> 0,
             prediction |-> Never, lastDraw |-> Never]
      [] lab = "code" -> [book |-> FirstBook, letters |-> <<SourceSymbols[1]>>, run |-> Never]
      [] lab = "secded" -> [data |-> <<1, 0, 1, 1>>, flips |-> {}, advanced |-> FALSE]
      [] lab = "repetition" ->
            [config |-> [p |-> 1, seed |-> 0, mode |-> "bsc", start |-> 0, length |-> 1],
             snapshot |-> Never, page |-> 0]
      [] lab = "morse" ->
            [example |-> CHOOSE e \in MorseExamples : TRUE, letterGap |-> 3, wordGap |-> 7,
             run |-> Never]
      [] lab = "cable" -> [route |-> "south", budget |-> 28, step |-> 0]

(* What a lab makes of the value that is kept for it. *)
Read(v) ==
    CASE bench = "pulse" -> ReadPulse(v)
      [] bench = "noise" -> ReadNoise(v)
      [] bench = "entropy" -> ReadEntropy(v)
      [] bench = "code" -> v
      [] bench = "secded" -> ReadSecded(v)
      [] bench = "repetition" -> ReadRepetition(v)
      [] bench = "morse" -> ReadMorseLab(v)
      [] bench = "cable" -> ReadCable(v)

LabShown == Read(value)

InitBench ==
    /\ bench \in Benches /\ value = InitialValue(bench)
    /\ inUse \in Messages /\ revised = 0 /\ presses = 0

Press == presses < MaxTurns /\ presses' = presses + 1 /\ UNCHANGED bench

Store(v) == Press /\ value' = v /\ value' # value /\ UNCHANGED <<inUse, revised>>

(* The message is changed, here or in another lab. *)
Revise(m) ==
    /\ bench \in {"pulse", "noise", "repetition"}
    /\ Press /\ m # inUse /\ inUse' = m /\ revised' = revised + 1 /\ UNCHANGED value

ResetLab == Store(InitialValue(bench))

Recorded3(result, config) ==
    [revision |-> revised, source |-> inUse, config |-> config, result |-> result]

UsePulse ==
    /\ bench = "pulse"
    /\ LET v == LabShown
           length == Len(PulseBits(v))
       IN  \/ \E s \in {"alternating", "message"} : Store([v EXCEPT !.source = s, !.page = 0])
           \/ \E page \in Neighbours(length, PageBits, v.page) : Store([v EXCEPT !.page = page])
           \/ \E d \in Durations : Store([v EXCEPT !.duration = d])
           \/ \E tau \in DOMAIN Kept : Store([v EXCEPT !.tau = tau])
           \/ \E f \in 1 .. 3 : Store([v EXCEPT !.fraction = f])

RunPulse ==
    /\ bench = "pulse"
    /\ LET c == PulseConfig(LabShown)
       IN  Store([LabShown EXCEPT !.page = c.page,
                     !.snapshot = Recorded3(SimulatePulses(PulseWindow(LabShown), c), c)])

(* The probability follows what is typed while it can be read. *)
TypeProbability(draft) ==
    /\ bench = "noise" /\ LabShown.config.mode = "bsc"
    /\ LET p == ParseProbability(draft)
       IN  Store([LabShown EXCEPT !.draft = draft, !.config.p = IF p = Never THEN @ ELSE p])

SetNoise ==
    /\ bench = "noise"
    /\ LET v == LabShown
       IN  \/ \E mode \in {"bsc", "manual"} : Store([v EXCEPT !.config.mode = mode])
           \/ v.config.mode = "bsc" /\ Store([v EXCEPT !.config.seed = NextSeed(@)])
           \/ \E page \in Neighbours(Width * Len(inUse), PageBits, v.page) :
                 /\ v.config.mode = "manual" \/ v.snapshot # Never
                 /\ Store([v EXCEPT !.page = page])

ToggleManual(position) ==
    /\ bench = "noise" /\ LabShown.config.mode = "manual"
    /\ position \in Window(Width * Len(inUse), PageBits, LabShown.page)
    /\ Store([LabShown EXCEPT !.config.manual =
                 IF position \in @ THEN @ \ {position} ELSE @ \cup {position}])

RunNoise ==
    /\ bench = "noise" /\ ~InvalidProbability(LabShown)
    /\ LET transmitted == Transmitted(inUse, LabShown.config)
       IN  /\ transmitted.ok
           /\ Store([LabShown EXCEPT !.snapshot = Recorded3(transmitted.value, LabShown.config)])

SetSource ==
    /\ bench = "entropy"
    /\ LET v == LabShown
       IN  \/ \E i \in DOMAIN v.weights, w \in 0 .. WeightMax : Store([v EXCEPT !.weights[i] = w])
           \/ \E seed \in {0, 1} : Store([v EXCEPT !.seed = seed, !.counter = 0])
           \/ \E i \in DOMAIN v.weights : Store([v EXCEPT !.prediction = i])

Draw ==
    /\ bench = "entropy"
    /\ LET v == LabShown
           drawn == DrawSymbol(v.weights, v.seed, v.counter)
       IN  /\ drawn.ok
           /\ Store([v EXCEPT !.counter = @ + 1,
                        !.lastDraw = [weights |-> v.weights, seed |-> v.seed, index |-> v.counter,
                                      result |-> drawn.value, prediction |-> v.prediction]])

WriteCode ==
    /\ bench = "code"
    /\ LET v == LabShown
       IN  \/ \E s \in Symbols, code \in CodeWords : Store([v EXCEPT !.book[s] = code])
           \/ Store([v EXCEPT !.book = FirstBook])
           \/ \E s \in Symbols :
                 Len(v.letters) < MaxLetters /\ Store([v EXCEPT !.letters = Append(@, s)])
           \/ v.letters # <<>> /\ Store([v EXCEPT !.letters = Front(@)])
           \/ v.letters # <<>> /\ Store([v EXCEPT !.letters = <<>>])

SendLetters ==
    /\ bench = "code" /\ ValidBook(LabShown.book) /\ ValidLetters(LabShown.letters)
    /\ LET bits == EncodeLetters(LabShown.letters, LabShown.book)
       IN  Store([LabShown EXCEPT !.run = [book |-> LabShown.book, letters |-> LabShown.letters,
                     bits |-> bits, decoding |-> DecodePaths(bits, LabShown.book)]])

ToggleData(i) ==
    bench = "secded" /\ Store([LabShown EXCEPT !.data[i] = 1 - @])

(* Mutant: the limit is not looked at. *)
ToggleAnyFlip(position) ==
    /\ bench = "secded"
    /\ Store([LabShown EXCEPT !.flips =
                 IF position \in @ THEN @ \ {position} ELSE @ \cup {position}])

ToggleFlip(position) ==
    /\ bench = "secded"
    /\ position \in LabShown.flips \/ LabShown.advanced \/ Cardinality(LabShown.flips) < 2
    /\ Store([LabShown EXCEPT !.flips =
                 IF position \in @ THEN @ \ {position} ELSE @ \cup {position}])

SetAdvanced(on) ==
    /\ bench = "secded"
    /\ Store([LabShown EXCEPT !.advanced = on, !.flips = IF on THEN @ ELSE FirstTwo(@)])

SetRepetition ==
    /\ bench = "repetition"
    /\ LET v == LabShown
       IN  \/ \E mode \in {"bsc", "burst"} : Store([v EXCEPT !.config.mode = mode])
           \/ \E p \in {0, ProbabilityMax} :
                 v.config.mode = "bsc" /\ Store([v EXCEPT !.config.p = p])
           \/ v.config.mode = "bsc" /\ Store([v EXCEPT !.config.seed = NextSeed(@)])
           \/ \E start \in {0, Width - 1} :
                 v.config.mode = "burst" /\ Store([v EXCEPT !.config.start = start])
           \/ \E length \in {0, 2, Width + 1} :
                 v.config.mode = "burst" /\ Store([v EXCEPT !.config.length = length])
           \/ /\ v.snapshot # Never
              /\ \E page \in Neighbours(Width * Len(v.snapshot.source), TriplePage, v.page) :
                    Store([v EXCEPT !.page = page])

RunRepetition ==
    /\ bench = "repetition" /\ ~InvalidInterval(inUse, LabShown.config)
    /\ Store([LabShown EXCEPT !.page = 0,
                 !.snapshot = Recorded3(CompareRepetition(inUse, LabShown.config), LabShown.config)])

SetMorse ==
    /\ bench = "morse"
    /\ LET v == LabShown
       IN  \/ \E example \in MorseExamples : Store([v EXCEPT !.example = example])
           \/ \E gap \in 1 .. 7 : Store([v EXCEPT !.letterGap = gap])
           \/ \E gap \in {1, 4, 5, 9} : Store([v EXCEPT !.wordGap = gap])
           \/ Store([v EXCEPT !.letterGap = 3, !.wordGap = 7])

ReadSignal == bench = "morse" /\ Store([LabShown EXCEPT !.run = MorseRun(LabShown)])

SetCable ==
    /\ bench = "cable"
    /\ LET v == LabShown
       IN  \/ \E route \in DOMAIN Terrain : Store([v EXCEPT !.route = route])
           \/ \E budget \in {15, 21, 31, 40} : Store([v EXCEPT !.budget = budget])
           \/ v.step < 3 /\ Store([v EXCEPT !.step = @ + 1])

BenchNext ==
    \/ \E m \in Messages : Revise(m)
    \/ ResetLab
    \/ UsePulse \/ RunPulse
    \/ \E draft \in TypedDrafts : TypeProbability(draft)
    \/ SetNoise \/ RunNoise
    \/ \E position \in 1 .. PageBits : ToggleManual(position)
    \/ SetSource \/ Draw
    \/ WriteCode \/ SendLetters
    \/ \E i \in 1 .. 4 : ToggleData(i)
    \/ \E position \in 1 .. 8 : ToggleFlip(position)
    \/ \E on \in BOOLEAN : SetAdvanced(on)
    \/ SetRepetition \/ RunRepetition
    \/ SetMorse \/ ReadSignal
    \/ SetCable

-----------------------------------------------------------------------------
(* What is said of a result may be believed                                *)

(* A result that carries no stale mark is what the settings on the screen  *)
(* and the message in use yield, however they came to be what they are.    *)
PulseTrue(v) ==
    LET s == v.snapshot
        sent == [i \in DOMAIN s.result.samples |-> s.result.samples[i].sent]
        path == InputPath(s.result.points)
        keep == Kept[s.config.tau]
        settles == (s.config.fraction * s.config.duration * TicksPerUnit) \div 4
    IN  /\ s.revision = revised /\ s.config = PulseConfig(v) =>
              /\ s.result = SimulatePulses(PulseWindow(v), PulseConfig(v))
              /\ sent = PulseWindow(v)
        /\ s.config.tau = 0 \/ 3 * keep[1] ^ settles < keep[2] ^ settles => s.result.errors = 0
        /\ \A i \in 2 .. Len(path) : path[i][1] = path[i - 1][1] \/ path[i][2] = path[i - 1][2]

NoiseTrue(v) ==
    LET s == v.snapshot
        bits == ToBits(s.source)
        received == ToBits(s.result.received)
    IN  /\ ~NoiseStale(v) => Transmitted(inUse, v.config) = Result(s.result)
        /\ ~NoiseStale(v) /\ v.config.mode = "bsc" => ParseProbability(v.draft) = v.config.p
        /\ s.result.flipped = {i \in DOMAIN bits : bits[i] # received[i]}

EntropyTrue(v) ==
    /\ ~DrawStale(v) => DrawSymbol(v.weights, v.seed, v.lastDraw.index) = Result(v.lastDraw.result)
    /\ v.lastDraw.weights[v.lastDraw.result] > 0

(* A symbol is drawn as often as its weight asks for, to within what       *)
(* rounding takes from each of them.                                       *)
DrawsProportional(weights) ==
    \A i \in DOMAIN weights :
        LET often == Cardinality({u \in Seeds : Picked(weights, u) = i})
            exact == weights[i] * DrawRange
        IN  Total(weights) > 0 =>
                /\ often * Total(weights) > exact - Total(weights)
                /\ often * Total(weights) < exact + Len(weights) * Total(weights)
                /\ weights[i] = 0 => often = 0

(* All readings are counted, whatever the book; a book without prefixes has *)
(* one, what was sent; and the graph shows the steps of the readings.       *)
CodeTrue(run) ==
    LET all == {r \in UNION {[1 .. n -> Symbols] : n \in 0 .. Len(run.bits)} :
                   EncodeLetters(r, run.book) = run.bits}
        listed == Range(run.decoding.readings)
    IN  /\ run.decoding.count = Cardinality(all) /\ listed \subseteq all
        /\ run.decoding.truncated \/ listed = all
        /\ run.letters \in all /\ PrefixFree(run.book) => all = {run.letters}
        /\ DecodeEdges(run.bits, run.book) =
              {<<Len(EncodeLetters(SubSeq(r, 1, i - 1), run.book)), r[i]>> :
                  <<r, i>> \in {p \in all \X (1 .. Len(run.bits)) : p[2] \in DOMAIN p[1]}}

(* With two flips at most the code never misleads, and only the advanced   *)
(* inspector allows more. The table marks what the decoder did.            *)
SecdedTrue(v) ==
    /\ ~v.advanced => SecdedStatus(v) # "misleading"
    /\ SecdedStatus(v) \in {"no-alarm", "corrected"} => InspectSecded(v).data = v.data
    /\ DecisionRow(SecdedWord(v)) = InspectSecded(v).decision

(* The table below a result is built again from what the result was run    *)
(* on; its rows, page by page, are each bit once and tell the same errors. *)
RepetitionTrue(v) ==
    LET s == v.snapshot
        t == RepetitionTrace(s.source, s.config)
        pages == 0 .. PageCount(Len(t.original), TriplePage) - 1
        rows == UNION {TripleRows(t, page) : page \in pages}
    IN  /\ ~RepetitionStale(v) => s.result = CompareRepetition(inUse, v.config)
        /\ {row.position : row \in rows} = DOMAIN t.original
        /\ Cardinality({row \in rows : row.outcome = "failure"}) = s.result.repeat.errors
        /\ s.config.mode = "burst" =>
              /\ s.result.raw.errors = s.config.length
              /\ s.config.length <= 1 => RepetitionVerdict(s.result) \in {"exact", "improved"}

(* A draw by its index is the draw of the sequence, also once the state    *)
(* wraps around; the chance of two or three flips in three.                *)
IndexedDraws(seed, count) ==
    \A i \in 1 .. count : UniformAt(seed, i - 1) = Uniforms(seed, count)[i]

MajorityHolds(p) ==
    RepeatErrorProbability(p) =
        MapThenSumSet(LAMBDA S : p ^ Cardinality(S) * (DrawRange - p) ^ (3 - Cardinality(S)),
                      {S \in SUBSET (1 .. 3) : Cardinality(S) >= 2})

MorseTrue(run) ==
    LET bars == MorseBars(run.segments)
    IN  /\ run.letterGap \in 2 .. 4 /\ run.wordGap >= 5 => run.reading = Result(run.example)
        /\ \A i \in 2 .. Len(bars) : bars[i].x = bars[i - 1].x + bars[i - 1].width

CableTrue(v) ==
    /\ RouteTotal(v.route) + Margin(v) = v.budget + Shortfall(v)
    /\ Margin(v) = 0 \/ Shortfall(v) = 0
    /\ FoldLeft(+, 0, Revealed(v)) <= RouteTotal(v.route)

(* What a lab stores it reads back as it was: all but the flips of a       *)
(* message that has grown shorter.                                         *)
StoredIsRead ==
    IF bench = "noise"
    THEN LabShown = [value EXCEPT !.config.manual = @ \cap DOMAIN ToBits(inUse)]
    ELSE LabShown = value

(* What the lab on the bench shows is so (StoredIsRead and the above), and *)
(* a run the lab offers is one its model does not refuse.                  *)
BenchSpeaksTrue ==
    /\ StoredIsRead
    /\ CASE bench = "pulse" -> LabShown.snapshot # Never => PulseTrue(LabShown)
         [] bench = "noise" ->
                /\ LabShown.snapshot # Never => NoiseTrue(LabShown)
                /\ Transmitted(inUse, LabShown.config).ok
         [] bench = "entropy" -> LabShown.lastDraw # Never => EntropyTrue(LabShown)
         [] bench = "code" -> LabShown.run # Never => CodeTrue(LabShown.run)
         [] bench = "secded" -> SecdedTrue(LabShown)
         [] bench = "repetition" -> LabShown.snapshot # Never => RepetitionTrue(LabShown)
         [] bench = "morse" -> LabShown.run # Never => MorseTrue(LabShown.run)
         [] bench = "cable" -> CableTrue(LabShown)

=============================================================================
