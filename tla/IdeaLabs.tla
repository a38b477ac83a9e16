------------------------------ MODULE IdeaLabs ------------------------------
(***************************************************************************)
(* The labs of the story about the history of AI                           *)
(* (apps/web/src/stories/labs), each as the learner uses it: the value the *)
(* session keeps for the lab, how the lab reads it against what its author *)
(* wrote, the controls that write it, and what the lab shows of it.        *)
(*                                                                         *)
(* One lab at a time is open. What an author configures is the record      *)
(* Authored. A retention is a number of tenths, a learning rate of         *)
(* quarters, a separator's normal and offset of fifths; positions count    *)
(* from 1.                                                                 *)
(***************************************************************************)
EXTENDS Integers, Sequences, FiniteSets
LOCAL INSTANCE FiniteSetsExt
LOCAL INSTANCE SequencesExt
LOCAL INSTANCE Functions

CONSTANTS
    Authored,       \* what the definitions of the labs configure
    RuleMax,        \* MAX_RULE_VALUE
    MaxUses         \* bound: what is done in a lab

ASSUME IdeaAssumption == {RuleMax, MaxUses} \subseteq Nat

VARIABLES
    idea,       \* the lab that is open
    answer,     \* what the session keeps for it
    tongue,     \* the language of the page
    uses

ideaVars == <<idea, answer, tongue, uses>>

Clamp(n, lo, hi) == Min({Max({n, lo}), Max({lo, hi})})

(* Round half up a/b, b > 0. *)
Nearest(a, b) == (2 * a + b) \div (2 * b)

IdsOf(seq) == {seq[i].id : i \in DOMAIN seq}
ById(seq, id) == seq[CHOOSE i \in DOMAIN seq : seq[i].id = id]

-----------------------------------------------------------------------------
(* agent-trace: what was permitted, and how far the agent goes.            *)

AskedOf(steps) == {steps[i].permission : i \in DOMAIN steps} \ {""}

ReadGranted(v) == v.granted \cap AskedOf(Authored.steps)

(* Mutant: an approval is a step like the others. *)
TraceThroughApproval(steps, granted) ==
    LET stops == {i \in DOMAIN steps : steps[i].permission \notin granted \cup {""}}
        last == IF stops = {} THEN Len(steps) ELSE Min(stops)
    IN  [i \in 1 .. last |-> IF i \in stops THEN "blocked" ELSE "complete"]

AgentTrace(steps, granted) ==
    LET approvals == {i \in DOMAIN steps : steps[i].kind = "approval"}
        stops == {i \in DOMAIN steps : steps[i].permission \notin granted \cup {""}}
        last == IF stops \cup approvals = {} THEN Len(steps) ELSE Min(stops \cup approvals)
    IN  [i \in 1 .. last |->
            IF i \in approvals THEN "awaiting-human"
            ELSE IF i \in stops THEN "blocked" ELSE "complete"]

-----------------------------------------------------------------------------
(* agi-definitions: two definitions side by side, axis by axis.            *)

(* A side whose definition is unknown, or already on the left, falls back. *)
ReadSelected(v) ==
    LET all == Authored.definitions
        ids == v.selectedIds
        firstOther(left) == all[Min({i \in DOMAIN all : all[i].id # left.id})]
        left == IF Len(ids) >= 1 /\ ids[1] \in IdsOf(all) THEN ById(all, ids[1]) ELSE all[1]
        right == IF Len(ids) >= 2 /\ ids[2] \in IdsOf(all) \ {left.id}
                 THEN ById(all, ids[2]) ELSE firstOther(left)
    IN  <<left, right>>

CompareDefinitions(left, right) ==
    [axis \in DOMAIN left.axes |-> left.axes[axis] - right.axes[axis]]

-----------------------------------------------------------------------------
(* attention: a row of the weights of an example.                          *)

ReadExample(v) ==
    LET all == Authored.examples
    IN  IF v.exampleId \in IdsOf(all) THEN ById(all, v.exampleId) ELSE all[1]

(* The index was written in the other language's tokens, maybe. *)
ReadTokenIndex(v) == IF v.tokenIndex <= ReadExample(v).tokens[tongue] THEN v.tokenIndex ELSE 1

WeightsForToken(example, index) == example.weights[tongue][index]

-----------------------------------------------------------------------------
(* convolution: a kernel that is moved over an image.                      *)

Origins(pixels, kernel) ==
    [rows |-> Len(pixels) - Len(kernel) + 1, columns |-> Len(pixels[1]) - Len(kernel[1]) + 1]

ConvolveAt(pixels, kernel, row, column) ==
    FoldLeft(LAMBDA total, r : FoldLeft(LAMBDA t, c :
                    t + pixels[row + r - 1][column + c - 1] * kernel[r][c],
                total, [c \in DOMAIN kernel[1] |-> c]),
             0, [r \in DOMAIN kernel |-> r])

ConvolveImage(pixels, kernel) ==
    [row \in 1 .. Origins(pixels, kernel).rows |->
        [column \in 1 .. Origins(pixels, kernel).columns |->
            ConvolveAt(pixels, kernel, row, column)]]

ReadOrigin(v) ==
    LET bounds == Origins(Authored.pixels, Authored.kernel)
    IN  [row |-> Clamp(v.row, 1, bounds.rows), column |-> Clamp(v.column, 1, bounds.columns),
         parallel |-> v.parallel]

(* The cells that are marked as under the kernel. *)
InKernel(o) ==
    {rc \in (DOMAIN Authored.pixels) \X (DOMAIN Authored.pixels[1]) :
        /\ rc[1] >= o.row /\ rc[1] < o.row + Len(Authored.kernel)
        /\ rc[2] >= o.column /\ rc[2] < o.column + Len(Authored.kernel[1])}

-----------------------------------------------------------------------------
(* embodied-calculation: an addition carried out bead by bead.             *)

PlaceDigit(n, place) == (n \div 10 ^ place) % 10

DigitCount(n) == Max({1} \cup {k + 1 : k \in {j \in 1 .. 6 : n >= 10 ^ j}})

(* Mutant: a column does not get what the one below carries. *)
AdditionNoCarry(a, b) ==
    [index \in 1 .. Max({DigitCount(a), DigitCount(b)}) |->
        LET sum == PlaceDigit(a, index - 1) + PlaceDigit(b, index - 1)
        IN  [value |-> sum, carry |-> sum >= 10]]

AbacusAddition(a, b) ==
    FoldLeft(LAMBDA done, place :
                LET carryIn == IF done # <<>> /\ Last(done).carry THEN 1 ELSE 0
                    sum == PlaceDigit(a, place) + PlaceDigit(b, place) + carryIn
                IN  Append(done, [value |-> sum, carry |-> sum >= 10]),
             <<>>, [i \in 1 .. Max({DigitCount(a), DigitCount(b)}) |-> i - 1])

ReadStep(v) == Clamp(v.step, 0, Authored.right)

Rods == Clamp(Authored.rods, 1, 12)

-----------------------------------------------------------------------------
(* executable-rules: cards applied in the order the learner puts them in.  *)

(* The cards that are named, then those that are not. *)
OrderedCards(v) ==
    LET all == Authored.cards
        named == SelectSeq(v.cardIds, LAMBDA id : id \in IdsOf(all))
        rest == SelectSeq(all, LAMBDA card : \A i \in DOMAIN named : named[i] # card.id)
    IN  [i \in DOMAIN named |-> ById(all, named[i])] \o rest

RuleValue(n) == Clamp(n, 0, RuleMax)

ExecuteRuleCards(start, cards) ==
    FoldLeft(LAMBDA trace, card :
                LET operand == RuleValue(card.operand)
                IN  Append(trace, RuleValue(IF card.operation = "multiply"
                                            THEN Last(trace) * operand
                                            ELSE Last(trace) + operand)),
             <<RuleValue(start)>>, cards)

-----------------------------------------------------------------------------
(* external-memory: what is left of a message after some generations.      *)

ReadGeneration(v) == Clamp(v.generation, 0, Authored.generations)

ProjectMemory(generation, marks, retention) ==
    Nearest(marks * Clamp(retention, 0, 10) ^ generation, 10 ^ generation)

-----------------------------------------------------------------------------
(* gradient-descent: one step at a time down a squared distance.           *)

LossAt(x) == (x - Authored.targetX) * (x - Authored.targetX)

GradientStep(x, rate) == Nearest(4 * x - rate * 2 * (x - Authored.targetX), 4)

ReadRate(v) == IF v.rate \in Range(Authored.rates) THEN v.rate ELSE Authored.rates[1]

(* At first no point of the timeline was chosen. *)
ReadTimeline(v) == Min({Authored.timeline, IF "timeline" \in DOMAIN v THEN v.timeline ELSE 1})

-----------------------------------------------------------------------------
(* judgment-criteria: the findings of the criteria that are in view.       *)

ReadEnabled(v) == v.enabledIds

EvaluateTranscript(criteria, enabledIds) ==
    SelectSeq(criteria, LAMBDA c : c \in Range(enabledIds))

-----------------------------------------------------------------------------
(* knowledge-bottleneck: the rules below the one that changes.             *)

ReadRuleId(v) == IF v.changed \in IdsOf(Authored.nodes) THEN v.changed ELSE Authored.changed

ChildrenOf(nodes, id) ==
    LET below == SelectSeq(nodes, LAMBDA n : n.parent = id)
    IN  [i \in DOMAIN below |-> below[i].id]

(* A visit meets a rule it is visiting. *)
HasCycle(nodes) ==
    LET Meets[path \in Seq(IdsOf(nodes))] ==
            \E child \in Range(ChildrenOf(nodes, Last(path))) :
                child \in Range(path) \/ Meets[Append(path, child)]
    IN  \E id \in IdsOf(nodes) : Meets[<<id>>]

ValidRuleGraph(nodes) ==
    /\ Cardinality(IdsOf(nodes)) = Len(nodes)
    /\ \A i \in DOMAIN nodes : nodes[i].parent \in IdsOf(nodes) \cup {""}
    /\ ~HasCycle(nodes)

DescendantIds(nodes, id) ==
    LET visit(s, i) ==
            IF i > Len(s.pending) THEN s
            ELSE LET next == s.pending[i]
                 IN  IF next \in s.seen THEN s
                     ELSE [pending |-> s.pending \o ChildrenOf(nodes, next),
                           found |-> Append(s.found, next), seen |-> s.seen \cup {next}]
    IN  FoldLeft(visit, [pending |-> ChildrenOf(nodes, id), found |-> <<>>, seen |-> {id}],
                 [i \in DOMAIN nodes |-> i]).found

-----------------------------------------------------------------------------
(* linear-separator: a line between two kinds of points.                   *)

XorPoints == <<[x |-> 0, y |-> 0, label |-> -1], [x |-> 0, y |-> 1, label |-> 1],
               [x |-> 1, y |-> 0, label |-> 1], [x |-> 1, y |-> 1, label |-> -1]>>

PointsOf(v) == IF v.xor THEN XorPoints ELSE Authored.points

Classify(p, normal, offset) == IF p.x * normal[1] + p.y * normal[2] + offset >= 0 THEN 1 ELSE -1

Misclassified(v) ==
    Cardinality({i \in DOMAIN PointsOf(v) :
        Classify(PointsOf(v)[i], v.normal, v.offset) # PointsOf(v)[i].label})

(* The ends of the line that is drawn, in twenty-fifths. *)
BoundaryPoints(normal, offset) ==
    {<<-offset * normal[1] - side * 15 * normal[2], -offset * normal[2] + side * 15 * normal[1]>> :
        side \in {-1, 1}}

-----------------------------------------------------------------------------
(* What the session starts a lab with, and what the controls write.        *)

IdeaInitial(lab) ==
    CASE lab = "agent" -> [granted |-> {}]
      [] lab = "agi" -> [selectedIds |-> <<Authored.definitions[1].id, Authored.definitions[2].id>>]
      [] lab = "attention" -> [exampleId |-> Authored.examples[1].id, tokenIndex |-> 1]
      [] lab = "convolution" -> [row |-> 1, column |-> 1, parallel |-> FALSE]
      [] lab = "abacus" -> [step |-> 0, representation |-> "abacus"]
      [] lab = "rules" -> [cardIds |-> [i \in DOMAIN Authored.cards |-> Authored.cards[i].id]]
      [] lab = "memory" -> [generation |-> 0]
      [] lab = "gradient" -> [x |-> Authored.startX, rate |-> Authored.rates[1], steps |-> 0]
      [] lab = "judgment" -> [enabledIds |-> <<>>]
      [] lab = "knowledge" -> [changed |-> Authored.changed]
      [] lab = "separator" -> [normal |-> <<5, 0>>, offset |-> 0, xor |-> FALSE]

IdeaKinds == {"agent", "agi", "attention", "convolution", "abacus", "rules", "memory",
              "gradient", "judgment", "knowledge", "separator"}

InitIdea ==
    /\ idea \in IdeaKinds /\ answer = IdeaInitial(idea)
    /\ tongue = "en" /\ uses = 0

Keep(next) ==
    /\ uses < MaxUses /\ uses' = uses + 1
    /\ answer' = next /\ UNCHANGED <<idea, tongue>>

ResetIdea == Keep(IdeaInitial(idea))

SpeakOther ==
    /\ uses < MaxUses /\ uses' = uses + 1
    /\ tongue' = (IF tongue = "en" THEN "vi" ELSE "en")
    /\ UNCHANGED <<idea, answer>>

TogglePermission ==
    /\ idea = "agent"
    /\ \E p \in AskedOf(Authored.steps) :
            LET granted == ReadGranted(answer)
            IN  Keep([granted |-> IF p \in granted THEN granted \ {p} ELSE granted \cup {p}])

(* The other side is written as it is shown. *)
SelectDefinition ==
    /\ idea = "agi"
    /\ \E id \in IdsOf(Authored.definitions), side \in 1 .. 2 :
            LET shown == ReadSelected(answer)
            IN  Keep([selectedIds |-> IF side = 1 THEN <<id, shown[2].id>> ELSE <<shown[1].id, id>>])

SelectExample ==
    /\ idea = "attention"
    /\ \E id \in IdsOf(Authored.examples) : Keep([exampleId |-> id, tokenIndex |-> 1])

SelectToken ==
    /\ idea = "attention"
    /\ \E index \in 1 .. ReadExample(answer).tokens[tongue] :
            Keep([exampleId |-> ReadExample(answer).id, tokenIndex |-> index])

(* By a button, which an edge disables, or by an arrow key, which it does not. *)
MoveKernel ==
    /\ idea = "convolution"
    /\ LET o == ReadOrigin(answer)
           bounds == Origins(Authored.pixels, Authored.kernel)
       IN  \E d \in {<<-1, 0>>, <<1, 0>>, <<0, -1>>, <<0, 1>>} :
            Keep([row |-> Clamp(o.row + d[1], 1, bounds.rows),
                  column |-> Clamp(o.column + d[2], 1, bounds.columns), parallel |-> o.parallel])

ToggleParallel ==
    /\ idea = "convolution"
    /\ Keep([ReadOrigin(answer) EXCEPT !.parallel = ~@])

SetStep ==
    /\ idea = "abacus"
    /\ \E d \in {-1, 1} :
        /\ ReadStep(answer) + d \in 0 .. Authored.right
        /\ Keep([answer EXCEPT !.step = ReadStep(answer) + d])

SwitchRepresentation ==
    /\ idea = "abacus"
    /\ Keep([step |-> ReadStep(answer),
             representation |-> IF answer.representation = "gears" THEN "abacus" ELSE "gears"])

(* A card changes places with its neighbour. *)
ReorderCards ==
    /\ idea = "rules"
    /\ LET cards == OrderedCards(answer)
       IN  \E from \in DOMAIN cards, d \in {-1, 1} :
            /\ from + d \in DOMAIN cards
            /\ Keep([cardIds |-> [i \in DOMAIN cards |->
                    InsertAt(RemoveAt(cards, from), from + d, cards[from])[i].id]])

SetGeneration ==
    /\ idea = "memory"
    /\ \E g \in 0 .. Authored.generations : Keep([generation |-> g])

GradientOf(x, rate, steps, at) == [x |-> x, rate |-> rate, steps |-> steps, timeline |-> at]

TakeStep ==
    /\ idea = "gradient"
    /\ Keep(GradientOf(GradientStep(answer.x, ReadRate(answer)), ReadRate(answer),
                       answer.steps + 1, ReadTimeline(answer)))

SetRate ==
    /\ idea = "gradient"
    /\ \E rate \in Range(Authored.rates) :
            Keep(GradientOf(answer.x, rate, answer.steps, ReadTimeline(answer)))

SelectYear ==
    /\ idea = "gradient"
    /\ \E at \in 1 .. Authored.timeline :
            Keep(GradientOf(answer.x, ReadRate(answer), answer.steps, at))

ToggleCriterion ==
    /\ idea = "judgment"
    /\ \E c \in Range(Authored.criteria) :
            LET enabled == ReadEnabled(answer)
            IN  Keep([enabledIds |-> IF c \in Range(enabled)
                                     THEN SelectSeq(enabled, LAMBDA e : e # c)
                                     ELSE Append(enabled, c)])

ChangeRule ==
    /\ idea = "knowledge"
    /\ \E id \in IdsOf(Authored.nodes) : Keep([changed |-> id])

TurnLine ==
    /\ idea = "separator"
    /\ \/ \E n \in Authored.normals : Keep([answer EXCEPT !.normal = n])
       \/ \E o \in Authored.offsets : Keep([answer EXCEPT !.offset = o])
       \/ Keep([answer EXCEPT !.xor = ~@])

IdeaNext ==
    \/ ResetIdea \/ SpeakOther
    \/ TogglePermission \/ SelectDefinition \/ SelectExample \/ SelectToken
    \/ MoveKernel \/ ToggleParallel \/ SetStep \/ SwitchRepresentation
    \/ ReorderCards \/ SetGeneration \/ TakeStep \/ SetRate \/ SelectYear
    \/ ToggleCriterion \/ ChangeRule \/ TurnLine

-----------------------------------------------------------------------------
(* What each lab says of what it shows.                                    *)

(* Only the last step that is shown may not be complete, nothing is done   *)
(* without its permission, and what awaits a human is not done.            *)
TraceIsPermitted ==
    LET trace == AgentTrace(Authored.steps, ReadGranted(answer))
    IN  \A i \in DOMAIN trace :
            /\ i < Len(trace) => trace[i] = "complete"
            /\ trace[i] = "complete" =>
                /\ Authored.steps[i].permission \in answer.granted \cup {""}
                /\ Authored.steps[i].kind # "approval"

TwoDefinitions ==
    LET shown == ReadSelected(answer)
    IN  /\ shown[1].id # shown[2].id
        /\ \A axis \in DOMAIN shown[1].axes :
            CompareDefinitions(shown[1], shown[2])[axis] =
                -CompareDefinitions(shown[2], shown[1])[axis]

(* In either language the token that is pressed is one that is shown. *)
TokenIsThere ==
    LET example == ReadExample(answer)
    IN  /\ ReadTokenIndex(answer) \in 1 .. example.tokens[tongue]
        /\ Len(WeightsForToken(example, ReadTokenIndex(answer))) = example.tokens[tongue]

(* The number over the window is the cell of the feature map beside it.    *)
WindowIsItsCell ==
    LET o == ReadOrigin(answer)
    IN  /\ Cardinality(InKernel(o)) = Len(Authored.kernel) * Len(Authored.kernel[1])
        /\ ConvolveAt(Authored.pixels, Authored.kernel, o.row, o.column) =
                ConvolveImage(Authored.pixels, Authored.kernel)[o.row][o.column]

(* The columns of the working and the rods tell the same sum. *)
ColumnsAddUp ==
    LET step == ReadStep(answer)
        output == Authored.left + step
        working == AbacusAddition(Authored.left, step)
    IN  /\ \A i \in DOMAIN working : working[i].value % 10 = PlaceDigit(output, i - 1)
        /\ (IF Last(working).carry THEN 1 ELSE 0) = output \div 10 ^ Len(working)
        /\ DigitCount(output) <= Rods

(* Every card is applied once, the values stay in range, and two cards of  *)
(* the same operation in a row could change places.                        *)
RulesKeepTheirCards ==
    LET cards == OrderedCards(answer)
        trace == ExecuteRuleCards(Authored.input, cards)
    IN  /\ Len(cards) = Len(Authored.cards) /\ Range(cards) = Range(Authored.cards)
        /\ Len(trace) = Len(cards) + 1 /\ Range(trace) \subseteq 0 .. RuleMax
        /\ \A i \in 1 .. Len(cards) - 1 :
            cards[i].operation = cards[i + 1].operation =>
                Last(trace) = Last(ExecuteRuleCards(Authored.input,
                    [cards EXCEPT ![i] = cards[i + 1], ![i + 1] = cards[i]]))

(* What is lost stays lost, and the medium that keeps more has more. *)
MemoryFades ==
    LET g == ReadGeneration(answer)
        left(medium, at) == ProjectMemory(at, Authored.marks, Authored.retention[medium])
    IN  /\ \A medium \in DOMAIN Authored.retention :
            /\ left(medium, g) \in 0 .. Authored.marks
            /\ g > 0 => left(medium, g) <= left(medium, g - 1)
        /\ left("oral", g) <= left("symbolic", g)

(* A rate of at most one never makes the next step's loss larger. *)
LossFalls ==
    /\ ReadTimeline(answer) \in 1 .. Authored.timeline
    /\ ReadRate(answer) <= 4 => LossAt(GradientStep(answer.x, ReadRate(answer))) <= LossAt(answer.x)

(* The findings are those of the boxes that are checked, as authored. *)
FindingsInOrder ==
    LET findings == EvaluateTranscript(Authored.criteria, ReadEnabled(answer))
        place(c) == CHOOSE i \in DOMAIN Authored.criteria : Authored.criteria[i] = c
    IN  /\ Range(findings) = Range(ReadEnabled(answer))
        /\ Len(ReadEnabled(answer)) = Cardinality(Range(ReadEnabled(answer)))
        /\ \A i, j \in DOMAIN findings : i < j => place(findings[i]) < place(findings[j])

(* The rules a change reaches: each once, and the rule itself not. *)
ReachesBelow(nodes, id) ==
    LET found == DescendantIds(nodes, id)
        parent(i) == ById(nodes, i).parent
        below == {i \in IdsOf(nodes) \ {id} :
                    \E n \in 1 .. Len(nodes) :
                        FoldLeft(LAMBDA at, k : IF at \in {"", id} THEN at ELSE parent(at),
                                 i, [k \in 1 .. n |-> k]) = id}
    IN  /\ Range(found) = below
        /\ Len(found) = Cardinality(below)

(* Of any rules that are given a parent: refused where one is above itself, *)
(* and otherwise every change reaches what is below it.                     *)
RuleGraphHolds(nodes) ==
    LET up[S \in SUBSET IdsOf(nodes), n \in 0 .. Len(nodes)] ==
            IF n = 0 THEN S ELSE up[{ById(nodes, i).parent : i \in S} \ {""}, n - 1]
    IN  /\ ValidRuleGraph(nodes) <=> up[IdsOf(nodes), Len(nodes)] = {}
        /\ ValidRuleGraph(nodes) => \A id \in IdsOf(nodes) : ReachesBelow(nodes, id)

(* No line separates the points of XOR, and the line that is drawn is where *)
(* the sign changes.                                                        *)
LineSaysSo ==
    /\ answer.xor => Misclassified(answer) > 0
    /\ \A end \in BoundaryPoints(answer.normal, answer.offset) :
            end[1] * answer.normal[1] + end[2] * answer.normal[2] + 25 * answer.offset = 0

IdeasHold ==
    CASE idea = "agent" -> TraceIsPermitted
      [] idea = "agi" -> TwoDefinitions
      [] idea = "attention" -> TokenIsThere
      [] idea = "convolution" -> WindowIsItsCell
      [] idea = "abacus" -> ColumnsAddUp
      [] idea = "rules" -> RulesKeepTheirCards
      [] idea = "memory" -> MemoryFades
      [] idea = "gradient" -> LossFalls
      [] idea = "judgment" -> FindingsInOrder
      [] idea = "knowledge" -> ReachesBelow(Authored.nodes, ReadRuleId(answer))
      [] OTHER -> LineSaysSo

=============================================================================
