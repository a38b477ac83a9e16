------------------------------- MODULE MCWeb -------------------------------
(***************************************************************************)
(* The parts of the web application and its tools that share no state with *)
(* each other, side by side: a behaviour picks one of them and is one of   *)
(* its behaviours, the others rest in an initial state. The algorithms     *)
(* have one initial state for each input.                                  *)
(***************************************************************************)
EXTENDS NoteEditing, NoteSurface, NotePlacement, PageText, QuoteAnchor, AskPanel,
        CoursePackage, MessageLabs, ReaderPage, WebPages,
        LabFigures, IdeaLabs, StudyYears, StudyHome, StoryScenes, StoryRoute
LOCAL INSTANCE SequencesExt

VARIABLES
    scene,      \* the part that runs
    input       \* the input of an algorithm

Strings(lengths, letters) == UNION {[1 .. n -> letters] : n \in lengths}

-----------------------------------------------------------------------------
(* A page of a text box, an atomic island, white space beside the boxes,   *)
(* code that is left out, and a second text box.                           *)
MCPage == <<[kind |-> "text", box |-> 1, data |-> <<1, 2>>],
            [kind |-> "atomic", box |-> 1, data |-> <<3>>],
            [kind |-> "text", box |-> 0, data |-> <<4, 6>>],
            [kind |-> "excluded", box |-> 0, data |-> <<9>>],
            [kind |-> "text", box |-> 2, data |-> <<5>>]>>
MCBlanks == {4, 6}
MCProbes == <<1>>

(* A course of one chapter which shows one widget; what its author may do  *)
(* to it, and what other tools may put into a zip of it.                   *)
Plain == [kind |-> "file", size |-> 1, flaws |-> {}, refs |-> {}, manifest |-> Unset]
Page1 == <<"a.html">>
Refers(names) == [Plain EXCEPT !.refs = names]
Flawed(codes) == [Plain EXCEPT !.flaws = codes]
ManifestFile(flaws, chapters) ==
    [Plain EXCEPT !.manifest =
        [flaws |-> flaws, id |-> "s", version |-> "v1", chapters |-> chapters]]
Chapter(id, file) == [id |-> id, file |-> file]
C1 == Chapter("c1", Page1)
Base == ManifestPath :> ManifestFile({}, <<C1>>) @@ Page1 :> Refers({"w"})
            @@ IndexOf("w") :> Plain

Overlays ==
    {<<>>,
     ManifestPath :> ManifestFile({}, <<C1, C1>>),
     ManifestPath :> ManifestFile({}, <<Chapter("c1", <<"widgets", "w", "b.html">>)>>),
     ManifestPath :> ManifestFile({"SEMVER"}, <<C1>>),
     ManifestPath :> Plain,
     Page1 :> Refers({"w", "u"}),
     Page1 :> Flawed({"SCRIPT_TAG"}),
     <<"A.html">> :> Plain, <<"viz.js">> :> Plain, <<".git", "x">> :> Plain,
     <<"l">> :> [Plain EXCEPT !.kind = "link"],
     <<"old.zip">> :> [Plain EXCEPT !.size = 3],
     Proto :> Plain,
     <<"widgets", "w", "more.js">> :> Plain, <<"widgets", "u", "more.js">> :> Plain,
     Page1 :> Refers({"w", "u"}) @@ <<"widgets", "u", "more.js">> :> Plain,
     IndexOf("u") :> Plain, IndexOf("-") :> Plain,
     IndexOf("w") :> Flawed({"SCRIPT_TAG", "WIDGET_EXTERNAL_URL"}),
     IndexOf("w") :> Flawed({"SCRIPT_TAG"})}
MCFolders ==
    {o @@ Base : o \in Overlays} \cup {<<>>}
        \cup {[p \in DOMAIN Base \ {gone} |-> Base[p]] : gone \in DOMAIN Base}

EntryOf(name) == [name |-> name, claim |-> 1, sound |-> TRUE, content |-> Plain]
Good == PackZip(Base)
With(entries, names) ==
    [entries |-> Good.entries \o entries, index |-> Good.index \o names]
OneEntry(entry) == With(<<entry>>, <<entry.name>>)
MCArchives ==
    LET img == <<"img", "/">>
        B == EntryOf(<<"b.txt">>)
    IN  {Good,
         OneEntry([EntryOf(img) EXCEPT !.content.size = 0]), OneEntry(EntryOf(img)),
         With(<<B>>, <<>>), With(<<>>, <<B.name>>), With(<<B>>, <<<<"c.txt">>>>),
         With(<<>>, <<Page1>>), OneEntry([B EXCEPT !.name = Page1]),
         With(<<[B EXCEPT !.name = Page1]>>, <<>>), OneEntry([B EXCEPT !.name = <<"A.html">>]),
         OneEntry([B EXCEPT !.name = <<"..", "b.txt">>]),
         OneEntry([B EXCEPT !.claim = Unset]), OneEntry([B EXCEPT !.claim = 5]),
         OneEntry([B EXCEPT !.sound = FALSE]),
         OneEntry([B EXCEPT !.content.size = 5])}
MCSpelling == "A.html" :> "a.html"

MCExample == [l \in Languages |-> l]
MCRunnable == (Usable \X Settings) \ {<<"vi", "s2">>}
MCFirst == [code |-> "raw", noise |-> "z1"]
MCFits == (Usable \X ChannelCodes \X Noises) \ {<<"vi", "secded", "z1">>}

MCAnswers == {<<>>, <<"course", "chapter">>}
MCCanon == [c \in Contents |-> IF c = "t3" THEN "t1" ELSE c]

MCCourseOf == [c \in Chapters |-> IF c = "b1" THEN "b" ELSE "a"]

(* The bench: a generator of sixteen numbers, two messages, a code book.   *)
MCMixing == [i \in 0 .. 15 |-> (7 * i + 3) % 16]
MCKept == (0 :> <<0, 1>>) @@ (1 :> <<3, 4>>) @@ (2 :> <<7, 8>>)
MCFirstBook == [A |-> <<0>>, B |-> <<1, 0>>, C |-> <<1, 1>>]
MCSymbols == <<"A", "B", "C">>
MCMorse == {<<<<"E", "T">>>>, <<<<"A", "E", "T">>>>,
            <<<<"B", "E", "A", "M">>, <<"E", "T">>>>}
MCMessages == {<<6>>, <<0, 13>>}
MCAlternating == <<5>>
MCCodes == {<<>>, <<0>>, <<1>>, <<0, 1>>}
MCDrafts == {6, 7, 20, Never}

(* What the author of the labs about ideas wrote. *)
Def(id, g, c, a) ==
    [id |-> id, axes |-> [generality |-> g, capability |-> c, autonomy |-> a]]
Node(id, parent) == [id |-> id, parent |-> parent]
MCAuthored ==
    [steps |-> <<[kind |-> "model", permission |-> ""],
                 [kind |-> "tool", permission |-> "tool"],
                 [kind |-> "data", permission |-> "data"],
                 [kind |-> "tool", permission |-> "tool"],
                 [kind |-> "approval", permission |-> ""],
                 [kind |-> "proposal", permission |-> ""]>>,
     definitions |-> <<Def("d1", 5, 3, 2), Def("d2", 4, 5, 2), Def("d3", 3, 3, 5)>>,
     examples |->
        <<[id |-> "e1", tokens |-> [en |-> 3, vi |-> 2],
           weights |-> [en |-> <<<<1, 2, 3>>, <<4, 5, 6>>, <<7, 8, 9>>>>,
                        vi |-> <<<<1, 2>>, <<3, 4>>>>]],
          [id |-> "e2", tokens |-> [en |-> 1, vi |-> 2],
           weights |-> [en |-> <<<<1>>>>, vi |-> <<<<5, 6>>, <<7, 8>>>>]]>>,
     pixels |-> <<<<0, 1, 2>>, <<3, 0, 1>>, <<1, 1, 0>>>>,
     kernel |-> <<<<1, -1>>, <<2, 0>>>>,
     left |-> 97, right |-> 12, rods |-> 4,
     cards |-> <<[id |-> "k1", operation |-> "add", operand |-> 3],
                 [id |-> "k2", operation |-> "multiply", operand |-> 4],
                 [id |-> "k3", operation |-> "add", operand |-> 5]>>, input |-> 2,
     generations |-> 4, marks |-> 12, retention |-> [oral |-> 7, symbolic |-> 9],
     targetX |-> 3, startX |-> -7, rates |-> <<1, 3, 4, 5>>, timeline |-> 2,
     criteria |-> <<"j1", "j2", "j3">>,
     nodes |-> <<Node("n1", ""), Node("n2", "n1"), Node("n3", "n1"), Node("n4", "n2")>>,
     changed |-> "n2",
     points |-> <<[x |-> 0, y |-> 0, label |-> -1], [x |-> 1, y |-> 1, label |-> 1]>>,
     normals |-> {<<5, 0>>, <<3, 4>>, <<-3, 4>>, <<0, 5>>, <<4, -3>>, <<-5, 0>>, <<-4, -3>>},
     offsets |-> {-3, 0, 2}]

(* Three scenes: a short one, a long one below it, and one further down.   *)
MCOrder == <<"s1", "s2", "s3">>
MCTop == ("s1" :> 1) @@ ("s2" :> 2) @@ ("s3" :> 4)
MCBottom == ("s1" :> 1) @@ ("s2" :> 3) @@ ("s3" :> 4)

-----------------------------------------------------------------------------
(* The inputs of QuoteAnchor: a page of two text nodes to select in, a     *)
(* window to search for a pattern, and a quote edited twice.               *)
NodesOf(raw, cut, blockOfSecond) ==
    <<[block |-> 1, data |-> SubSeq(raw, 1, cut)],
      [block |-> blockOfSecond, data |-> SubSeq(raw, cut + 1, Len(raw))]>>
Quoted == <<"a", "b", "c", "d", "a", "b", "c", "e">>
Edits(q) ==
    {SubSeq(q, 1, i - 1) \o x \o SubSeq(q, i + 1, Len(q)) :
        i \in 1 .. Len(q), x \in {<<>>, <<"z">>, <<q[1]>>, <<"b", "a">>}}
QuoteInputs ==
    {[kind |-> "page", page |-> NodesOf(raw, cut, b)] :
        raw \in Strings({4}, {"a", " ", "@"}), cut \in 0 .. 4, b \in 1 .. 2}
    \cup {[kind |-> "window", text |-> t, pattern |-> p, d |-> d] :
        t \in Strings(1 .. 5, {"a", "b"}), p \in Strings(1 .. 3, {"a", "b"}), d \in 0 .. 2}
    \cup {[kind |-> "edit", edited |-> f] : f \in UNION {Edits(e) : e \in Edits(Quoted)}}

(* The inputs of MessageLabs: messages and a box of theirs that was changed, *)
(* messages, codes and noise, words to key, and programs to run.             *)
Changed(box, how, i) ==
    CASE how = "none" -> box
      [] how = "flip" ->
            [box EXCEPT !.payload = IF i <= Len(@) THEN [@ EXCEPT ![i] = 1 - @] ELSE @]
      [] how = "cut" -> [box EXCEPT !.payload = SubSeq(@, 1, Len(@) - i)]
      [] how = "count" ->
            IF i > Len(box.alphabet) THEN box
            ELSE [box EXCEPT !.alphabet[i][2] = @ + 1, !.length = @ + 1]
      [] how = "length" -> [box EXCEPT !.payloadBits = @ + i]
Running == {<<"a", "">>, <<"b", "1">>, <<"b", "2">>, <<"b", "3">>}
LabInputs ==
    {[kind |-> "huffman", bytes |-> b, how |-> how, i |-> i] :
        b \in Strings(1 .. 4, {0, 1, 2, 5}),
        how \in {"none", "flip", "cut", "count", "length"}, i \in 1 .. 3}
    \cup UNION {{[kind |-> "channel", bytes |-> b, code |-> code, noise |-> noise] :
        noise \in {N \in SUBSET (1 .. Required(Width * Len(b), code)) : Cardinality(N) <= 3}} :
        b \in {<<6>>, <<0, 3>>}, code \in {"raw", "repeat3", "secded"}}
    \cup {[kind |-> "morse", words |-> w, l |-> l, w |-> width] :
        w \in Strings(1 .. 2, Strings(1 .. 2, {"A", "B", "T"})), l \in 1 .. 5, width \in 4 .. 7}
    \cup {[kind |-> "machine", program |-> [s \in Running |->
                [left |-> s \in lefts, write |-> "x", next |-> next[s]]]] :
        lefts \in {{}, {<<"b", "2">>}, {<<"a", "">>, <<"b", "3">>}},
        next \in [Running -> Running \cup {<<"h", "">>}]}
Blank3 == [tape |-> <<"x", "x", "x">>, head |-> 2, state |-> <<"a", "">>]

-----------------------------------------------------------------------------
(* Two hundred trials of a message, Huffman's tree of one, two drafts;     *)
(* weights, a probability and a seed; a graph of rules.                    *)
FigureInputs ==
    [kind : {"batch"}, bytes : MCMessages,
     c : [p : {0, 1, 4, 8}, seed : {0, 7, 15}, budget : {4, 8, 12, 24}]]
    \cup [kind : {"tree"}, bytes : Strings(1 .. 4, {0, 1, 2}), step : 0 .. 3, limit : {1, 2, 4, 8}]
    \cup [kind : {"drafts"}, a : Strings(0 .. 3, {"x", "y"}), b : Strings(0 .. 3, {"x", "y"})]
    \cup [kind : {"weights"}, weights : [1 .. 3 -> 0 .. WeightMax]]
    \cup [kind : {"majority"}, p : 1 .. DrawRange - 1]
    \cup [kind : {"draws"}, seed : 0 .. DrawRange - 1, count : 1 .. 4]
NodeIds == <<"", "n1", "n2", "n3", "n4">>
GraphInputs ==
    {[kind |-> "graph", nodes |-> [i \in 1 .. 4 |-> Node(NodeIds[i + 1], NodeIds[parent[i]])]] :
        parent \in [1 .. 4 -> 1 .. 5]}

Day(y, m, d) == [y |-> y, m |-> m, d |-> d]
On(date, minutes) == [date |-> date, minutes |-> minutes]

(* Nothing; a leap day counted twice and a day that is none; the last days *)
(* of a year and the first of the next.                                    *)
DayLists ==
    {<<>>,
     <<On(Day(2024, 2, 29), 3), On(Day(2024, 2, 30), 9), On(Day(2024, 12, 31), 5),
       On(Day(2024, 2, 29), 1)>>,
     <<On(Day(2026, 1, 1), 4), On(Day(2026, 7, 1), 0), On(Day(2025, 12, 31), 7),
       On(Day(2026, 12, 28), 2)>>}
CalendarInputs ==
    [kind : {"year"}, days : DayLists, year : 2023 .. 2026,
     today : {Day(2026, 6, 30), Day(2024, 12, 31)}]
    \cup [kind : {"heat"}, days : DayLists, weeks : {1, 3},
          today : {Day(2026, 6, 30), Day(2024, 12, 31)}]
    \cup [kind : {"index"}, index : {17 * i : i \in 0 .. 1300}]

Rows3(n) ==
    {[i \in 1 .. n |-> [id |-> i, course |-> c[i], at |-> t[i]]] :
        c \in [1 .. n -> {"a", "b"}], t \in [1 .. n -> {Undated, 1, 2}]}
ShelfInputs ==
    [kind : {"recent"}, rows : UNION {Rows3(n) : n \in 0 .. 3}, limit : {1, 2}]
    \cup [kind : {"shelf"}, chapters : {SubSeq(<<"x", "y", "z">>, 1, n) : n \in 0 .. 3},
          done : SUBSET {"x", "y", "z", "w"}]

(* What the labs' figures, the calendars and the shelf show of the input   *)
(* at hand is so.                                                          *)
FiguresHold(in) ==
    CASE in.kind = "batch" -> BatchHolds(in.bytes, in.c)
      [] in.kind = "tree" -> TreeWindowHolds(in.bytes, in.step, in.limit)
      [] in.kind = "drafts" -> DraftsHold(in.a, in.b)
      [] in.kind = "weights" -> DrawsProportional(in.weights)
      [] in.kind = "majority" -> MajorityHolds(in.p)
      [] in.kind = "draws" -> IndexedDraws(in.seed, in.count)
      [] in.kind = "graph" -> RuleGraphHolds(in.nodes)
      [] OTHER -> TRUE

ShelvesHold(in) ==
    CASE in.kind = "year" -> YearHolds(in.days, in.year, in.today)
      [] in.kind = "heat" -> HeatHolds(in.days, in.weeks, in.today)
      [] in.kind = "index" -> DayIndexOf(IsoOfDayIndex(in.index)) = in.index
      [] in.kind = "recent" -> RecentHolds(in.rows, in.limit)
      [] in.kind = "shelf" -> ShelfHolds(in.chapters, in.done)
      [] OTHER -> TRUE

-----------------------------------------------------------------------------
webVars == <<noteVars, ownSurfaceVars, placementVars, pageVars, askVars, packageVars,
             journeyVars, readerVars, deskVars, settingsVars, searchVars, draftVars,
             benchVars, ideaVars, yearVars, homeVars, storyVars, routeVars, scene, input>>

(* One initial state of each part for while another one runs. *)
Chosen(part, choice) == scene # part => choice

AnyOf(S) == CHOOSE x \in S : TRUE

(* Of two notes one is there: the other is deleted. *)
OneNote == [NoRows EXCEPT ![AnyOf(Rows)] = AnyOf(Values)]

OneOrphan == [NoRows EXCEPT ![AnyOf(Rows)] = AnyOf(Values \ Findable)]

Init ==
    /\ scene \in {"progress", "notes", "surface", "placement", "page", "ask", "package",
                  "journey", "reader", "desk", "settings", "search", "drafts",
                  "bench", "idea", "years", "home", "story", "route", "algorithms"}
    /\ InitRows(CASE scene = "notes" -> OneNote
                   [] scene = "surface" -> OneOrphan
                   [] OTHER -> NoRows)
    /\ InitCard /\ InitSurface
    /\ InitPlacement /\ Chosen("placement", found = [a \in Anchors |-> "exact"])
    /\ InitPage(Page)
    /\ InitAsk
    /\ InitPackage /\ Chosen("package", folder = <<>>)
    /\ InitJourney /\ Chosen("journey", lang = "en")
    /\ InitReader /\ chapter = "a1"
    /\ InitDesk /\ Chosen("desk", desk = "courses" /\ listed = {} /\ left = 0)
    /\ scene = "desk" => Cardinality(listed) + left = 3
    /\ InitSettings
    /\ Chosen("settings", stored = [prompt |-> AnyOf(Prompts), grant |-> AnyOf(Grants)])
    /\ InitSearch
    /\ InitDrafts /\ Chosen("drafts", which = "agent" /\ kept = AnyOf(Contents))
    /\ InitBench /\ Chosen("bench", bench = "cable" /\ inUse = AnyOf(Messages))
    /\ InitIdea /\ Chosen("idea", idea = "attention")
    /\ InitYears /\ Chosen("years", studied = {})
    /\ InitHome /\ Chosen("home", at = Home /\ enrolled = <<>>)
    /\ InitStory /\ Chosen("story", hash = Off /\ ~mobile /\ ~reduced)
    /\ InitRoute /\ Chosen("route", route = OtherPage /\ spoken = PageTongue)
    /\ input \in IF scene = "algorithms"
                 THEN QuoteInputs \cup LabInputs \cup FigureInputs \cup GraphInputs
                        \cup CalendarInputs \cup ShelfInputs
                 ELSE {[kind |-> "none"]}

(* Bounds where the rows have a card or a selection above them: a reload   *)
(* takes the place of a write, and with the last write loads succeed.      *)
OneFailsOrTwo == begun' = MaxWrites => ~stale'
WriteOrReload == begun' + reloads' <= MaxWrites /\ OneFailsOrTwo

(* Where nothing is selected, what is found on the page is painted. *)
OnlyPaint ==
    /\ Follow(pending, handovers, rescuing)
    /\ UNCHANGED <<selectionVars, unborn, dropped>>

Runs ==
    \/ scene = "progress" /\ UNCHANGED cardVars /\ ProgressNext /\ OnlyPaint
    \/ scene = "notes" /\ NoteNext /\ WriteOrReload /\ OnlyPaint
    \/ scene = "surface" /\ UNCHANGED cardVars /\ SurfaceNext /\ OneFailsOrTwo
    \/ scene = "placement" /\ PlacementNext
    \/ scene = "page" /\ PageNext
    \/ scene = "ask" /\ AskNext
    \/ scene = "package" /\ PackageNext
    \/ scene = "journey" /\ JourneyNext
    \/ scene = "reader" /\ ReaderNext
    \/ scene = "desk" /\ DeskNext
    \/ scene = "settings" /\ SettingsNext
    \/ scene = "search" /\ SearchNext
    \/ scene = "drafts" /\ DraftNext
    \/ scene = "bench" /\ BenchNext
    \/ scene = "idea" /\ IdeaNext
    \/ scene = "years" /\ YearNext
    \/ scene = "home" /\ HomeNext
    \/ scene = "story" /\ StoryNext
    \/ scene = "route" /\ RouteNext

Rests(parts, partVars) == IF scene \in parts THEN TRUE ELSE UNCHANGED partVars

(* What rests is settled first, once for all the steps from a state. *)
Next ==
    /\ Rests({"progress", "notes", "surface"}, <<noteVars, ownSurfaceVars>>)
    /\ Rests({"placement"}, placementVars)
    /\ Rests({"page"}, pageVars)
    /\ Rests({"ask"}, askVars)
    /\ Rests({"package"}, packageVars)
    /\ Rests({"journey"}, journeyVars)
    /\ Rests({"reader"}, readerVars)
    /\ Rests({"desk"}, deskVars)
    /\ Rests({"settings"}, settingsVars)
    /\ Rests({"search"}, searchVars)
    /\ Rests({"drafts"}, draftVars)
    /\ Rests({"bench"}, benchVars)
    /\ Rests({"idea"}, ideaVars)
    /\ Rests({"years"}, yearVars)
    /\ Rests({"home"}, homeVars)
    /\ Rests({"story"}, storyVars)
    /\ Rests({"route"}, routeVars)
    /\ UNCHANGED <<scene, input>>
    /\ Runs

WebSpec == Init /\ [][Next]_webVars

-----------------------------------------------------------------------------
(* What the three parts of anchor.ts promise, for the input at hand: a     *)
(* selection is found again where it was made, the band of the edit        *)
(* distance loses no match, and an edited quote is found near its place.   *)
QuotesFoundAgain ==
    CASE input.kind = "page" -> SelectionRoundTrips(input.page)
      [] input.kind = "window" -> BandsLoseNothing(input.text, input.pattern, input.d)
      [] input.kind = "edit" ->
            EditedQuoteFound(<<"x", "y">>, Quoted, input.edited, <<"u", "v">>)
      [] OTHER -> TRUE

(* What a page and a lab work out is so. Where the notes of a text are all *)
(* unpainted, no word of it stays cut (WordsJoinAgain); a lab that the     *)
(* learner uses agrees with what it shows, whatever was used before        *)
(* (BenchSpeaksTrue, IdeasHold). And for the input at hand: quotes         *)
(* find their note again, calendars and shelf count what they are given    *)
(* (ShelvesHold), the figures beside a result agree with it (FiguresHold), *)
(* a Huffman box decodes to its message or is refused, a channel corrects  *)
(* what its code promises, a rhythm reads back, and a machine's verdict is *)
(* what it does.                                                           *)
WorkHolds ==
    /\ scene = "page" => WordsJoinAgain
    /\ scene = "bench" => BenchSpeaksTrue
    /\ scene = "idea" => IdeasHold
    /\ QuotesFoundAgain /\ ShelvesHold(input) /\ FiguresHold(input)
    /\ CASE input.kind = "huffman" ->
               HuffmanHolds(input.bytes, LAMBDA box : Changed(box, input.how, input.i))
         [] input.kind = "channel" -> ChannelHolds(input.bytes, input.code, input.noise)
         [] input.kind = "morse" -> MorseHolds(input.words, input.l, input.w)
         [] input.kind = "machine" -> MachineHolds(input.program, Blank3, 5)
         [] OTHER -> TRUE

=============================================================================
