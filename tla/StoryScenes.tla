----------------------------- MODULE StoryScenes ----------------------------
(***************************************************************************)
(* Which scene of a story is the active one (useActiveStoryScene.ts), the  *)
(* scene whose lab is open (StoryRenderer.tsx), and the stage beside them. *)
(* The browser reports which scenes cross the middle of the window some    *)
(* time after the page has moved. A reader who came with a scene in the    *)
(* address keeps that scene, whatever is reported, until they move on; and *)
(* the page is brought to it once its picture and the fonts are there,     *)
(* whatever the reader did meanwhile.                                      *)
(*                                                                         *)
(* The page is a line: a scene reaches from TopOf to BottomOf, the window  *)
(* stands at a position, and a scene is in its middle when it reaches into *)
(* Middle positions from there. Effects due run before the next event.     *)
(***************************************************************************)
EXTENDS StoryStage, Sequences, FiniteSets
LOCAL INSTANCE Functions
LOCAL INSTANCE FiniteSetsExt

CONSTANTS
    SceneOrder,     \* the scenes from the top of the page
    TopOf, BottomOf,
    Middle,         \* how far below its line the middle of the window reaches
    MaxScrolls      \* bound on what the reader does

ASSUME ScenesAssumption ==
    /\ SceneOrder \in Seq(Scenes) /\ SceneOrder # <<>>
    /\ TopOf \in [Scenes -> Int] /\ BottomOf \in [Scenes -> Int]

VARIABLES
    pos,            \* where the middle of the window stands
    activeScene,    \* the active scene
    pendingHash,    \* the scene of the address that the reader came for
    hash,           \* the scene of the address
    intersections,  \* the scenes reported in the middle, in order of report
    seen,           \* where the window stood at the last report
    named,         \* the reader named a scene after it
    arrival,        \* the way to the scene of the address:
                    \* "decoding", "framed", "done"
    target,         \* that scene
    failedScenes,   \* the scenes whose picture failed on the way
    lab,            \* the scene whose lab is open
    openedInline,   \* whether it was opened in the text, on a narrow window
    mobile,         \* a narrow window, without a stage
    reduced,        \* motion is reduced
    scrolls         \* what the reader did so far

trackVars == <<pos, activeScene, pendingHash, hash, intersections, seen, named, arrival,
               target, failedScenes>>
storyVars == <<trackVars, lab, openedInline, mobile, reduced, scrolls, stageVars>>

Positions == TopOf[Head(SceneOrder)] .. BottomOf[SceneOrder[Len(SceneOrder)]]
Center(s) == (TopOf[s] + BottomOf[s]) \div 2
InMiddle(s, p) == TopOf[s] <= p + Middle /\ p <= BottomOf[s]
FromLine(s) == IF TopOf[s] >= pos THEN TopOf[s] - pos ELSE pos - TopOf[s]

StageScene == IF ~mobile /\ lab # Off THEN lab ELSE activeScene

InitStory ==
    /\ pos = TopOf[Head(SceneOrder)] /\ seen = Off /\ named = FALSE
    /\ hash \in Scenes \cup {Off}
    /\ activeScene = IF hash = Off THEN Head(SceneOrder) ELSE hash
    /\ pendingHash = hash /\ target = hash
    /\ intersections = <<>>
    /\ arrival = IF hash = Off THEN "done" ELSE "decoding"
    /\ failedScenes = {}
    /\ lab = Off /\ openedInline = FALSE
    /\ mobile \in BOOLEAN /\ reduced \in BOOLEAN
    /\ scrolls = 0
    /\ plate = FirstPlate(StageScene, failedScenes) /\ retiring = Off /\ timer = Off

-----------------------------------------------------------------------------

(* Mutant: the scene of the address is not given up.                       *)
SetActiveSceneIdOnly(id, pending) ==
    activeScene' = id /\ hash' = id /\ pendingHash' = pending

(* The scene becomes the active one and that of the address; one that the  *)
(* reader came for is given up for another.                                *)
SetActiveSceneId(id, pending) ==
    /\ activeScene' = id /\ hash' = id
    /\ pendingHash' = IF pending \notin {Off, id} THEN Off ELSE pending

(* Of the scenes reported the one whose top is closest to the line, of two *)
(* as close the one reported first; while the reader is kept at a scene    *)
(* that scene, once it is reported.                                        *)
Closest(reported) ==
    LET near == {i \in DOMAIN reported :
                    \A j \in DOMAIN reported : FromLine(reported[i]) <= FromLine(reported[j])}
    IN  reported[CHOOSE i \in near : \A j \in near : i <= j]

SelectFromIntersections(reported, pending) ==
    CASE pending = Off /\ reported # <<>> ->
            SetActiveSceneId(Closest(reported), pending)
      [] pending # Off /\ pending \in Range(reported) -> SetActiveSceneId(pending, pending)
      [] OTHER -> UNCHANGED <<activeScene, hash>> /\ pendingHash' = pending

(* A lab closes when the active scene changes, unless opening it was what  *)
(* changed that (ToggleLab).                                               *)
KeepLab ==
    IF activeScene' = activeScene THEN UNCHANGED <<lab, openedInline>>
    ELSE lab' = Off /\ openedInline' = FALSE

CountScroll == scrolls < MaxScrolls /\ scrolls' = scrolls + 1

(* The scenes in the middle: those reported before keep their order, and   *)
(* those that come follow in the order of the page.                        *)
Reported(scenes) ==
    LET told == intersections \o SceneOrder
        place(s) == Min({i \in DOMAIN told : told[i] = s})
    IN  /\ Range(scenes) = {s \in Scenes : InMiddle(s, pos)}
        /\ \A i, j \in DOMAIN scenes : i < j => place(scenes[i]) < place(scenes[j])

(* The browser reports what came into the middle and what left it. *)
Report ==
    /\ seen # pos /\ seen' = pos /\ named' = FALSE
    /\ \E n \in 0 .. Cardinality(Scenes) : \E scenes \in [1 .. n -> Scenes] :
          /\ Reported(scenes)
          /\ intersections' = scenes
          /\ SelectFromIntersections(scenes, pendingHash)
    /\ KeepLab
    /\ UNCHANGED <<pos, arrival, target, failedScenes, mobile, reduced, scrolls, stageVars>>

(* Mutant: nothing is selected anew.                                       *)
ReaderScrollUnselected(p) ==
    /\ CountScroll
    /\ pendingHash' = Off /\ pos' = p
    /\ UNCHANGED <<activeScene, hash, intersections, seen, named, arrival, target, failedScenes,
                   lab, openedInline, mobile, reduced, stageVars>>

(* The wheel, a touch or a key that scrolls: the reader is on their own. *)
ReaderScroll(p) ==
    /\ CountScroll
    /\ IF pendingHash # Off THEN SelectFromIntersections(intersections, Off)
       ELSE UNCHANGED <<activeScene, hash, pendingHash>>
    /\ pos' = p
    /\ KeepLab
    /\ UNCHANGED <<intersections, seen, named, arrival, target, failedScenes, mobile, reduced,
                   stageVars>>

(* The bar of the window moves the page and nothing hears of it. *)
DragScrollbar(p) ==
    /\ CountScroll /\ pos' = p
    /\ UNCHANGED <<activeScene, pendingHash, hash, intersections, seen, named, arrival, target,
                   failedScenes, lab, openedInline, mobile, reduced, stageVars>>

(* The picture of the scene of the address and the fonts are there, or the *)
(* picture is not to be had; a frame later the page goes to it.            *)
Decoded ==
    /\ arrival = "decoding" /\ arrival' = "framed"
    /\ failedScenes' \in {failedScenes, failedScenes \cup {target}}
    /\ UNCHANGED <<pos, activeScene, pendingHash, hash, intersections, seen, named, target, lab,
                   openedInline, mobile, reduced, scrolls, stageVars>>

Arrive ==
    /\ arrival = "framed" /\ arrival' = "done"
    /\ pos' = Center(target)
    /\ UNCHANGED <<activeScene, pendingHash, hash, intersections, seen, named, target, failedScenes,
                   lab, openedInline, mobile, reduced, scrolls, stageVars>>

(* The contents lead to a scene. *)
ActivateScene(s) ==
    /\ CountScroll
    /\ pos' = Center(s)
    /\ SetActiveSceneId(s, pendingHash)
    /\ KeepLab /\ named' = TRUE
    /\ UNCHANGED <<intersections, seen, arrival, target, failedScenes, mobile, reduced,
                   stageVars>>

(* A lab beside the text makes its scene the active one. *)
ToggleLab(s) ==
    /\ CountScroll
    /\ IF lab = s
       THEN lab' = Off /\ openedInline' = FALSE
            /\ UNCHANGED <<pos, activeScene, hash, pendingHash, named>>
       ELSE /\ lab' = s /\ openedInline' = mobile
            /\ IF ~mobile /\ s # activeScene
               THEN SetActiveSceneId(s, pendingHash) /\ pos' = Center(s) /\ named' = TRUE
               ELSE UNCHANGED <<pos, activeScene, hash, pendingHash, named>>
    /\ UNCHANGED <<intersections, seen, arrival, target, failedScenes, mobile, reduced,
                   stageVars>>

(* The window is made narrow or wide, and a wide one has a new stage. *)
SwitchLayout ==
    /\ CountScroll /\ mobile' = ~mobile
    /\ IF mobile THEN MountStage(IF lab # Off THEN lab ELSE activeScene, failedScenes)
       ELSE UNCHANGED stageVars
    /\ UNCHANGED <<trackVars, lab, openedInline, reduced>>

SwitchMotion ==
    /\ CountScroll /\ reduced' = ~reduced
    /\ UNCHANGED <<trackVars, lab, openedInline, mobile, stageVars>>

OnStage(step) ==
    ~mobile /\ step /\ UNCHANGED <<trackVars, lab, openedInline, mobile, reduced, scrolls>>

StoryNext ==
    \/ Report \/ Decoded \/ Arrive
    \/ \E p \in Positions : ReaderScroll(p) \/ DragScrollbar(p)
    \/ \E s \in Scenes : ActivateScene(s) \/ ToggleLab(s)
    \/ SwitchLayout \/ SwitchMotion
    \/ OnStage(AcceptPending(StageScene, failedScenes, reduced))
    \/ OnStage(RejectActive) \/ OnStage(FadeEnds)

StorySpec == InitStory /\ [][StoryNext]_storyVars

-----------------------------------------------------------------------------
(* The scene that the reader came for is the active one until it is given  *)
(* up; the address never names another scene than the active one; once the *)
(* browser has reported where the window stands, and no scene was chosen   *)
(* since, the active scene is one of those in its middle; a lab beside the *)
(* text is that of the active scene; and the stage shows the scene it is   *)
(* asked for (useActiveStoryScene.ts 44-132, StoryRenderer.tsx 51-66).     *)
ScenesHold ==
    /\ pendingHash # Off => activeScene = pendingHash
    /\ hash # Off => hash = activeScene
    /\ pendingHash = Off /\ seen = pos /\ ~named /\ intersections # <<>> =>
          activeScene \in Range(intersections)
    /\ lab # Off /\ ~openedInline => lab = activeScene
    /\ ~mobile => StageShows(StageScene, failedScenes)

=============================================================================
