----------------------------- MODULE StoryStage -----------------------------
(***************************************************************************)
(* The stage beside a story (stories/components/StoryStage.tsx): two       *)
(* layers on which the plates of the scenes are shown, one fading into the *)
(* next. The plate of the scene asked for is loaded on the layer that is   *)
(* not shown, and takes over once its image has loaded or failed; the one  *)
(* it replaces stays on its own layer until the fade is over.              *)
(***************************************************************************)
EXTENDS Integers

CONSTANTS
    Scenes,         \* the scenes of a story
    Off             \* no plate, no scene, no timer

(* A plate: its scene, its layer, and whether its image failed. *)
Plates == [scene : Scenes, layer : {0, 1}, failed : BOOLEAN]

ASSUME StageAssumption == Off \notin Scenes \cup Plates

VARIABLES
    plate,          \* the plate shown: its scene, its layer, its image failed
    retiring,       \* the plate that fades out
    timer           \* the scene whose plate a timer takes away

stageVars == <<plate, retiring, timer>>

Plate(scene, layer, failed) == [scene |-> scene, layer |-> layer, failed |-> failed]

FirstPlate(request, failedScenes) == Plate(request, 0, request \in failedScenes)

MountStage(request, failedScenes) ==
    plate' = FirstPlate(request, failedScenes) /\ retiring' = Off /\ timer' = Off

(* The plate that loads: none while the scene asked for is shown, or while *)
(* its layer is still fading.                                              *)
PendingPlate(request, failedScenes) ==
    IF plate.scene = request \/ (retiring # Off /\ retiring.layer # plate.layer) THEN Off
    ELSE Plate(request, 1 - plate.layer, request \in failedScenes)

(* Its image loads or fails; a plate already known to fail shows its text  *)
(* at once. The fade takes a while unless motion is reduced.               *)
AcceptPending(request, failedScenes, reduced) ==
    LET next == PendingPlate(request, failedScenes)
    IN  /\ next # Off
        /\ \E failed \in IF next.failed THEN {FALSE} ELSE BOOLEAN :
              plate' = [next EXCEPT !.failed = failed]
        /\ retiring' = IF reduced THEN Off ELSE plate
        /\ timer' = IF reduced THEN Off ELSE plate.scene

(* The image of the plate shown fails. *)
RejectActive ==
    /\ ~plate.failed /\ plate' = [plate EXCEPT !.failed = TRUE]
    /\ UNCHANGED <<retiring, timer>>

(* Mutant: the timer looks at the plate that is shown.                     *)
FadeEndsForActive ==
    /\ timer # Off /\ timer' = Off
    /\ retiring' = IF retiring # Off /\ plate.scene = timer THEN Off ELSE retiring
    /\ UNCHANGED plate

(* The fade is over. *)
FadeEnds ==
    /\ timer # Off /\ timer' = Off
    /\ retiring' = IF retiring # Off /\ retiring.scene = timer THEN Off ELSE retiring
    /\ UNCHANGED plate

(* Two plates are never on one layer, and once nothing loads or fades the  *)
(* plate shown is that of the scene asked for (StoryStage.tsx 104-144).    *)
StageShows(request, failedScenes) ==
    /\ retiring # Off => retiring.layer # plate.layer
    /\ PendingPlate(request, failedScenes) = Off /\ timer = Off => plate.scene = request

=============================================================================
