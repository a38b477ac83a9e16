------------------------------ MODULE WebPages ------------------------------
(***************************************************************************)
(* What the parts of the client that share no state owe whoever reads      *)
(* them. The forms stand over queries of the server: the search box, the   *)
(* drafts of a learner's agent and of a price, the settings of the         *)
(* operators, and what an operator changes and reads off the same page.    *)
(* The pages keep what they were last told: the reader's years, the list   *)
(* of enrolments, a story's edition, its scenes and the message that goes  *)
(* through its labs.                                                       *)
(***************************************************************************)
EXTENDS PageText, SearchBox, FormDrafts, AdminSettings, AdminDesk, StudyYears, StudyHome,
        StoryRoute, StoryScenes, MessageJourney

(* What the forms show and send, as far as the code goes: the evidence     *)
(* after an attempt has the changes settled by then, but for two kinds     *)
(* (EvidenceFresh); one filling moves the credit once, unless an error was *)
(* shown; a grant nobody typed is sent only where it or the draft's seed   *)
(* changed (GrantIntended); "saved" shows what was saved, unless the form  *)
(* is seeded from an older reading (SavedIsShown); the search box speaks   *)
(* of the text that it shows (SearchSpeaksTrue).                           *)
FormsHold ==
    /\ EvidenceFresh /\ OneMovePerFilling /\ GrantIntended
    /\ SavedIsShown /\ SearchSpeaksTrue

(* A page shows what it says it shows, however its answers come and its    *)
(* reader moves: the figures are of the year chosen, the enrolments are    *)
(* those that are, the home page says of them what the answers said        *)
(* (HomeSpeaksTrue), a story's title and language are those of the edition,*)
(* the scene, the lab and the picture beside the text are those of the     *)
(* active scene (ScenesHold), the paint of the notes in a text shows the   *)
(* spans that were marked (PaintShowsSpans), and no result or setting is   *)
(* shown that is not of the message on its way (ResultsSpeakTrue,          *)
(* SettingsKept).                                                          *)
PagesHold ==
    /\ YearsHold /\ ListIsCurrent /\ HomeSpeaksTrue /\ RouteHolds
    /\ ScenesHold /\ PaintShowsSpans
    /\ ResultsSpeakTrue /\ SettingsKept

=============================================================================
