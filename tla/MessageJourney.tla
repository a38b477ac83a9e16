--------------------------- MODULE MessageJourney ---------------------------
(***************************************************************************)
(* The one message a learner carries through the labs of a story           *)
(* (stories/session), and the labs that keep results about it: those that  *)
(* record an observation with their settings (huffman-message,             *)
(* binary-noise, repetition-channel), and channel-budget, whose run makes  *)
(* the delivery receipt and whose comparison of codes goes on in the       *)
(* background, yielding to whatever the learner does meanwhile.            *)
(*                                                                         *)
(* A result names the revision of the message it is about; a lab shows it  *)
(* as the result for the message in use when the revisions are equal.      *)
(* What a transmission or an encoding yields is in MessageLabs.            *)
(***************************************************************************)
EXTENDS Naturals

CONSTANTS
    Languages,
    Example,        \* the example message of each language
    Texts,          \* what may be in the editor
    Usable,         \* the texts inspectMessage accepts
    Recorders,      \* scenes with a lab that records an observation
    Settings,       \* settings of a recording lab
    Runnable,       \* [text, setting] that its run does not refuse
    ChannelCodes, Noises,  \* a code; probability, seed and budget
    First,          \* the settings channel-budget starts with
    Fits,           \* [text, code, noise]: the coded text is within budget
    Absent,
    MaxActs         \* bound: what the learner does

(* What channel-budget keeps: its settings; the comparison of the codes;   *)
(* and of the last transmission the budget it would have needed, with the  *)
(* receipt before it.                                                      *)
ChannelConfig == [code : ChannelCodes, noise : Noises]
Compared == [revision : Nat, source : Texts, config : [noise : Noises]]
Delivery == [revision : Nat, source : Texts, config : ChannelConfig]
LabState == [config : ChannelConfig, batch : Compared \cup {Absent},
             failure : Delivery \cup {Absent}, previous : Delivery \cup {Absent}]

ASSUME JourneyAssumption ==
    /\ Absent \notin LabState \cup Compared \cup Delivery
    /\ Usable \subseteq Texts /\ Example \in [Languages -> Usable]
    /\ Fits \subseteq Texts \X ChannelCodes \X Noises
    /\ Runnable \subseteq Texts \X Settings
    /\ First \in ChannelConfig
    /\ MaxActs \in Nat

Budget == "scene-11"    \* the scene of channel-budget
Shorter == "scene-01"   \* the scene of message-budget, with a second draft

VARIABLES
    lang,
    open,           \* the scene whose lab is mounted, or Absent
    message, revision, draftText, shortened, receipt,
    observed,       \* a recording lab's state, or Absent
    budget,         \* channel-budget's state, or Absent
    renewed,        \* identity of channel-budget's value and of the scene map
    comparison,     \* the run activeRun holds, or Absent
    progress,       \* progressState and progressContext
    chosen,         \* history: the settings channel-budget was last given
    acts

labVars == <<observed, budget, renewed>>
journeyVars ==
    <<lang, open, message, revision, draftText, shortened, receipt, labVars,
      comparison, progress, chosen, acts>>

NoProgress == [status |-> "none", context |-> Absent]
InitialBudget == [config |-> First, batch |-> Absent,
                  failure |-> Absent, previous |-> Absent]

(* readState *)
State == IF budget = Absent THEN InitialBudget ELSE budget

(* createSession *)
CreateSession(example) ==
    /\ message' = example /\ revision' = 0
    /\ draftText' = example /\ shortened' = example
    /\ observed' = [s \in Recorders |-> Absent] /\ budget' = Absent
    /\ receipt' = Absent /\ chosen' = First

InitJourney ==
    /\ lang \in Languages /\ open = Absent
    /\ message = Example[lang] /\ draftText = message /\ shortened = message
    /\ revision = 0 /\ receipt = Absent
    /\ observed = [s \in Recorders |-> Absent] /\ budget = Absent
    /\ renewed = 0 /\ comparison = Absent /\ progress = NoProgress
    /\ chosen = First /\ acts = 0

Act == acts < MaxActs /\ acts' = acts + 1

-----------------------------------------------------------------------------
(* After a render: the lab's layout effect, and what it shows.             *)

Context == [revision |-> revision, draftText |-> draftText, renewed |-> renewed]

(* Mutant: the effect follows the revision of the message alone. *)
AbortOnRevision ==
    comparison' = IF revision' # revision THEN Absent ELSE comparison

(* The effect's cleanup: a comparison does not outlive the message, the    *)
(* draft, the lab's value or the scene map it was begun with.             *)
AbortOnChange == comparison' = IF Context' # Context THEN Absent ELSE comparison

(* StoryLabHost makes an initial value anew whenever it renders. *)
Rendered == renewed' = IF budget = Absent THEN renewed + 1 ELSE renewed

(* A `lab', `reset-lab' or `reset-session' makes a new scene map. *)
Replaced == renewed' = renewed + 1

ShownStatus ==
    IF progress.status = "complete" /\ State.batch = Absent THEN "none"
    ELSE IF progress.status = "running" /\ progress.context # Context
    THEN "incomplete"
    ELSE progress.status

-----------------------------------------------------------------------------
(* StoryRenderer: one lab at a time; leaving it unmounts it.               *)

OpenLab(scene) ==
    /\ Act /\ open # scene /\ open' = scene
    /\ comparison' = Absent /\ progress' = NoProgress /\ Rendered
    /\ UNCHANGED <<lang, message, revision, draftText, shortened, receipt,
                   observed, budget, chosen>>

CloseLab == open # Absent /\ OpenLab(Absent)

SetLanguage(l) ==
    /\ Act /\ l # lang /\ lang' = l /\ Rendered
    /\ UNCHANGED <<open, message, revision, draftText, shortened, receipt,
                   observed, budget, chosen, progress>>
    /\ AbortOnChange

-----------------------------------------------------------------------------
(* MessageEditor, within every lab. A text that is too long stays out.     *)

Draft(text) ==
    /\ Act /\ open # Absent
    /\ draftText' = text /\ draftText' # draftText /\ Rendered
    /\ UNCHANGED <<lang, open, message, revision, shortened, receipt,
                   observed, budget, chosen, progress>>
    /\ AbortOnChange

(* reduceSession's `commit', of a text that is also the draft then.     *)
Commit(text) ==
    /\ draftText' = text
    /\ IF text \in Usable /\ text # message
       THEN message' = text /\ revision' = revision + 1
       ELSE UNCHANGED <<message, revision>>
    /\ Rendered
    /\ UNCHANGED <<lang, open, shortened, receipt, observed, budget, chosen, progress>>
    /\ AbortOnChange

CommitDraft == Act /\ open # Absent /\ draftText \in Usable /\ Commit(draftText)

UseExample == Act /\ open # Absent /\ Commit(Example[lang])

(* The revision starts over with the session. *)
ResetSession ==
    /\ Act /\ open # Absent
    /\ CreateSession(Example[lang]) /\ Replaced
    /\ UNCHANGED <<lang, open, progress>>
    /\ AbortOnChange

Shorten(text) ==
    /\ Act /\ open = Shorter
    /\ shortened' = text /\ shortened' # shortened /\ Rendered
    /\ UNCHANGED <<lang, open, message, revision, draftText, receipt,
                   observed, budget, chosen, progress>>
    /\ AbortOnChange

(* `reset-lab' of message-budget; its budget is left out. *)
ResetShorter ==
    /\ Act /\ open = Shorter /\ shortened # Absent /\ shortened' = Absent
    /\ Replaced
    /\ UNCHANGED <<lang, open, message, revision, draftText, receipt,
                   observed, budget, chosen, progress>>
    /\ AbortOnChange

-----------------------------------------------------------------------------
(* A lab that records: its settings, and a snapshot of what it was run on. *)

Recording(scene) == Act /\ open = scene /\ Replaced

Recorded(scene, next) ==
    /\ observed' = [observed EXCEPT ![scene] = next] /\ observed' # observed
    /\ UNCHANGED <<lang, open, message, revision, draftText, shortened, receipt,
                   budget, chosen, progress>>
    /\ AbortOnChange

SetUp(scene, setting) ==
    /\ Recording(scene)
    /\ Recorded(scene,
           [setting |-> setting,
            snapshot |-> IF observed[scene] = Absent THEN Absent
                         ELSE observed[scene].snapshot])

Record(scene, setting) ==
    /\ Recording(scene)
    /\ IF observed[scene] = Absent THEN TRUE ELSE observed[scene].setting = setting
    /\ <<message, setting>> \in Runnable
    /\ Recorded(scene,
           [setting |-> setting,
            snapshot |-> [revision |-> revision, source |-> message,
                          setting |-> setting]])

ResetRecorder(scene) == Recording(scene) /\ Recorded(scene, Absent)

-----------------------------------------------------------------------------
(* channel-budget                                                          *)

Stopped == IF progress.status = "running"
           THEN [progress EXCEPT !.status = "incomplete"] ELSE progress

(* updateConfig *)
Choose(config) ==
    /\ Act /\ open = Budget /\ config # State.config
    /\ budget' = [State EXCEPT !.config = config] /\ Replaced
    /\ comparison' = Absent /\ progress' = Stopped /\ chosen' = config
    /\ UNCHANGED <<lang, open, message, revision, draftText, shortened, receipt, observed>>

About(config) == [revision |-> revision, source |-> message, config |-> config]

(* run: the receipt, or the budget it would have needed. *)
Transmit ==
    /\ Act /\ open = Budget /\ Replaced
    /\ IF <<message, State.config.code, State.config.noise>> \in Fits
       THEN /\ budget' = [State EXCEPT !.failure = Absent, !.previous = Absent]
            /\ receipt' = About(State.config)
       ELSE /\ budget' = [State EXCEPT !.failure = About(State.config),
                              !.previous = IF receipt = Absent THEN @ ELSE receipt]
            /\ receipt' = Absent
    /\ UNCHANGED <<lang, open, message, revision, draftText, shortened, observed,
                   chosen, progress>>
    /\ AbortOnChange

(* compare: what it will write over the lab's value is fixed now. *)
Compare ==
    /\ Act /\ open = Budget /\ ShownStatus # "running"
    /\ comparison' = [revision |-> revision, source |-> message,
                      config |-> [noise |-> State.config.noise], base |-> State]
    /\ progress' = [status |-> "running", context |-> Context]
    /\ UNCHANGED <<lang, open, message, revision, draftText, shortened, receipt,
                   labVars, chosen>>

(* compareCodes is through its trials, unless it was aborted. *)
FinishComparison ==
    /\ comparison # Absent
    /\ budget' = [comparison.base EXCEPT !.batch =
                     [revision |-> comparison.revision, source |-> comparison.source,
                      config |-> comparison.config]]
    /\ Replaced
    /\ comparison' = Absent
    /\ progress' = [progress EXCEPT !.status = "complete"]
    /\ UNCHANGED <<lang, open, message, revision, draftText, shortened, receipt,
                   observed, chosen, acts>>

CancelComparison ==
    /\ Act /\ open = Budget /\ ShownStatus = "running"
    /\ comparison' = Absent /\ progress' = Stopped
    /\ UNCHANGED <<lang, open, message, revision, draftText, shortened, receipt,
                   labVars, chosen>>

(* The lab is mounted anew: StoryLabHost's resetVersion. *)
ResetBudget ==
    /\ Act /\ open = Budget /\ budget' = Absent /\ receipt' = Absent /\ Replaced
    /\ comparison' = Absent /\ progress' = NoProgress /\ chosen' = First
    /\ UNCHANGED <<lang, open, message, revision, draftText, shortened, observed>>

-----------------------------------------------------------------------------
EditMessage ==
    \/ \E l \in Languages : SetLanguage(l)
    \/ \E text \in Texts : Draft(text) \/ Shorten(text)
    \/ CommitDraft \/ UseExample \/ ResetSession \/ ResetShorter

JourneyNext ==
    \/ \E scene \in Recorders \cup {Budget, Shorter} : OpenLab(scene)
    \/ CloseLab
    \/ EditMessage
    \/ \E scene \in Recorders, setting \in Settings :
          SetUp(scene, setting) \/ Record(scene, setting)
    \/ \E scene \in Recorders : ResetRecorder(scene)
    \/ \E config \in ChannelConfig : Choose(config)
    \/ Transmit \/ Compare \/ FinishComparison \/ CancelComparison \/ ResetBudget

JourneySpec == InitJourney /\ [][JourneyNext]_journeyVars

-----------------------------------------------------------------------------
Results ==
    ({receipt, State.batch, State.failure, State.previous}
        \cup {observed[s].snapshot : s \in {s \in Recorders : observed[s] # Absent}})
    \ {Absent}

(* A result that has the revision of the message in use, and so is shown   *)
(* as a result for it, is about that very message: revisions count from 0  *)
(* again when the session is reset, and a comparison may be under way.     *)
ResultsSpeakTrue ==
    \A r \in Results :
        /\ r.revision <= revision
        /\ r.revision = revision => r.source = message

(* A comparison that finishes does not bring back settings that the        *)
(* learner has changed, or reset, since it began.                          *)
SettingsKept == State.config = chosen

=============================================================================
