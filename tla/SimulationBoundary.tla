------------------------- MODULE SimulationBoundary -------------------------
(***************************************************************************)
(* The boundary between the headset's XR thread and its simulation worker   *)
(* (full_runtime_app.cpp, control_boundary.h).  The XR thread publishes one *)
(* input frame per display frame and retires it when tracking, focus, the   *)
(* menu or the reference space interrupt the hand; the worker copies the    *)
(* newest frame and then runs slow Python calls and several substeps on it. *)
(* An action is one critical section under the mutex with what its thread   *)
(* does on its own after it.  Room collisions are off; no cube is edited.   *)
(***************************************************************************)
EXTENDS ArmControl, Integers, Sequences, SequencesExt

CONSTANTS
  Frames,           \* what the headset may report in a frame
  Commands,         \* the menu's commands: of "togglePause", "reset", "box"
  InputAge,         \* 100 ms: the age of a usable frame or calibration press
  QueueSize,        \* 16 commands
  MaxSubsteps,      \* 4 substeps to catch up
  MaxSuspensions, MaxReferences, MaxPresses, MaxSettings   \* bounds

HeadsetFrames ==
  {f \in [tracked: BOOLEAN,     \* TrackedControl: focus, stage, pose, trigger
          stage: BOOLEAN,       \* focused, and the stage is valid
          head: BOOLEAN,        \* head_valid
          trigger: Triggers, button: {"up", "down", "inactive"},
          menu: BOOLEAN] :      \* the menu is open, or remote inspection
     f.tracked => f.stage}

ASSUME BoundaryAssumption ==
  /\ Frames \subseteq HeadsetFrames
  /\ Commands \subseteq {"togglePause", "reset", "box"}
  /\ InputAge \in Nat /\ QueueSize \in Nat /\ MaxSubsteps \in Nat
  /\ MaxSuspensions \in Nat /\ MaxReferences \in Nat
  /\ MaxPresses \in Nat /\ MaxSettings \in Nat \ {0}

VARIABLES
  \* the XR thread's own state
  xr,               \* "idle", or where it is in UpdateFullRuntime
  pending,          \* the frame it is handling, none or one
  epoch,            \* suspension_counter, reference_counter, calibration_counter
  calibrationEvent, \* the last press, none or one
  calibrationDown, wasSuppressed, registered, faultShown,
  \* under the mutex
  input, commands, settings,
  \* the worker's own state; paused and faulted have a copy under the mutex
  worker,           \* where its loop is
  batch,            \* the frame, the settings and the commands it copied; those to do
  paused,
  sim,              \* the session; settings applied, counters consumed
  arm, left, allowed,
  \* history
  letGo,            \* a usable frame with a low trigger since the last interruption
  late,             \* substeps of this batch that followed an outdated frame
  calibratedIn,     \* the reference of the arm's calibration
  spent             \* the last press used, or present at a reset

xrVars       == <<xr, pending, epoch, calibrationEvent, calibrationDown, wasSuppressed,
                  registered, faultShown>>
sharedVars   == <<input, commands, settings>>
workerVars   == <<worker, batch, paused, sim, arm, left, allowed>>
historyVars  == <<letGo, late, calibratedIn, spent>>
boundaryVars == <<xrVars, sharedVars, workerVars, historyVars>>

-----------------------------------------------------------------------------
(* Frames, their age, and the checks of control_boundary.h *)

\* Ages are counted up to the first that is too old.
TooOld == InputAge + 1

\* A calibration press: at most one, with the epochs it was captured in.
Events ==
  {{}} \union {{e} : e \in [settings: 1..MaxSettings, reference: 0..MaxReferences,
                            suspension: 0..MaxSuspensions, age: 0..TooOld]}

NoFrame ==
  [tracked |-> FALSE, trigger |-> "low", registered |-> FALSE, menu |-> FALSE,
   calibration |-> 0, reference |-> 0, suspension |-> 0, age |-> TooOld, event |-> {}]

NoBatch   == [input |-> NoFrame, settings |-> 0, commands |-> <<>>, todo |-> <<>>]
NoSession == [session |-> "none", applied |-> 0, calibration |-> 0,
              reference |-> 0, suspension |-> 0]

RecentInput(age) == age <= InputAge

ValidFullInput(f) == RecentInput(f.age) /\ f.registered /\ ~f.menu /\ f.tracked

\* Mutant: a substep starts whatever the XR thread published since.
SettingsChanged == sim.applied # settings

\* The batch's epochs are no longer those of the newest frame, or work is waiting.
Overtaken ==
  \/ sim.applied # settings
  \/ batch.input.reference # input.reference
  \/ batch.input.suspension # input.suspension
  \/ batch.input.calibration # input.calibration
  \/ commands # <<>>

SubstepBoundaryChanged ==
  \/ Overtaken
  \/ ValidFullInput(batch.input) /\ ~ValidFullInput(input)

GripperInputAllowed ==
  /\ allowed /\ arm.allowed /\ arm.rearmed
  /\ ValidFullInput(batch.input) /\ ValidFullInput(input)
  /\ batch.input.reference = input.reference
  /\ batch.input.suspension = input.suspension
  /\ batch.input.calibration = input.calibration
  /\ settings = sim.applied /\ commands = <<>>

BoundaryInit ==
  /\ xr = "idle" /\ pending = {}
  /\ epoch = [suspension |-> 0, reference |-> 0, calibration |-> 0]
  /\ calibrationEvent = {} /\ calibrationDown = TRUE /\ wasSuppressed = TRUE
  /\ registered = FALSE /\ faultShown = FALSE
  /\ input = NoFrame /\ commands = <<>> /\ settings = 1
  /\ worker = "copy" /\ batch = NoBatch
  /\ paused = FALSE /\ sim = NoSession
  /\ arm = ResetArm /\ left = 0 /\ allowed = FALSE
  /\ letGo = FALSE /\ late = 0 /\ calibratedIn = 0 /\ spent = 0

-----------------------------------------------------------------------------
(* The XR thread *)

\* Mutant: the frame that was published last stays usable.
SuspendNextFrame(changed) ==
  /\ epoch.suspension < MaxSuspensions
  /\ changed => epoch.reference < MaxReferences
  /\ epoch' = [epoch EXCEPT !.suspension = @ + 1,
                            !.reference = IF changed THEN @ + 1 ELSE @]
  /\ calibrationEvent' = {} /\ calibrationDown' = TRUE /\ wasSuppressed' = TRUE
  /\ registered' = (registered /\ ~changed)
  /\ letGo' = FALSE
  /\ UNCHANGED input

\* SuspendFullInput; reference_changed when recentred or the stage moved.
Suspend(changed) ==
  /\ epoch.suspension < MaxSuspensions
  /\ changed => epoch.reference < MaxReferences
  /\ epoch' = [epoch EXCEPT !.suspension = @ + 1,
                            !.reference = IF changed THEN @ + 1 ELSE @]
  /\ calibrationEvent' = {} /\ calibrationDown' = TRUE /\ wasSuppressed' = TRUE
  /\ registered' = (registered /\ ~changed)
  /\ letGo' = FALSE
  /\ input' = [input EXCEPT !.tracked = FALSE, !.event = {},
                            !.suspension = epoch'.suspension,
                            !.reference = epoch'.reference,
                            !.registered = @ /\ ~changed]

\* An OpenXR event between two frames: focus, reference space, session end.
SuspendBetweenFrames ==
  /\ xr = "idle"
  /\ \E changed \in BOOLEAN : Suspend(changed)
  /\ UNCHANGED <<xr, pending, faultShown, commands, settings, workerVars,
                 late, calibratedIn, spent>>

\* A button must be seen up before it counts as pressed.
Held(f) == f.button # "up"

\* What the frame's later steps need of it.
Pending(f) ==
  [tracked |-> f.tracked, stage |-> f.stage, head |-> f.head, trigger |-> f.trigger,
   menu |-> f.menu, press |-> f.button = "down" /\ ~calibrationDown]

MenuFrame(f) ==
  /\ xr = "idle" /\ f.menu
  /\ xr' = "menu" /\ pending' = {Pending(f)}

\* menu.Update adds a command for the worker; a full queue drops it.
MenuCommand ==
  /\ Len(commands) < QueueSize
  /\ \E f \in Frames : MenuFrame(f) /\ calibrationDown' = Held(f)
  /\ \E c \in Commands : commands' = Append(commands, c)
  /\ UNCHANGED <<epoch, calibrationEvent, wasSuppressed, registered, faultShown,
                 input, settings, workerVars, historyVars>>

\* applySettings; with new bindings the calibration button must be seen up again.
MenuSettings ==
  /\ settings < MaxSettings
  /\ settings' = settings + 1
  /\ \E f \in Frames : MenuFrame(f) /\ calibrationDown' \in {Held(f), TRUE}
  /\ UNCHANGED <<epoch, calibrationEvent, wasSuppressed, registered, faultShown,
                 input, commands, workerVars, historyVars>>

MenuRecenter ==
  /\ \E f \in Frames : MenuFrame(f)
  /\ Suspend(TRUE)
  /\ UNCHANGED <<faultShown, commands, settings, workerVars, late, calibratedIn, spent>>

\* A suppressed frame begins an interruption if the one before it was not.
Interrupts(suppressed) == suppressed /\ ~wasSuppressed

\* The pause is read, and frame p found suppressed or not.
Read(p) ==
  LET suppressed == paused \/ p.menu \/ ~p.tracked IN
  /\ Interrupts(suppressed) => epoch.suspension < MaxSuspensions
  /\ IF Interrupts(suppressed)
     THEN epoch' = [epoch EXCEPT !.suspension = @ + 1] /\ calibrationEvent' = {}
     ELSE UNCHANGED <<epoch, calibrationEvent>>
  /\ wasSuppressed' = suppressed
  /\ registered' = (registered \/ (p.head /\ p.stage))
  /\ pending' = {[p EXCEPT !.press = @ /\ ~paused]}
  /\ xr' = "publish"
  /\ UNCHANGED <<faultShown, sharedVars, workerVars, historyVars>>

Frame ==
  /\ xr = "idle"
  /\ \E f \in Frames : calibrationDown' = Held(f) /\ Read(Pending(f))

FrameAfterMenu ==
  /\ xr = "menu"
  /\ \E p \in pending : Read(p)
  /\ UNCHANGED calibrationDown

\* CaptureCalibration, of the frame being published.
Captures(p, frame) == p.press /\ ValidFullInput(frame) /\ frame.trigger = "low"

\* The frame is published, and with it a press with this frame's epochs.
Publish ==
  /\ xr = "publish"
  /\ \E p \in pending :
       LET frame == [tracked |-> p.tracked, trigger |-> p.trigger,
                     registered |-> registered, menu |-> p.menu,
                     calibration |-> epoch.calibration, reference |-> epoch.reference,
                     suspension |-> epoch.suspension, age |-> 0, event |-> calibrationEvent]
           press == [settings |-> settings, reference |-> epoch.reference,
                     suspension |-> epoch.suspension, age |-> 0]
       IN
       /\ Captures(p, frame) => epoch.calibration < MaxPresses
       /\ IF Captures(p, frame)
          THEN /\ calibrationEvent' = {press}
               /\ epoch' = [epoch EXCEPT !.calibration = @ + 1]
          ELSE UNCHANGED <<calibrationEvent, epoch>>
       /\ input' = [frame EXCEPT !.calibration = epoch'.calibration,
                                 !.event = calibrationEvent']
       /\ letGo' = \/ ValidFullInput(frame) /\ frame.trigger = "low"
                   \/ letGo /\ frame.suspension = input.suspension
       /\ xr' = IF sim.session = "faulted" /\ ~faultShown /\ p.head THEN "fault" ELSE "idle"
  /\ faultShown' = (faultShown /\ sim.session = "faulted")
  /\ pending' = {}
  /\ UNCHANGED <<calibrationDown, wasSuppressed, registered, commands, settings, workerVars,
                 late, calibratedIn, spent>>

\* The fault's menu opens.
ShowFault ==
  /\ xr = "fault" /\ Suspend(FALSE)
  /\ xr' = "idle" /\ faultShown' = TRUE
  /\ UNCHANGED <<pending, commands, settings, workerVars, late, calibratedIn, spent>>

-----------------------------------------------------------------------------
(* The worker *)

Has(command) == \E i \in DOMAIN batch.commands : batch.commands[i] = command

Copy ==
  /\ worker = "copy"
  /\ batch' = [input |-> input, settings |-> settings, commands |-> commands,
               todo |-> commands]
  /\ commands' = <<>> /\ late' = 0
  /\ worker' = IF commands = <<>> THEN "prepare" ELSE "toggle"
  /\ UNCHANGED <<xrVars, input, settings, paused, sim, arm, left, allowed,
                 letGo, calibratedIn, spent>>

Retries == sim.session = "faulted" /\ Has("reset")

\* A reset retries after a fault.
Retry ==
  /\ worker = "toggle" /\ Retries /\ sim' = NoSession
  /\ UNCHANGED <<xrVars, sharedVars, worker, batch, paused, arm, left, allowed, historyVars>>

\* Then each pause command turns the pause over, in a critical section of its own.
Toggle ==
  /\ worker = "toggle" /\ ~Retries /\ batch.todo # <<>>
  /\ LET pauses == Head(batch.todo) = "togglePause" IN
     /\ paused' = IF pauses THEN ~paused ELSE paused
     /\ arm' = IF pauses THEN Suppress(arm) ELSE arm
  /\ batch' = [batch EXCEPT !.todo = Tail(@)]
  /\ worker' = IF Len(batch.todo) > 1 THEN "toggle" ELSE "prepare"
  /\ UNCHANGED <<xrVars, sharedVars, sim, left, allowed, historyVars>>

\* The loop's locals end with it.
NextLoop == worker' = "copy" /\ batch' = NoBatch /\ allowed' = FALSE

\* There is a session, or one can be started.
Runs == sim.session = "live" \/ (sim.session = "none" /\ batch.input.registered)

NothingToRun ==
  /\ worker = "prepare" /\ ~Runs
  /\ NextLoop
  /\ UNCHANGED <<xrVars, sharedVars, paused, sim, arm, left, historyVars>>

\* The arm after the batch's reference and suspension were compared.
Interrupted(a) ==
  LET moved == IF batch.input.reference # sim.reference THEN Invalidate(a) ELSE a
  IN  IF batch.input.suspension # sim.suspension THEN Suppress(moved) ELSE moved

\* What starts or rebuilds the model drops the press it found.
PressConsumed(rebuilt) == IF rebuilt THEN batch.input.calibration ELSE sim.calibration

\* The session is started or configured, interruptions are taken over, and the
\* commands run; whether settings or a box rebuild the model is Python's answer.
Prepare ==
  /\ worker = "prepare" /\ Runs
  /\ \E configured, boxed \in BOOLEAN :
       LET rebuilt == \/ sim.session = "none"
                      \/ sim.applied # batch.settings /\ configured
                      \/ Has("reset")
                      \/ Has("box") /\ boxed
       IN
       /\ arm' = IF rebuilt THEN ResetArm ELSE Interrupted(arm)
       /\ sim' = [session |-> "live", applied |-> batch.settings,
                  calibration |-> PressConsumed(rebuilt),
                  reference |-> batch.input.reference, suspension |-> batch.input.suspension]
       /\ spent' = IF rebuilt THEN batch.input.calibration ELSE spent
  /\ worker' = "calibrate"
  /\ UNCHANGED <<xrVars, sharedVars, batch, paused, left, allowed, letGo, late, calibratedIn>>

\* The base follows a placement while the batch is current.
MovesBase == ~paused /\ ValidFullInput(batch.input) /\ ~SubstepBoundaryChanged

\* Python raises; what the session had applied counts no more.
Fault ==
  /\ sim' = [NoSession EXCEPT !.session = "faulted"]
  /\ arm' = Suppress(arm) /\ left' = 0
  /\ NextLoop
  /\ UNCHANGED <<xrVars, sharedVars, paused, historyVars>>

PrepareFails ==
  /\ worker = "prepare" /\ Runs
  /\ \/ sim.session = "none" \/ sim.applied # batch.settings
     \/ Has("reset") \/ Has("box") \/ MovesBase
  /\ Fault

\* CalibrationIsCurrent, with no command waiting.
CalibrationEligible ==
  /\ batch.input.calibration # sim.calibration
  /\ commands = <<>> /\ settings = sim.applied
  /\ ~paused /\ ValidFullInput(input)
  /\ \E e \in batch.input.event :
       /\ RecentInput(e.age) /\ e.settings = sim.applied
       /\ e.reference = input.reference /\ e.suspension = input.suspension

\* A press is consumed, used or not; then the clock says how many substeps are due.
ConsumePress ==
  /\ worker = "calibrate"
  /\ \E pose \in Poses, due \in 0..MaxSubsteps :
       /\ arm' = IF CalibrationEligible THEN Calibrate(arm, pose) ELSE arm
       /\ calibratedIn' = IF CalibrationEligible /\ pose # "unusable"
                          THEN batch.input.reference ELSE calibratedIn
       /\ left' = IF paused THEN 0 ELSE due
  /\ spent' = IF CalibrationEligible THEN batch.input.calibration ELSE spent
  /\ sim' = [sim EXCEPT !.calibration = batch.input.calibration]
  /\ IF left' = 0 THEN NextLoop ELSE worker' = "check" /\ UNCHANGED <<batch, allowed>>
  /\ UNCHANGED <<xrVars, sharedVars, paused, letGo, late>>

\* The barrier before a substep.
Check ==
  /\ worker = "check"
  /\ IF SubstepBoundaryChanged
     THEN arm' = Suppress(arm) /\ left' = 0 /\ NextLoop
     ELSE worker' = "control" /\ UNCHANGED <<arm, left, batch, allowed>>
  /\ UNCHANGED <<xrVars, sharedVars, paused, sim, historyVars>>

\* Mutant: a frame is judged by its age only when it is copied.
BatchUsableAtAnyAge ==
  batch.input.registered /\ ~batch.input.menu /\ batch.input.tracked /\ ~paused

BatchUsable == ValidFullInput(batch.input) /\ ~paused

\* Mutant: input is judged only when a control tick is due.
ControlTickWhenDue ==
  /\ worker = "control"
  /\ allowed' = BatchUsable
  /\ \/ UNCHANGED arm
     \/ \E pose \in Poses :
          arm' = Control(arm, batch.input.tracked, batch.input.trigger, allowed', pose)
  /\ worker' = "step"
  /\ UNCHANGED <<xrVars, sharedVars, batch, paused, sim, left, historyVars>>

\* The batch's input is judged again; a control tick is due in some substeps only.
ControlTick ==
  /\ worker = "control"
  /\ allowed' = BatchUsable
  /\ LET judged == IF ~allowed' /\ arm.allowed THEN Suppress(arm) ELSE arm IN
     \/ arm' = judged
     \/ \E pose \in Poses :
          arm' = Control(judged, batch.input.tracked, batch.input.trigger, allowed', pose)
  /\ worker' = "step"
  /\ UNCHANGED <<xrVars, sharedVars, batch, paused, sim, left, historyVars>>

\* The slow physics step, with the arm's targets and the gripper's permission.
Step ==
  /\ worker = "step"
  /\ left' = left - 1
  /\ late' = IF Overtaken /\ allowed THEN late + 1 ELSE late
  /\ IF left = 1 THEN NextLoop
     ELSE worker' = "check" /\ allowed' = FALSE /\ UNCHANGED batch
  /\ UNCHANGED <<xrVars, sharedVars, paused, sim, arm, letGo, calibratedIn, spent>>

StepFails == worker = "step" /\ Fault

-----------------------------------------------------------------------------
Later(age) == IF age < TooOld THEN age + 1 ELSE age

OlderEvent(event) == {[e EXCEPT !.age = Later(@)] : e \in event}

OlderFrame(f) == [f EXCEPT !.age = Later(@), !.event = OlderEvent(@)]

\* Time passes for everything that was sampled.
Elapse ==
  /\ input' = OlderFrame(input)
  /\ batch' = [batch EXCEPT !.input = OlderFrame(@)]
  /\ calibrationEvent' = OlderEvent(calibrationEvent)
  /\ UNCHANGED <<xr, pending, epoch, calibrationDown, wasSuppressed, registered, faultShown,
                 commands, settings, worker, paused, sim, arm, left, allowed, historyVars>>

XRNext ==
  \/ SuspendBetweenFrames \/ MenuCommand \/ MenuSettings \/ MenuRecenter
  \/ Frame \/ FrameAfterMenu \/ Publish \/ ShowFault

WorkerNext ==
  \/ Copy \/ Retry \/ Toggle \/ NothingToRun \/ Prepare \/ PrepareFails \/ ConsumePress
  \/ Check \/ ControlTick \/ Step \/ StepFails

BoundaryNext == XRNext \/ WorkerNext \/ Elapse

BoundarySpec == BoundaryInit /\ [][BoundaryNext]_boundaryVars
-----------------------------------------------------------------------------
(* Properties *)

Counters ==
  [suspension: 0..MaxSuspensions, reference: 0..MaxReferences, calibration: 0..MaxPresses]

InputFrames ==
  [tracked: BOOLEAN, trigger: Triggers, registered: BOOLEAN, menu: BOOLEAN,
   calibration: 0..MaxPresses, reference: 0..MaxReferences,
   suspension: 0..MaxSuspensions, age: 0..TooOld, event: Events]

\* The types; the worker is never ahead of the XR thread, nor a frame newer than
\* the counters it was published with.
BoundaryTypeOK ==
  /\ xr \in {"idle", "menu", "publish", "fault"}
  /\ pending \subseteq [tracked: BOOLEAN, stage: BOOLEAN, head: BOOLEAN, trigger: Triggers,
                        menu: BOOLEAN, press: BOOLEAN]
  /\ epoch \in Counters /\ calibrationEvent \in Events
  /\ {calibrationDown, wasSuppressed, registered, faultShown, paused, allowed} \subseteq BOOLEAN
  /\ input \in InputFrames /\ settings \in 1..MaxSettings
  /\ commands \in Seq(Commands) /\ Len(commands) <= QueueSize
  /\ worker \in {"copy", "toggle", "prepare", "calibrate", "check", "control", "step"}
  /\ batch.input \in InputFrames /\ batch.settings \in 0..settings
  /\ sim.session \in {"none", "live", "faulted"} /\ sim.applied \in 0..settings
  /\ batch.input.suspension <= input.suspension /\ sim.suspension <= input.suspension
  /\ input.suspension <= epoch.suspension
  /\ arm \in Arms /\ left \in 0..MaxSubsteps

\* After an interruption that the XR thread counted, however short and whatever
\* the worker was doing meanwhile, a physics step follows the hand only if the
\* trigger was seen released since, in a usable frame.
ArmNeedsRelease ==
  worker = "step" /\ arm.engaged /\ ~SubstepBoundaryChanged => letGo

\* The same for closing the gripper.
GripperNeedsRelease ==
  worker = "step" /\ GripperInputAllowed => letGo

\* No physics step follows a hand whose frame was too old, untracked or
\* unregistered when the substep began, control tick due or not.
StaleInputNeverDrives ==
  worker = "step" /\ arm.engaged => allowed

\* After an interruption, a press, a command or a new setting at most the substep
\* under way still follows the hand.
OneLateSubstep == late <= 1

\* A physics step uses a calibration only in the reference space it was made in.
CalibratedInReference ==
  worker = "step" /\ arm.calibrated => calibratedIn = sim.reference

\* A calibration press is used once, and not at all after a reset that found it.
PressUsedOnce ==
  worker = "calibrate" /\ CalibrationEligible => batch.input.calibration > spent

\* After an interruption neither the arm nor the gripper goes on without a release.
HandMustLetGo == ArmNeedsRelease /\ GripperNeedsRelease

\* What a batch was copied from stays good enough for each of its substeps.
BoundaryInv ==
  /\ BoundaryTypeOK
  /\ OneLateSubstep
  /\ CalibratedInReference
  /\ PressUsedOnce

-----------------------------------------------------------------------------
(* Liveness *)

\* UpdateFullRuntime returns; the worker loops; wall time passes, so that the
\* clock finds substeps due again and again.
BoundaryFairness ==
  /\ WF_boundaryVars(FrameAfterMenu) /\ WF_boundaryVars(Publish)
  /\ WF_boundaryVars(WorkerNext)
  /\ SF_boundaryVars(ConsumePress /\ left' > 0)

\* A hand whose input ended, by a loss or by frames that stop coming, lets go of the arm.
LostHandLetsGo ==
  arm.engaged /\ ~ValidFullInput(input) ~> ~arm.engaged \/ ValidFullInput(input)

\* An interruption lets go of the arm, even if the hand is back at once.
InterruptionLetsGo ==
  arm.engaged /\ sim.suspension # input.suspension ~> ~arm.engaged

\* Whatever ends the hand's input, the arm is let go of.
HandLetsGo == LostHandLetsGo /\ InterruptionLetsGo
=============================================================================
