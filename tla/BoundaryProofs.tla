---------------------------- MODULE BoundaryProofs ----------------------------
(***************************************************************************)
(* Proofs about SimulationBoundary, for every age limit, queue, number of  *)
(* substeps and of interruptions: whatever the XR thread publishes while   *)
(* the worker is in Python, an interrupted hand does not go on without a   *)
(* release, and no old frame drives the arm.                               *)
(*                                                                         *)
(* None of the properties is inductive, as each looks at the worker in the *)
(* physics step only. ReleaseInv says for what the worker remembers of a   *)
(* hand (the arm's flags, the frame and the press of its batch) that it is *)
(* either of an older interruption than the newest frame or was preceded   *)
(* by a release; WorkInv, what the steps of a batch have established;      *)
(* OrderInv, that counters only grow from the worker to the XR thread, so  *)
(* that a batch once overtaken stays so.                                   *)
(***************************************************************************)
EXTENDS SimulationBoundary, TLAPS

(***************************************************************************)
(* The inductive invariants                                                *)
(***************************************************************************)
PendingFrames ==
    [tracked: BOOLEAN, stage: BOOLEAN, head: BOOLEAN, trigger: Triggers, menu: BOOLEAN,
     press: BOOLEAN]
Batches == [input: InputFrames, settings: 0..MaxSettings, commands: Seq(Commands),
            todo: Seq(Commands)]
Sessions ==
    [session: {"none", "live", "faulted"}, applied: 0..MaxSettings,
     calibration: 0..MaxPresses, reference: 0..MaxReferences, suspension: 0..MaxSuspensions]

TypesInv ==
    /\ xr \in {"idle", "menu", "publish", "fault"} /\ pending \in SUBSET PendingFrames
    /\ epoch \in Counters /\ calibrationEvent \in Events
    /\ calibrationDown \in BOOLEAN /\ wasSuppressed \in BOOLEAN
    /\ registered \in BOOLEAN /\ faultShown \in BOOLEAN
    /\ input \in InputFrames /\ settings \in 1..MaxSettings
    /\ commands \in Seq(Commands) /\ Len(commands) <= QueueSize
    /\ worker \in {"copy", "toggle", "prepare", "calibrate", "check", "control", "step"}
    /\ batch \in Batches /\ paused \in BOOLEAN /\ sim \in Sessions
    /\ arm \in Arms /\ left \in 0..MaxSubsteps /\ allowed \in BOOLEAN
    /\ worker \in {"check", "control", "step"} => left >= 1
    /\ letGo \in BOOLEAN /\ late \in Nat
    /\ calibratedIn \in 0..MaxReferences /\ spent \in 0..MaxPresses

\* The counters of one place are not ahead of those of another.
Precedes(f, g) ==
    f.suspension <= g.suspension /\ f.reference <= g.reference /\ f.calibration <= g.calibration

OrderInv ==
    /\ Precedes(batch.input, input) /\ Precedes(input, epoch) /\ Precedes(sim, input)
    /\ batch.settings <= settings /\ sim.applied <= settings

\* A frame of a hand that has let go, however old.
LowHand(f) == f.registered /\ ~f.menu /\ f.tracked /\ f.trigger = "low"

\* A press was captured with the trigger low.
PressesLetGo(events) ==
    \A e \in events :
        e.suspension <= input.suspension /\ (e.suspension = input.suspension => letGo)

\* The arm follows the hand or may, or the gripper may close.
Remembers(a) == a.engaged \/ a.released \/ a.rearmed

ReleaseInv ==
    /\ LowHand(input) => letGo
    /\ LowHand(batch.input) /\ batch.input.suspension = input.suspension => letGo
    /\ PressesLetGo(calibrationEvent) /\ PressesLetGo(input.event)
    /\ PressesLetGo(batch.input.event)
    /\ Remembers(arm) =>
         sim.session = "live" /\ (sim.suspension = input.suspension => letGo)

WorkInv ==
    /\ worker \in {"calibrate", "check", "control", "step"} =>
         /\ sim.session = "live" /\ sim.applied = batch.settings
         /\ sim.reference = batch.input.reference /\ sim.suspension = batch.input.suspension
    /\ worker # "copy" => sim.calibration <= batch.input.calibration
    /\ arm.engaged => arm.allowed
    /\ worker = "step" /\ arm.engaged => allowed
    /\ sim.session = "live" /\ arm.calibrated => calibratedIn = sim.reference
    /\ sim.session = "live" => spent <= sim.calibration

\* One substep follows an overtaken batch: the next check ends it.
LateInv ==
    /\ late <= 1
    /\ worker \notin {"copy", "check"} => late = 0
    /\ worker = "check" /\ late = 1 => Overtaken

(***************************************************************************)
(* The arm                                                                 *)
(***************************************************************************)
LEMMA ArmIsSuppressed ==
    ASSUME NEW a \in Arms
    PROVE  /\ Suppress(a) \in Arms /\ ~Remembers(Suppress(a))
           /\ Suppress(a).calibrated = a.calibrated
           /\ Invalidate(a) \in Arms /\ ~Remembers(Invalidate(a)) /\ ~Invalidate(a).calibrated
           /\ ResetArm \in Arms /\ ~Remembers(ResetArm) /\ ~ResetArm.calibrated
  BY DEF Suppress, Barred, Disengage, Invalidate, ResetArm, Arms, Remembers

\* A calibration lets go of the arm and needs usable poses.
LEMMA ArmIsCalibrated ==
    ASSUME NEW a \in Arms, NEW pose
    PROVE  /\ Calibrate(a, pose) \in Arms /\ ~Calibrate(a, pose).engaged
           /\ pose = "unusable" => Calibrate(a, pose).calibrated = a.calibrated
           /\ Calibrate(a, pose).rearmed = a.rearmed
  BY DEF Calibrate, Disengage, Arms

\* A control tick: the arm follows only an allowed hand, and remembers nothing that it
\* did not remember before unless the allowed trigger is low.
LEMMA ArmIsControlled ==
    ASSUME NEW a \in Arms, NEW tracked \in BOOLEAN, NEW trigger \in Triggers,
           NEW usable \in BOOLEAN, NEW pose \in Poses
    PROVE  LET r == Control(a, tracked, trigger, usable, pose) IN
           /\ r \in Arms /\ r.allowed = usable /\ (r.engaged => usable)
           /\ r.calibrated = a.calibrated
           /\ Remembers(r) => Remembers(a) \/ (usable /\ trigger = "low")
<1> DEFINE b == IF ~usable /\ a.allowed THEN Suppress(a) ELSE a
           m == MapInput(b, tracked /\ usable, trigger, pose)
<1>1. b \in Arms /\ b.calibrated = a.calibrated /\ (Remembers(b) => Remembers(a))
  BY ArmIsSuppressed
<1>2. /\ m \in Arms /\ m.calibrated = b.calibrated
      /\ m.engaged => usable
      /\ m.engaged \/ m.released => b.engaged \/ b.released \/ (usable /\ trigger = "low")
      /\ m.rearmed = b.rearmed
  <2> HIDE DEF b
  <2> USE <1>1 DEF Arms, Triggers, Poses
  <2>1. CASE ~(tracked /\ usable) \/ pose = "unusable"
    BY <2>1 DEF MapInput, Disengage
  <2>2. CASE tracked /\ usable /\ pose # "unusable"
    BY <2>2 DEF MapInput, Disengage
  <2> QED
    BY <2>1, <2>2
<1>3. Control(a, tracked, trigger, usable, pose)
        = [m EXCEPT !.allowed = usable, !.rearmed = @ \/ (usable /\ trigger = "low")]
  BY DEF Control
<1> HIDE DEF b, m
<1> QED
  BY <1>1, <1>2, <1>3 DEF Arms, Remembers

(***************************************************************************)
(* Frames, presses and their age                                           *)
(***************************************************************************)
\* Growing older changes nothing but the age.
LEMMA OlderPress ==
    ASSUME NEW events \in Events
    PROVE  /\ OlderEvent(events) \in Events
           /\ \A e \in OlderEvent(events) : \E d \in events : e.suspension = d.suspension
<1>1. CASE events = {}
  BY <1>1 DEF OlderEvent, Events
<1>2. CASE events # {}
  <2>1. PICK d \in [settings: 1..MaxSettings, reference: 0..MaxReferences,
                    suspension: 0..MaxSuspensions, age: 0..TooOld] : events = {d}
    BY <1>2 DEF Events
  <2> DEFINE e == [d EXCEPT !.age = Later(@)]
  <2>2. Later(d.age) \in 0..TooOld
    BY <2>1, BoundaryAssumption DEF Later, TooOld
  <2>3. /\ e \in [settings: 1..MaxSettings, reference: 0..MaxReferences,
                  suspension: 0..MaxSuspensions, age: 0..TooOld]
        /\ e.suspension = d.suspension
    BY <2>2
  <2>4. OlderEvent(events) = {e}
    BY <2>1 DEF OlderEvent
  <2> HIDE DEF e
  <2> QED
    BY <2>1, <2>3, <2>4 DEF Events
<1> QED
  BY <1>1, <1>2

\* So does a frame with its press.
LEMMA OlderInput ==
    ASSUME NEW f \in InputFrames
    PROVE  /\ OlderFrame(f) \in InputFrames
           /\ LowHand(OlderFrame(f)) <=> LowHand(f)
           /\ OlderFrame(f).suspension = f.suspension /\ OlderFrame(f).reference = f.reference
           /\ OlderFrame(f).calibration = f.calibration
           /\ OlderFrame(f).event = OlderEvent(f.event)
<1>1. Later(f.age) \in 0..TooOld /\ OlderEvent(f.event) \in Events
  BY OlderPress, BoundaryAssumption DEF Later, TooOld, InputFrames
<1> QED
  BY <1>1 DEF OlderFrame, InputFrames, LowHand

\* A command done leaves a batch with the others.
LEMMA RestIsTodo ==
    ASSUME NEW b \in Batches, b.todo # <<>>
    PROVE  LET rest == [b EXCEPT !.todo = Tail(@)] IN
           rest \in Batches /\ rest.input = b.input /\ rest.settings = b.settings
<1>1. b.todo \in Seq(Commands)
  BY DEF Batches
<1>2. Tail(b.todo) \in Seq(Commands)
  BY <1>1
<1> QED
  BY <1>2 DEF Batches

\* A fresh loop has copied nothing yet.
LEMMA NothingCopied ==
    /\ NoFrame \in InputFrames /\ NoBatch \in Batches /\ NoSession \in Sessions
    /\ NoBatch.input.event = {} /\ ~LowHand(NoBatch.input) /\ NoBatch.settings = 0
    /\ NoBatch.input.suspension = 0 /\ NoBatch.input.reference = 0
    /\ NoBatch.input.calibration = 0
<1> USE BoundaryAssumption
<1>1. NoFrame \in InputFrames
  BY DEF NoFrame, InputFrames, Triggers, Events, TooOld
<1>2. <<>> \in Seq(Commands)
  OBVIOUS
<1>3. NoSession \in Sessions
  BY DEF NoSession, Sessions
<1> QED
  BY <1>1, <1>2, <1>3 DEF NoBatch, Batches, NoFrame, LowHand

(***************************************************************************)
(* Types                                                                   *)
(***************************************************************************)
LEMMA SuspendTypes ==
    ASSUME TypesInv, NEW changed \in BOOLEAN, Suspend(changed)
    PROVE  /\ epoch' \in Counters /\ calibrationEvent' \in Events
           /\ calibrationDown' \in BOOLEAN /\ wasSuppressed' \in BOOLEAN
           /\ registered' \in BOOLEAN /\ letGo' \in BOOLEAN /\ input' \in InputFrames
<1> USE BoundaryAssumption DEF TypesInv
<1>1. epoch' \in Counters
  <2> USE DEF Counters
  <2>0. epoch.suspension \in 0..MaxSuspensions /\ epoch.reference \in 0..MaxReferences
    BY DEF TypesInv
  <2> HIDE DEF TypesInv
  <2>1. epoch.suspension + 1 \in 0..MaxSuspensions
    BY <2>0 DEF Suspend
  <2>9. epoch \in Counters
    BY DEF TypesInv
  <2>2. CASE changed
    <3>1. epoch.reference + 1 \in 0..MaxReferences
      BY <2>0, <2>2 DEF Suspend
    <3>2. epoch' = [epoch EXCEPT !.suspension = @ + 1, !.reference = @ + 1]
      BY <2>2 DEF Suspend
    <3> QED
      BY <2>1, <2>9, <3>1, <3>2
  <2>3. CASE ~changed
    <3>1. epoch' = [epoch EXCEPT !.suspension = @ + 1]
      BY <2>3 DEF Suspend
    <3> QED
      BY <2>1, <2>9, <3>1
  <2> QED
    BY <2>2, <2>3
<1>2. {} \in Events
  BY DEF Events
<1>3. epoch'.suspension \in 0..MaxSuspensions /\ epoch'.reference \in 0..MaxReferences
  BY <1>1 DEF Counters
<1>4. input' = [input EXCEPT !.tracked = FALSE, !.event = {},
                             !.suspension = epoch'.suspension,
                             !.reference = epoch'.reference,
                             !.registered = @ /\ ~changed]
  BY DEF Suspend
<1>5. input' \in InputFrames
  BY <1>2, <1>3, <1>4 DEF InputFrames
<1> QED
  BY <1>1, <1>2, <1>5 DEF Suspend

\* A frame is judged and taken over.
LEMMA ReadTypes ==
    ASSUME TypesInv, NEW p \in PendingFrames, Read(p)
    PROVE  /\ epoch' \in Counters /\ calibrationEvent' \in Events
           /\ wasSuppressed' \in BOOLEAN /\ registered' \in BOOLEAN
           /\ pending' \in SUBSET PendingFrames
<1> USE BoundaryAssumption DEF TypesInv
<1>1. epoch' \in Counters
  <2> USE DEF Counters
  <2>1. \/ epoch' = epoch
        \/ epoch.suspension < MaxSuspensions /\ epoch' = [epoch EXCEPT !.suspension = @ + 1]
    BY DEF Read
  <2>2. epoch.suspension < MaxSuspensions => epoch.suspension + 1 \in 0..MaxSuspensions
    OBVIOUS
  <2>3. CASE epoch' = epoch
    BY <2>3
  <2>4. CASE epoch.suspension < MaxSuspensions /\ epoch' = [epoch EXCEPT !.suspension = @ + 1]
    BY <2>2, <2>4
  <2> QED
    BY <2>1, <2>3, <2>4
<1>2. calibrationEvent' \in Events
  BY DEF Read, Interrupts, Events
<1>3. [p EXCEPT !.press = @ /\ ~paused] \in PendingFrames
  BY DEF PendingFrames
<1>4. wasSuppressed' \in BOOLEAN /\ registered' \in BOOLEAN
  BY DEF Read, PendingFrames
<1> QED
  BY <1>1, <1>2, <1>3, <1>4 DEF Read

\* Taking a frame over keeps every type.
LEMMA ReadKeepsTypes ==
    ASSUME TypesInv, NEW p \in PendingFrames, Read(p), calibrationDown' \in BOOLEAN
    PROVE  TypesInv'
<1>1. /\ xr' = "publish"
      /\ UNCHANGED <<faultShown, input, commands, settings, worker, batch, paused, sim, arm,
                     left, allowed, letGo, late, calibratedIn, spent>>
  BY DEF Read, sharedVars, workerVars, historyVars
<1>2. /\ epoch' \in Counters /\ calibrationEvent' \in Events
      /\ wasSuppressed' \in BOOLEAN /\ registered' \in BOOLEAN
      /\ pending' \in SUBSET PendingFrames
  BY ReadTypes
<1> QED
  BY <1>1, <1>2 DEF TypesInv

\* A frame keeps its types when it is taken over, and when it is published.
LEMMA FrameIsPending ==
    ASSUME TypesInv, NEW f \in Frames
    PROVE  Pending(f) \in PendingFrames /\ Held(f) \in BOOLEAN
  BY BoundaryAssumption DEF TypesInv, Pending, PendingFrames, Held, HeadsetFrames

\* A frame is published with the counters of its time.
LEMMA PublishTypes ==
    ASSUME TypesInv, Publish
    PROVE  /\ epoch' \in Counters /\ calibrationEvent' \in Events
           /\ input' \in InputFrames /\ letGo' \in BOOLEAN
           /\ xr' \in {"idle", "fault"} /\ faultShown' \in BOOLEAN
<1> USE BoundaryAssumption DEF TypesInv
<1> DEFINE frame(p) ==
             [tracked |-> p.tracked, trigger |-> p.trigger, registered |-> registered,
              menu |-> p.menu, calibration |-> epoch.calibration,
              reference |-> epoch.reference, suspension |-> epoch.suspension, age |-> 0,
              event |-> calibrationEvent]
           press == [settings |-> settings, reference |-> epoch.reference,
                     suspension |-> epoch.suspension, age |-> 0]
<1>1. PICK p \in pending :
        /\ Captures(p, frame(p)) => epoch.calibration < MaxPresses
        /\ IF Captures(p, frame(p))
           THEN /\ calibrationEvent' = {press}
                /\ epoch' = [epoch EXCEPT !.calibration = @ + 1]
           ELSE UNCHANGED <<calibrationEvent, epoch>>
        /\ input' = [frame(p) EXCEPT !.calibration = epoch'.calibration,
                                     !.event = calibrationEvent']
        /\ letGo' = \/ ValidFullInput(frame(p)) /\ frame(p).trigger = "low"
                    \/ letGo /\ frame(p).suspension = input.suspension
        /\ xr' = IF sim.session = "faulted" /\ ~faultShown /\ p.head THEN "fault" ELSE "idle"
  BY DEF Publish
<1>2. press \in [settings: 1..MaxSettings, reference: 0..MaxReferences,
                 suspension: 0..MaxSuspensions, age: 0..TooOld]
  BY DEF Counters, TooOld
<1>3. frame(p) \in InputFrames
  <2>1. p \in PendingFrames /\ 0 \in 0..TooOld
    BY <1>1 DEF TooOld
  <2>2. /\ p.tracked \in BOOLEAN /\ p.trigger \in Triggers /\ p.menu \in BOOLEAN
        /\ epoch.calibration \in 0..MaxPresses /\ epoch.reference \in 0..MaxReferences
        /\ epoch.suspension \in 0..MaxSuspensions
    BY <2>1 DEF PendingFrames, Counters
  <2> QED
    BY <2>1, <2>2 DEF InputFrames
<1>4. {press} \in Events
  BY <1>2 DEF Events
<1> HIDE DEF press, frame
<1>5. epoch' \in Counters /\ calibrationEvent' \in Events
  <2>1. CASE Captures(p, frame(p))
    <3>1. epoch.calibration + 1 \in 0..MaxPresses
      <4>1. epoch.calibration \in 0..MaxPresses
        BY DEF Counters
      <4>2. epoch.calibration < MaxPresses
        BY <1>1, <2>1
      <4> QED
        BY <4>1, <4>2
    <3> QED
      BY <1>1, <1>4, <2>1, <3>1 DEF Counters
  <2> QED
    BY <1>1, <2>1
<1>6. input' \in InputFrames
  BY <1>1, <1>3, <1>5 DEF InputFrames, Counters
<1>7. letGo' \in BOOLEAN /\ xr' \in {"idle", "fault"}
  BY <1>1
<1>8. faultShown' \in BOOLEAN
  BY DEF Publish
<1> QED
  BY <1>5, <1>6, <1>7, <1>8

\* Every step keeps the types.
LEMMA TypesStep == TypesInv /\ [BoundaryNext]_boundaryVars => TypesInv'
<1> SUFFICES ASSUME TypesInv, [BoundaryNext]_boundaryVars PROVE TypesInv'
  OBVIOUS
<1> USE BoundaryAssumption DEF xrVars, sharedVars, workerVars, historyVars
<1>1. CASE UNCHANGED boundaryVars
  BY <1>1 DEF TypesInv, boundaryVars
<1>2. CASE SuspendBetweenFrames
  <2>1. PICK changed \in BOOLEAN : Suspend(changed)
    BY <1>2 DEF SuspendBetweenFrames
  <2> QED
    BY <1>2, <2>1, SuspendTypes DEF SuspendBetweenFrames, TypesInv
<1>3. CASE MenuCommand
  <2>1. PICK f \in Frames : MenuFrame(f) /\ calibrationDown' = Held(f)
    BY <1>3 DEF MenuCommand
  <2>2. PICK c \in Commands : commands' = Append(commands, c)
    BY <1>3 DEF MenuCommand
  <2>3. commands' \in Seq(Commands) /\ Len(commands') <= QueueSize
    BY <1>3, <2>2 DEF MenuCommand, TypesInv
  <2> QED
    BY <1>3, <2>1, <2>3, FrameIsPending DEF MenuCommand, MenuFrame, TypesInv
<1>4. CASE MenuSettings
  <2>1. PICK f \in Frames : MenuFrame(f) /\ calibrationDown' \in {Held(f), TRUE}
    BY <1>4 DEF MenuSettings
  <2>2. settings' \in 1..MaxSettings
    BY <1>4 DEF MenuSettings, TypesInv
  <2>3. calibrationDown' \in BOOLEAN /\ pending' \in SUBSET PendingFrames /\ xr' = "menu"
    BY <2>1, FrameIsPending DEF MenuFrame
  <2> QED
    BY <1>4, <2>2, <2>3 DEF MenuSettings, TypesInv
<1>5. CASE MenuRecenter
  <2>1. PICK f \in Frames : MenuFrame(f)
    BY <1>5 DEF MenuRecenter
  <2>2. Suspend(TRUE)
    BY <1>5 DEF MenuRecenter
  <2> QED
    BY <1>5, <2>1, <2>2, FrameIsPending, SuspendTypes DEF MenuRecenter, MenuFrame, TypesInv
<1>6. CASE Frame
  <2>1. PICK f \in Frames : calibrationDown' = Held(f) /\ Read(Pending(f))
    BY <1>6 DEF Frame
  <2>2. Pending(f) \in PendingFrames /\ calibrationDown' \in BOOLEAN
    BY <2>1, FrameIsPending
  <2> QED
    BY <2>1, <2>2, ReadKeepsTypes
<1>7. CASE FrameAfterMenu
  <2>1. PICK p \in pending : Read(p)
    BY <1>7 DEF FrameAfterMenu
  <2>2. p \in PendingFrames
    BY DEF TypesInv
  <2>3. calibrationDown' \in BOOLEAN
    BY <1>7 DEF FrameAfterMenu, TypesInv
  <2> QED
    BY <2>1, <2>2, <2>3, ReadKeepsTypes
<1>8. CASE Publish
  <2>1. /\ pending' = {}
        /\ UNCHANGED <<calibrationDown, wasSuppressed, registered, commands, settings, worker,
                       batch, paused, sim, arm, left, allowed, late, calibratedIn, spent>>
    BY <1>8 DEF Publish
  <2>2. pending' \in SUBSET PendingFrames
    BY <2>1
  <2> QED
    BY <1>8, <2>1, <2>2, PublishTypes DEF TypesInv
<1>9. CASE ShowFault
  BY <1>9, SuspendTypes DEF ShowFault, TypesInv
<1>10. CASE Copy
  <2>1. batch' = [input |-> input, settings |-> settings, commands |-> commands,
                  todo |-> commands]
    BY <1>10 DEF Copy
  <2>2. batch' \in Batches
    BY <2>1 DEF Batches, TypesInv
  <2>3. commands' \in Seq(Commands) /\ Len(commands') <= QueueSize
    BY <1>10 DEF Copy
  <2> QED
    BY <1>10, <2>2, <2>3 DEF Copy, TypesInv
<1>11. CASE Toggle
  <2>1. arm' \in Arms /\ paused' \in BOOLEAN
    BY <1>11, ArmIsSuppressed DEF Toggle, TypesInv
  <2>2. batch' \in Batches
    BY <1>11, RestIsTodo DEF Toggle, TypesInv
  <2> QED
    BY <1>11, <2>1, <2>2 DEF Toggle, TypesInv
<1>20. CASE Retry
  BY <1>20, NothingCopied DEF Retry, TypesInv
<1>12. CASE NothingToRun
  BY <1>12, NothingCopied DEF NothingToRun, NextLoop, TypesInv
<1>13. CASE Prepare
  <2>1. PICK rebuilt \in BOOLEAN :
          /\ arm' = IF rebuilt THEN ResetArm ELSE Interrupted(arm)
          /\ sim' = [session |-> "live", applied |-> batch.settings,
                     calibration |-> PressConsumed(rebuilt),
                     reference |-> batch.input.reference,
                     suspension |-> batch.input.suspension]
          /\ spent' = IF rebuilt THEN batch.input.calibration ELSE spent
    BY <1>13 DEF Prepare
  <2>2. arm' \in Arms
    BY <2>1, ArmIsSuppressed DEF Interrupted, TypesInv
  <2>3. sim' \in Sessions
    BY <2>1 DEF PressConsumed, Sessions, Batches, InputFrames, TypesInv
  <2>4. spent' \in 0..MaxPresses
    BY <2>1 DEF Batches, InputFrames, TypesInv
  <2> QED
    BY <1>13, <2>2, <2>3, <2>4 DEF Prepare, TypesInv
<1>14. CASE PrepareFails \/ StepFails
  <2>1. Fault
    BY <1>14 DEF PrepareFails, StepFails
  <2>2. [NoSession EXCEPT !.session = "faulted"] \in Sessions
    BY DEF NoSession, Sessions
  <2>3. arm' \in Arms /\ left' \in 0..MaxSubsteps /\ sim' \in Sessions
    BY <2>1, <2>2, ArmIsSuppressed DEF Fault, TypesInv
  <2>4. worker' = "copy" /\ batch' \in Batches /\ allowed' \in BOOLEAN
    BY <2>1, NothingCopied DEF Fault, NextLoop
  <2> QED
    BY <2>1, <2>3, <2>4 DEF Fault, TypesInv
<1>15. CASE ConsumePress
  <2>1. PICK pose \in Poses, due \in 0..MaxSubsteps :
          /\ arm' = IF CalibrationEligible THEN Calibrate(arm, pose) ELSE arm
          /\ calibratedIn' = IF CalibrationEligible /\ pose # "unusable"
                             THEN batch.input.reference ELSE calibratedIn
          /\ left' = IF paused THEN 0 ELSE due
    BY <1>15 DEF ConsumePress
  <2>2. arm' \in Arms
    BY <2>1, ArmIsCalibrated DEF TypesInv
  <2>3. calibratedIn' \in 0..MaxReferences /\ left' \in 0..MaxSubsteps
    BY <2>1 DEF TypesInv, Batches, InputFrames
  <2>4. spent' \in 0..MaxPresses /\ sim' \in Sessions
    BY <1>15 DEF ConsumePress, TypesInv, Batches, InputFrames, Sessions
  <2>5. /\ worker' \in {"copy", "check"} /\ batch' \in Batches /\ allowed' \in BOOLEAN
        /\ worker' = "check" => left' # 0
    BY <1>15, NothingCopied DEF ConsumePress, NextLoop, TypesInv
  <2>6. worker' \in {"check", "control", "step"} => left' >= 1
    BY <2>3, <2>5
  <2>7. UNCHANGED <<xr, pending, epoch, calibrationEvent, calibrationDown, wasSuppressed,
                    registered, faultShown, input, commands, settings, paused, letGo, late>>
    BY <1>15 DEF ConsumePress
  <2> QED
    BY <2>2, <2>3, <2>4, <2>5, <2>6, <2>7 DEF TypesInv
<1>16. CASE Check
  <2>1. arm' \in Arms /\ left' \in 0..MaxSubsteps
    BY <1>16, ArmIsSuppressed DEF Check, TypesInv
  <2>2. /\ worker' \in {"copy", "control"} /\ batch' \in Batches /\ allowed' \in BOOLEAN
        /\ worker' = "control" => left' >= 1
    BY <1>16, NothingCopied DEF Check, NextLoop, TypesInv
  <2> QED
    BY <1>16, <2>1, <2>2 DEF Check, TypesInv
<1>17. CASE ControlTick
  <2>1. allowed' \in BOOLEAN
    BY <1>17 DEF ControlTick, BatchUsable, ValidFullInput, TypesInv, Batches, InputFrames
  <2>2. arm' \in Arms
    <3> DEFINE judged == IF ~allowed' /\ arm.allowed THEN Suppress(arm) ELSE arm
    <3>1. judged \in Arms
      BY ArmIsSuppressed DEF TypesInv
    <3>2. \/ arm' = judged
          \/ \E pose \in Poses :
               arm' = Control(judged, batch.input.tracked, batch.input.trigger, allowed', pose)
      BY <1>17 DEF ControlTick
    <3>3. batch.input.tracked \in BOOLEAN /\ batch.input.trigger \in Triggers
      BY DEF TypesInv, Batches, InputFrames
    <3> HIDE DEF judged
    <3> QED
      BY <2>1, <3>1, <3>2, <3>3, ArmIsControlled
  <2> QED
    BY <1>17, <2>1, <2>2 DEF ControlTick, TypesInv
<1>18. CASE Step
  <2>1. left' \in 0..MaxSubsteps /\ (left # 1 => left' >= 1)
    <3>1. left \in 0..MaxSubsteps /\ left >= 1 /\ left' = left - 1
      BY <1>18 DEF Step, TypesInv
    <3> QED
      BY <3>1
  <2>2. late' \in Nat
    BY <1>18 DEF Step, TypesInv
  <2> QED
    BY <1>18, <2>1, <2>2, NothingCopied DEF Step, NextLoop, TypesInv
<1>19. CASE Elapse
  <2>1. input' \in InputFrames /\ calibrationEvent' \in Events
    BY <1>19, OlderInput, OlderPress DEF Elapse, TypesInv
  <2>2. batch' \in Batches
    BY <1>19, OlderInput DEF Elapse, TypesInv, Batches
  <2> QED
    BY <1>19, <2>1, <2>2 DEF Elapse, TypesInv
<1> QED
  BY <1>1, <1>2, <1>3, <1>4, <1>5, <1>6, <1>7, <1>8, <1>9, <1>10, <1>11, <1>12, <1>13,
     <1>14, <1>15, <1>16, <1>17, <1>18, <1>19, <1>20 DEF BoundaryNext, XRNext, WorkerNext

(***************************************************************************)
(* What the XR thread does to the worker's world                           *)
(***************************************************************************)
\* An interruption is newer than anything the worker has.
LEMMA SuspendOutdates ==
    ASSUME TypesInv, OrderInv, NEW changed \in BOOLEAN, Suspend(changed)
    PROVE  /\ Precedes(input, input') /\ Precedes(input', epoch')
           /\ input.suspension < input'.suspension
           /\ ~LowHand(input') /\ input'.event = {} /\ calibrationEvent' = {}
<1> USE DEF TypesInv, OrderInv, Precedes
<1>1. /\ epoch.suspension \in Nat /\ epoch.reference \in Nat /\ epoch.calibration \in Nat
      /\ input.suspension \in Nat /\ input.reference \in Nat /\ input.calibration \in Nat
  BY DEF Counters, InputFrames
<1>2. /\ epoch'.suspension = epoch.suspension + 1 /\ epoch'.calibration = epoch.calibration
      /\ epoch'.reference \in {epoch.reference, epoch.reference + 1}
  BY DEF Suspend, Counters
<1>3. /\ input'.tracked = FALSE /\ input'.event = {} /\ input'.calibration = input.calibration
      /\ input'.suspension = epoch'.suspension /\ input'.reference = epoch'.reference
  BY DEF Suspend, InputFrames
<1>4. calibrationEvent' = {}
  BY DEF Suspend
<1>5. Precedes(input, epoch)
  BY DEF OrderInv
<1> HIDE DEF TypesInv, OrderInv
<1>6. Precedes(input, input') /\ input.suspension < input'.suspension
  BY <1>1, <1>2, <1>3, <1>5
<1>7. Precedes(input', epoch')
  BY <1>1, <1>2, <1>3, <1>5
<1>8. ~LowHand(input')
  BY <1>3 DEF LowHand
<1> QED
  BY <1>3, <1>4, <1>6, <1>7, <1>8

\* Reading a frame changes at most the counter of interruptions.
LEMMA ReadKeepsOrder ==
    ASSUME TypesInv, OrderInv, NEW p, Read(p)
    PROVE  /\ UNCHANGED <<sharedVars, workerVars, historyVars>>
           /\ Precedes(input, epoch')
           /\ calibrationEvent' \in {calibrationEvent, {}}
<1>1. /\ UNCHANGED <<sharedVars, workerVars, historyVars>>
      /\ calibrationEvent' \in {calibrationEvent, {}}
      /\ epoch' = epoch \/ epoch' = [epoch EXCEPT !.suspension = @ + 1]
  BY DEF Read
<1>2. /\ epoch'.suspension \in {epoch.suspension, epoch.suspension + 1}
      /\ epoch'.reference = epoch.reference /\ epoch'.calibration = epoch.calibration
  BY <1>1 DEF TypesInv, Counters
<1>3. /\ epoch.suspension \in Nat /\ input.suspension \in Nat
  BY DEF TypesInv, Counters, InputFrames
<1> QED
  BY <1>1, <1>2, <1>3 DEF OrderInv, Precedes

\* A published frame has the newest counters, and a release or a press in it is known.
LEMMA PublishKeepsPromises ==
    ASSUME TypesInv, OrderInv, ReleaseInv, Publish
    PROVE  /\ Precedes(input, input') /\ Precedes(input', epoch')
           /\ input'.suspension = epoch.suspension
           /\ input'.suspension = input.suspension => (letGo => letGo')
           /\ LowHand(input') => letGo'
           /\ input'.event = calibrationEvent'
           /\ \/ calibrationEvent' = calibrationEvent
              \/ letGo' /\ \A e \in calibrationEvent' : e.suspension = input'.suspension
<1> USE BoundaryAssumption
<1> DEFINE frame(p) ==
             [tracked |-> p.tracked, trigger |-> p.trigger, registered |-> registered,
              menu |-> p.menu, calibration |-> epoch.calibration,
              reference |-> epoch.reference, suspension |-> epoch.suspension, age |-> 0,
              event |-> calibrationEvent]
           press == [settings |-> settings, reference |-> epoch.reference,
                     suspension |-> epoch.suspension, age |-> 0]
<1>1. PICK p \in pending :
        /\ IF Captures(p, frame(p))
           THEN /\ calibrationEvent' = {press}
                /\ epoch' = [epoch EXCEPT !.calibration = @ + 1]
           ELSE UNCHANGED <<calibrationEvent, epoch>>
        /\ input' = [frame(p) EXCEPT !.calibration = epoch'.calibration,
                                     !.event = calibrationEvent']
        /\ letGo' = \/ ValidFullInput(frame(p)) /\ frame(p).trigger = "low"
                    \/ letGo /\ frame(p).suspension = input.suspension
  BY DEF Publish
<1>2. /\ input'.suspension = epoch.suspension /\ input'.reference = epoch.reference
      /\ input'.calibration = epoch'.calibration /\ input'.event = calibrationEvent'
      /\ input'.tracked = p.tracked /\ input'.trigger = p.trigger /\ input'.menu = p.menu
      /\ input'.registered = registered
  BY <1>1
<1>3. /\ epoch'.suspension = epoch.suspension /\ epoch'.reference = epoch.reference
      /\ epoch'.calibration \in {epoch.calibration, epoch.calibration + 1}
  BY <1>1 DEF TypesInv, Counters
<1>4. /\ epoch.suspension \in Nat /\ epoch.reference \in Nat /\ epoch.calibration \in Nat
      /\ input.suspension \in Nat /\ input.reference \in Nat /\ input.calibration \in Nat
  BY DEF TypesInv, Counters, InputFrames
<1>5. Precedes(input, input') /\ Precedes(input', epoch')
  BY <1>2, <1>3, <1>4 DEF OrderInv, Precedes
<1>6. LowHand(input') => letGo'
  <2>1. frame(p).age = 0 /\ RecentInput(0)
    BY DEF RecentInput
  <2> QED
    BY <1>1, <1>2, <2>1 DEF LowHand, ValidFullInput
<1>7. input'.suspension = input.suspension => (letGo => letGo')
  BY <1>1, <1>2
<1>8. \/ calibrationEvent' = calibrationEvent
      \/ letGo' /\ \A e \in calibrationEvent' : e.suspension = input'.suspension
  BY <1>1, <1>2 DEF Captures
<1> QED
  BY <1>2, <1>5, <1>6, <1>7, <1>8

\* The XR thread's steps, as the worker sees them.
LEMMA XRFrame ==
    ASSUME TypesInv, OrderInv, ReleaseInv, XRNext
    PROVE  /\ UNCHANGED <<workerVars, late, calibratedIn, spent>>
           /\ Precedes(input, input') /\ Precedes(input', epoch')
           /\ settings <= settings' /\ (commands # <<>> => commands' # <<>>)
           /\ \/ input' = input /\ letGo' = letGo
                   /\ calibrationEvent' \in {calibrationEvent, {}}
              \/ input.suspension < input'.suspension /\ ~LowHand(input')
                   /\ input'.event = {} /\ calibrationEvent' = {}
              \/ Publish
<1> USE DEF sharedVars, historyVars
<1>0. Precedes(input, input) /\ Precedes(input, epoch) /\ settings \in Nat
  BY DEF TypesInv, InputFrames, OrderInv, Precedes
<1>1. CASE SuspendBetweenFrames \/ MenuRecenter \/ ShowFault
  <2>1. PICK changed \in BOOLEAN : Suspend(changed)
    BY <1>1 DEF SuspendBetweenFrames, MenuRecenter, ShowFault
  <2>2. UNCHANGED <<commands, settings, workerVars, late, calibratedIn, spent>>
    BY <1>1 DEF SuspendBetweenFrames, MenuRecenter, ShowFault
  <2>3. /\ Precedes(input, input') /\ Precedes(input', epoch')
        /\ input.suspension < input'.suspension
        /\ ~LowHand(input') /\ input'.event = {} /\ calibrationEvent' = {}
    BY <2>1, SuspendOutdates
  <2> QED
    BY <1>0, <2>2, <2>3
<1>2. CASE MenuCommand
  <2>1. commands' # <<>>
    BY <1>2 DEF MenuCommand, TypesInv
  <2> QED
    BY <1>0, <1>2, <2>1 DEF MenuCommand
<1>3. CASE MenuSettings
  BY <1>0, <1>3 DEF MenuSettings
<1>4. CASE Frame \/ FrameAfterMenu
  <2>1. PICK p : Read(p)
    BY <1>4 DEF Frame, FrameAfterMenu
  <2>2. /\ UNCHANGED <<sharedVars, workerVars, historyVars>>
        /\ Precedes(input, epoch') /\ calibrationEvent' \in {calibrationEvent, {}}
    BY <2>1, ReadKeepsOrder
  <2> QED
    BY <1>0, <2>2
<1>5. CASE Publish
  <2>1. UNCHANGED <<commands, settings, workerVars, late, calibratedIn, spent>>
    BY <1>5 DEF Publish
  <2>2. Precedes(input, input') /\ Precedes(input', epoch')
    BY <1>5, PublishKeepsPromises
  <2> QED
    BY <1>0, <1>5, <2>1, <2>2
<1> QED
  BY <1>1, <1>2, <1>3, <1>4, <1>5 DEF XRNext

(***************************************************************************)
(* Each invariant is kept                                                  *)
(***************************************************************************)
\* The counters are natural numbers, wherever they are.
LEMMA CountersAreNumbers ==
    ASSUME TypesInv
    PROVE  /\ epoch.suspension \in Nat /\ epoch.reference \in Nat /\ epoch.calibration \in Nat
           /\ input.suspension \in Nat /\ input.reference \in Nat /\ input.calibration \in Nat
           /\ batch.input.suspension \in Nat /\ batch.input.reference \in Nat
           /\ batch.input.calibration \in Nat /\ batch.settings \in Nat
           /\ sim.suspension \in Nat /\ sim.reference \in Nat /\ sim.calibration \in Nat
           /\ sim.applied \in Nat /\ settings \in Nat /\ spent \in Nat
<1>1. batch.input \in InputFrames /\ batch.settings \in Nat
  BY DEF TypesInv, Batches
<1>2. epoch.suspension \in Nat /\ epoch.reference \in Nat /\ epoch.calibration \in Nat
  BY DEF TypesInv, Counters
<1>3. input.suspension \in Nat /\ input.reference \in Nat /\ input.calibration \in Nat
  BY DEF TypesInv, InputFrames
<1>4. /\ batch.input.suspension \in Nat /\ batch.input.reference \in Nat
      /\ batch.input.calibration \in Nat
  BY <1>1 DEF InputFrames
<1>5. /\ sim.suspension \in Nat /\ sim.reference \in Nat /\ sim.calibration \in Nat
      /\ sim.applied \in Nat
  BY DEF TypesInv, Sessions
<1> QED
  BY <1>1, <1>2, <1>3, <1>4, <1>5 DEF TypesInv

\* The worker publishes nothing; it copies a batch, keeps it or drops it.
LEMMA WorkerFrame ==
    ASSUME TypesInv, WorkerNext
    PROVE  /\ UNCHANGED <<input, settings, letGo, epoch, calibrationEvent>>
           /\ commands' \in {commands, <<>>}
           /\ \/ batch'.input = batch.input /\ batch'.settings = batch.settings
              \/ batch' = NoBatch
              \/ Copy
<1>1. CASE Toggle
  BY <1>1, RestIsTodo DEF Toggle, TypesInv, xrVars, sharedVars, historyVars
<1>2. CASE Retry
  BY <1>2 DEF Retry, xrVars, sharedVars, historyVars
<1> QED
  BY <1>1, <1>2 DEF WorkerNext, Copy, NothingToRun, Prepare, PrepareFails, ConsumePress, Check,
         ControlTick, Step, StepFails, Fault, NextLoop, xrVars, sharedVars, historyVars

\* What becomes of the session: taken over from the batch, or dropped.
LEMMA SessionFrame ==
    ASSUME TypesInv, WorkerNext
    PROVE  \/ sim' = sim
           \/ /\ sim'.session \in {"none", "faulted"} /\ sim'.applied = 0
              /\ sim'.calibration = 0 /\ sim'.reference = 0 /\ sim'.suspension = 0
           \/ /\ Prepare /\ sim'.session = "live" /\ sim'.applied = batch.settings
              /\ sim'.calibration \in {sim.calibration, batch.input.calibration}
              /\ sim'.reference = batch.input.reference
              /\ sim'.suspension = batch.input.suspension
           \/ /\ ConsumePress /\ sim' = [sim EXCEPT !.calibration = batch.input.calibration]
<1>1. CASE Retry \/ PrepareFails \/ StepFails
  BY <1>1 DEF Retry, PrepareFails, StepFails, Fault, NoSession
<1>2. CASE Prepare
  BY <1>2 DEF Prepare, PressConsumed
<1>3. CASE ConsumePress
  BY <1>3 DEF ConsumePress
<1> QED
  BY <1>1, <1>2, <1>3 DEF WorkerNext, Copy, Toggle, NothingToRun, Check, ControlTick, Step

\* The counters are copied from the XR thread to the worker, never back.
LEMMA OrderStep ==
    ASSUME TypesInv, OrderInv, ReleaseInv, [BoundaryNext]_boundaryVars
    PROVE  OrderInv'
<1> USE CountersAreNumbers DEF OrderInv, Precedes
<1>1. CASE XRNext
  <2>1. /\ batch' = batch /\ sim' = sim /\ Precedes(input, input') /\ Precedes(input', epoch')
        /\ settings <= settings'
    BY <1>1, XRFrame DEF workerVars
  <2>2. TypesInv'
    BY <1>1, TypesStep DEF BoundaryNext
  <2>3. input'.suspension \in Nat /\ input'.reference \in Nat /\ input'.calibration \in Nat
        /\ settings' \in Nat
    BY <2>2 DEF TypesInv, InputFrames
  <2>4. Precedes(batch'.input, input') /\ Precedes(sim', input')
    BY <2>1, <2>3
  <2>5. batch'.settings <= settings' /\ sim'.applied <= settings'
    BY <2>1, <2>3
  <2> QED
    BY <2>1, <2>4, <2>5
<1>2. CASE WorkerNext
  <2>1. Precedes(batch'.input, input) /\ batch'.settings <= settings
    <3>1. CASE Copy
      <4>1. batch'.input = input /\ batch'.settings = settings
        BY <3>1 DEF Copy
      <4>2. Precedes(input, input) /\ settings <= settings
        OBVIOUS
      <4> QED
        BY <4>1, <4>2
    <3>2. CASE batch'.input = batch.input /\ batch'.settings = batch.settings
      BY <3>2
    <3>3. CASE batch' = NoBatch
      <4>1. /\ batch'.input.suspension = 0 /\ batch'.input.reference = 0
            /\ batch'.input.calibration = 0 /\ batch'.settings = 0
        BY <3>3, NothingCopied
      <4>2. /\ input.suspension >= 0 /\ input.reference >= 0 /\ input.calibration >= 0
            /\ settings >= 0
        OBVIOUS
      <4> QED
        BY <4>1, <4>2
    <3> QED
      BY <1>2, <3>1, <3>2, <3>3, WorkerFrame
  <2>2. Precedes(sim', input) /\ sim'.applied <= settings
    <3>1. CASE ConsumePress /\ sim' = [sim EXCEPT !.calibration = batch.input.calibration]
      <4>1. /\ sim'.calibration = batch.input.calibration /\ sim'.applied = sim.applied
            /\ sim'.reference = sim.reference /\ sim'.suspension = sim.suspension
        BY <3>1 DEF TypesInv, Sessions
      <4> QED
        BY <4>1
    <3> QED
      BY <1>2, <3>1, SessionFrame
  <2> QED
    BY <1>2, <2>1, <2>2, WorkerFrame
<1>3. CASE Elapse
  <2>1. /\ input' = OlderFrame(input) /\ batch' = [batch EXCEPT !.input = OlderFrame(@)]
        /\ epoch' = epoch /\ sim' = sim /\ settings' = settings
    BY <1>3 DEF Elapse
  <2>2. batch'.input = OlderFrame(batch.input) /\ batch'.settings = batch.settings
        /\ batch.input \in InputFrames /\ input \in InputFrames
    BY <2>1 DEF TypesInv, Batches
  <2> QED
    BY <2>1, <2>2, OlderInput
<1>4. CASE UNCHANGED boundaryVars
  BY <1>4 DEF boundaryVars, xrVars, sharedVars, workerVars
<1> QED
  BY <1>1, <1>2, <1>3, <1>4 DEF BoundaryNext

\* Presses are captured in numbered interruptions.
LEMMA PressIsNumbered ==
    ASSUME NEW events \in Events, NEW e \in events
    PROVE  e.suspension \in Nat
  BY DEF Events

\* There is at most one press, wherever it waits.
LEMMA EventsAreTyped ==
    ASSUME TypesInv
    PROVE  input.event \in Events /\ batch.input.event \in Events /\ calibrationEvent \in Events
  BY DEF TypesInv, Batches, InputFrames

\* A counted interruption outdates what the worker remembers; a release is seen first.
LEMMA ReleaseStepXR ==
    ASSUME TypesInv, OrderInv, ReleaseInv, XRNext
    PROVE  ReleaseInv'
<1>1. batch' = batch /\ sim' = sim /\ arm' = arm /\ Precedes(input, input')
  BY XRFrame DEF workerVars
<1>2. input'.suspension \in Nat
  <2>1. TypesInv'
    BY TypesStep DEF BoundaryNext
  <2> QED
    BY <2>1 DEF TypesInv, InputFrames
<1>3. input.suspension \in Nat /\ batch.input.suspension \in Nat /\ sim.suspension \in Nat
      /\ epoch.suspension \in Nat
  BY CountersAreNumbers
<1>4. /\ batch.input.suspension <= input.suspension /\ sim.suspension <= input.suspension
      /\ input.suspension <= epoch.suspension
  BY DEF OrderInv, Precedes
<1>5. /\ \A e \in calibrationEvent : e.suspension \in Nat
      /\ \A e \in input.event : e.suspension \in Nat
      /\ \A e \in batch.input.event : e.suspension \in Nat
  BY EventsAreTyped, PressIsNumbered
<1> USE <1>1, <1>2, <1>3, <1>4, <1>5 DEF ReleaseInv, PressesLetGo
<1>6. CASE input' = input /\ letGo' = letGo /\ calibrationEvent' \in {calibrationEvent, {}}
  BY <1>6
<1>7. CASE /\ input.suspension < input'.suspension /\ ~LowHand(input')
           /\ input'.event = {} /\ calibrationEvent' = {}
  BY <1>7
<1>8. CASE Publish
  <2>1. /\ input'.suspension = epoch.suspension
        /\ input'.suspension = input.suspension => (letGo => letGo')
        /\ LowHand(input') => letGo'
        /\ input'.event = calibrationEvent'
        /\ \/ calibrationEvent' = calibrationEvent
           \/ letGo' /\ \A e \in calibrationEvent' : e.suspension = input'.suspension
    BY <1>8, PublishKeepsPromises
  <2>2. PressesLetGo(calibrationEvent)'
    BY <2>1
  <2> QED
    BY <2>1, <2>2
<1> QED
  BY <1>6, <1>7, <1>8, XRFrame

\* The worker learns of a release only from a frame or a press it copied.
LEMMA ReleaseStepWorker ==
    ASSUME TypesInv, OrderInv, ReleaseInv, WorkInv, WorkerNext
    PROVE  ReleaseInv'
<1>1. UNCHANGED <<input, settings, letGo, epoch, calibrationEvent>>
  BY WorkerFrame
<1>2. /\ LowHand(batch'.input) /\ batch'.input.suspension = input.suspension => letGo
      /\ PressesLetGo(batch'.input.event)
  <2>1. CASE Copy
    BY <2>1 DEF Copy, ReleaseInv
  <2>2. CASE batch'.input = batch.input \/ batch' = NoBatch
    BY <2>2, NothingCopied DEF ReleaseInv, PressesLetGo
  <2> QED
    BY <2>1, <2>2, WorkerFrame
<1>3. Remembers(arm') =>
        sim'.session = "live" /\ (sim'.suspension = input.suspension => letGo)
  <2> USE DEF ReleaseInv
  <2>0. arm \in Arms /\ sim \in Sessions
    BY DEF TypesInv
  <2>1. CASE arm' = arm /\ sim' = sim
    BY <2>1
  <2>2. CASE Toggle
    BY <2>0, <2>2, ArmIsSuppressed DEF Toggle
  <2>8. CASE Retry
    BY <2>8, ArmIsSuppressed DEF Retry, Retries, NoSession
  <2>3. CASE Prepare
    <3>1. /\ sim'.session = "live" /\ sim'.suspension = batch.input.suspension
          /\ arm' \in {ResetArm, Interrupted(arm)}
      BY <2>3 DEF Prepare
    <3>2. Remembers(Interrupted(arm)) =>
            Remembers(arm) /\ batch.input.suspension = sim.suspension
      BY <2>0, ArmIsSuppressed DEF Interrupted
    <3> QED
      BY <2>0, <3>1, <3>2, ArmIsSuppressed
  <2>4. CASE PrepareFails \/ StepFails
    BY <2>0, <2>4, ArmIsSuppressed DEF PrepareFails, StepFails, Fault
  <2>5. CASE ConsumePress
    <3>1. sim'.session = sim.session /\ sim'.suspension = sim.suspension /\ sim.session = "live"
      BY <2>0, <2>5 DEF ConsumePress, WorkInv, Sessions
    <3>2. CASE CalibrationEligible
      BY <3>1, <3>2 DEF CalibrationEligible, PressesLetGo
    <3>3. CASE ~CalibrationEligible
      BY <2>5, <3>1, <3>3 DEF ConsumePress
    <3> QED
      BY <3>2, <3>3
  <2>6. CASE Check
    BY <2>0, <2>6, ArmIsSuppressed DEF Check
  <2>7. CASE ControlTick
    <3> DEFINE judged == IF ~allowed' /\ arm.allowed THEN Suppress(arm) ELSE arm
    <3>1. judged \in Arms /\ (Remembers(judged) => Remembers(arm))
      BY <2>0, ArmIsSuppressed
    <3>2. /\ sim' = sim /\ sim.session = "live" /\ sim.suspension = batch.input.suspension
          /\ allowed' = BatchUsable
      BY <2>7 DEF ControlTick, WorkInv
    <3>3. \/ arm' = judged
          \/ \E pose \in Poses :
               arm' = Control(judged, batch.input.tracked, batch.input.trigger, allowed', pose)
      BY <2>7 DEF ControlTick
    <3>4. batch.input.tracked \in BOOLEAN /\ batch.input.trigger \in Triggers
      BY DEF TypesInv, Batches, InputFrames
    <3>5. allowed' \in BOOLEAN
      BY <2>7, TypesStep DEF TypesInv, BoundaryNext, WorkerNext
    <3> HIDE DEF judged
    <3>6. Remembers(arm') => Remembers(judged) \/ (allowed' /\ batch.input.trigger = "low")
      BY <3>1, <3>3, <3>4, <3>5, ArmIsControlled
    <3>7. allowed' /\ batch.input.trigger = "low" => LowHand(batch.input)
      BY <3>2 DEF BatchUsable, ValidFullInput, LowHand
    <3> QED
      BY <3>1, <3>2, <3>6, <3>7
  <2> QED
    BY <2>1, <2>2, <2>3, <2>4, <2>5, <2>6, <2>7, <2>8 DEF WorkerNext, Copy, NothingToRun, Step
<1> QED
  BY <1>1, <1>2, <1>3 DEF ReleaseInv, PressesLetGo

\* Time adds nothing to what was released.
LEMMA ReleaseStep ==
    ASSUME TypesInv, OrderInv, ReleaseInv, WorkInv, [BoundaryNext]_boundaryVars
    PROVE  ReleaseInv'
<1>1. CASE Elapse
  <2>1. /\ input' = OlderFrame(input) /\ batch' = [batch EXCEPT !.input = OlderFrame(@)]
        /\ calibrationEvent' = OlderEvent(calibrationEvent)
        /\ sim' = sim /\ arm' = arm /\ letGo' = letGo
    BY <1>1 DEF Elapse, historyVars
  <2>2. /\ batch'.input = OlderFrame(batch.input)
        /\ batch.input \in InputFrames /\ input \in InputFrames
    BY <2>1 DEF TypesInv, Batches
  <2>3. PressesLetGo(calibrationEvent)' /\ PressesLetGo(input.event)'
        /\ PressesLetGo(batch.input.event)'
    BY <2>1, <2>2, OlderInput, OlderPress, EventsAreTyped DEF ReleaseInv, PressesLetGo
  <2> QED
    BY <2>1, <2>2, <2>3, OlderInput DEF ReleaseInv
<1>2. CASE UNCHANGED boundaryVars
  BY <1>2 DEF boundaryVars, xrVars, sharedVars, workerVars, historyVars, ReleaseInv,
              PressesLetGo
<1> QED
  BY <1>1, <1>2, ReleaseStepXR, ReleaseStepWorker DEF BoundaryNext

\* The XR thread and time change nothing that the worker has established.
LEMMA WorkStepOthers ==
    ASSUME TypesInv, OrderInv, ReleaseInv, WorkInv,
           XRNext \/ Elapse \/ UNCHANGED boundaryVars
    PROVE  WorkInv'
<1>1. CASE XRNext \/ UNCHANGED boundaryVars
  <2>1. UNCHANGED <<worker, batch, sim, arm, allowed, calibratedIn, spent>>
    BY <1>1, XRFrame DEF workerVars, historyVars, boundaryVars
  <2> QED
    BY <2>1 DEF WorkInv
<1>2. CASE Elapse
  <2>1. /\ batch' = [batch EXCEPT !.input = OlderFrame(@)]
        /\ UNCHANGED <<worker, sim, arm, allowed, calibratedIn, spent>>
    BY <1>2 DEF Elapse, historyVars
  <2>2. batch'.input = OlderFrame(batch.input) /\ batch'.settings = batch.settings
        /\ batch.input \in InputFrames
    BY <2>1 DEF TypesInv, Batches
  <2> QED
    BY <2>1, <2>2, OlderInput DEF WorkInv
<1> QED
  BY <1>1, <1>2

\* What ends a loop leaves the arm to a worker that copies.
LEMMA WorkStepCopies ==
    ASSUME TypesInv, OrderInv, ReleaseInv, WorkInv,
           Copy \/ Retry \/ Toggle \/ NothingToRun \/ PrepareFails \/ StepFails
    PROVE  WorkInv'
<1> USE DEF WorkInv
<1>0. arm \in Arms /\ sim \in Sessions
  BY DEF TypesInv
<1>1. CASE Copy
  <2>1. /\ worker' \in {"prepare", "toggle"} /\ batch'.input = input
        /\ UNCHANGED <<sim, arm, calibratedIn, spent>>
    BY <1>1 DEF Copy
  <2>2. sim.calibration <= input.calibration
    BY DEF OrderInv, Precedes
  <2> QED
    BY <2>1, <2>2
<1>2. CASE Retry \/ Toggle
  <2>0. batch'.input = batch.input
    BY <1>2, RestIsTodo DEF Retry, Toggle, TypesInv
  <2>1. /\ worker = "toggle" /\ worker' \in {"toggle", "prepare"}
        /\ UNCHANGED <<calibratedIn, spent>>
        /\ arm' \in {arm, Suppress(arm)} /\ sim' \in {sim, NoSession}
    BY <1>2 DEF Retry, Toggle, historyVars
  <2>2. 0 <= batch.input.calibration
    BY CountersAreNumbers
  <2>3. arm'.calibrated = arm.calibrated /\ (arm'.engaged => arm'.allowed)
    BY <1>0, <2>1, ArmIsSuppressed DEF Remembers
  <2> QED
    BY <2>0, <2>1, <2>2, <2>3 DEF NoSession
<1>3. CASE NothingToRun
  BY <1>3 DEF NothingToRun, NextLoop, historyVars
<1>4. CASE PrepareFails \/ StepFails
  <2>1. worker' = "copy" /\ sim'.session = "faulted" /\ arm' = Suppress(arm)
    BY <1>4 DEF PrepareFails, StepFails, Fault, NextLoop, NoSession
  <2>2. ~arm'.engaged
    BY <1>0, <2>1, ArmIsSuppressed DEF Remembers
  <2> QED
    BY <2>1, <2>2
<1> QED
  BY <1>1, <1>2, <1>3, <1>4

\* The session takes over the batch; a calibration of another reference is gone.
LEMMA WorkStepPrepare ==
    ASSUME TypesInv, OrderInv, ReleaseInv, WorkInv, Prepare
    PROVE  WorkInv'
<1> USE DEF WorkInv
<1>0. arm \in Arms /\ sim \in Sessions
  BY DEF TypesInv
<1>1. PICK rebuilt \in BOOLEAN :
        /\ sim.session = "none" => rebuilt
        /\ arm' = IF rebuilt THEN ResetArm ELSE Interrupted(arm)
        /\ sim' = [session |-> "live", applied |-> batch.settings,
                   calibration |-> PressConsumed(rebuilt),
                   reference |-> batch.input.reference,
                   suspension |-> batch.input.suspension]
        /\ spent' = IF rebuilt THEN batch.input.calibration ELSE spent
  BY DEF Prepare
<1>2. /\ worker = "prepare" /\ worker' = "calibrate" /\ UNCHANGED <<batch, calibratedIn>>
      /\ sim.session = "live" \/ sim.session = "none"
  BY DEF Prepare, Runs
<1>3. CASE rebuilt
  <2>1. ~arm'.engaged /\ ~arm'.calibrated
    BY <1>1, <1>3 DEF ResetArm
  <2>2. sim'.calibration = batch.input.calibration /\ spent' = batch.input.calibration
        /\ batch.input.calibration \in Nat
    BY <1>1, <1>3, CountersAreNumbers DEF PressConsumed
  <2> QED
    BY <1>1, <1>2, <2>1, <2>2
<1>4. CASE ~rebuilt
  <2>1. sim.session = "live" /\ spent' = spent /\ sim'.calibration = sim.calibration
    BY <1>1, <1>2, <1>4 DEF PressConsumed
  <2>2. /\ Interrupted(arm).engaged => arm.engaged /\ Interrupted(arm).allowed
        /\ Interrupted(arm).calibrated =>
             arm.calibrated /\ batch.input.reference = sim.reference
    BY <1>0, ArmIsSuppressed DEF Interrupted, Remembers
  <2>3. arm' = Interrupted(arm)
    BY <1>1, <1>4
  <2> QED
    BY <1>1, <1>2, <2>1, <2>2, <2>3
<1> QED
  BY <1>3, <1>4

\* A press is used up whether it calibrates or not.
LEMMA WorkStepCalibrate ==
    ASSUME TypesInv, OrderInv, ReleaseInv, WorkInv, ConsumePress
    PROVE  WorkInv'
<1> USE DEF WorkInv
<1>0. arm \in Arms /\ sim \in Sessions
  BY DEF TypesInv
<1>1. /\ worker = "calibrate" /\ worker' \in {"copy", "check"}
      /\ worker' = "copy" \/ UNCHANGED <<batch, allowed>>
      /\ sim' = [sim EXCEPT !.calibration = batch.input.calibration]
      /\ spent' \in {spent, batch.input.calibration}
  BY DEF ConsumePress, NextLoop
<1>2. PICK pose \in Poses :
        /\ arm' = IF CalibrationEligible THEN Calibrate(arm, pose) ELSE arm
        /\ calibratedIn' = IF CalibrationEligible /\ pose # "unusable"
                           THEN batch.input.reference ELSE calibratedIn
  BY DEF ConsumePress
<1>3. /\ sim'.session = sim.session /\ sim'.applied = sim.applied
      /\ sim'.reference = sim.reference /\ sim'.suspension = sim.suspension
      /\ sim'.calibration = batch.input.calibration
  BY <1>0, <1>1 DEF Sessions
<1>4. /\ arm'.engaged => arm.engaged /\ arm' = arm
      /\ arm'.calibrated => calibratedIn' = sim.reference
  <2>1. CASE CalibrationEligible
    BY <1>0, <1>1, <1>2, <2>1, ArmIsCalibrated
  <2>2. CASE ~CalibrationEligible
    BY <1>1, <1>2, <2>2
  <2> QED
    BY <2>1, <2>2
<1>5. spent' <= batch.input.calibration
  BY <1>1, CountersAreNumbers
<1>6. worker' = "check" => batch' = batch
  BY <1>1
<1>7. worker' \in {"calibrate", "check", "control", "step"} =>
        /\ sim'.session = "live" /\ sim'.applied = batch'.settings
        /\ sim'.reference = batch'.input.reference
        /\ sim'.suspension = batch'.input.suspension
  BY <1>1, <1>3, <1>6
<1>8. worker' # "copy" => sim'.calibration <= batch'.input.calibration
  BY <1>1, <1>3, <1>6, CountersAreNumbers
<1>9. (arm'.engaged => arm'.allowed) /\ worker' # "step"
  BY <1>1, <1>4
<1> QED
  BY <1>3, <1>4, <1>5, <1>7, <1>8, <1>9

\* The substep: checked, controlled, stepped.
LEMMA WorkStepSubstep ==
    ASSUME TypesInv, OrderInv, ReleaseInv, WorkInv, Check \/ ControlTick \/ Step
    PROVE  WorkInv'
<1> USE DEF WorkInv
<1>0. arm \in Arms /\ sim \in Sessions
  BY DEF TypesInv
<1>1. CASE Check
  <2>1. /\ worker = "check" /\ UNCHANGED <<sim, calibratedIn, spent>>
        /\ \/ worker' = "copy" /\ arm' = Suppress(arm)
           \/ worker' = "control" /\ UNCHANGED <<arm, batch, allowed>>
    BY <1>1 DEF Check, NextLoop, historyVars
  <2>2. ~Suppress(arm).engaged /\ Suppress(arm).calibrated = arm.calibrated
    BY <1>0, ArmIsSuppressed DEF Remembers
  <2> QED
    BY <2>1, <2>2
<1>2. CASE ControlTick
  <2> DEFINE judged == IF ~allowed' /\ arm.allowed THEN Suppress(arm) ELSE arm
  <2>1. /\ judged \in Arms /\ judged.calibrated = arm.calibrated
        /\ judged.engaged => judged.allowed /\ allowed'
    BY <1>0, ArmIsSuppressed DEF Remembers
  <2>2. \/ arm' = judged
        \/ \E pose \in Poses :
             arm' = Control(judged, batch.input.tracked, batch.input.trigger, allowed', pose)
    BY <1>2 DEF ControlTick
  <2>3. /\ worker = "control" /\ worker' = "step"
        /\ UNCHANGED <<batch, sim, calibratedIn, spent>>
    BY <1>2 DEF ControlTick, historyVars
  <2>4. batch.input.tracked \in BOOLEAN /\ batch.input.trigger \in Triggers
    BY DEF TypesInv, Batches, InputFrames
  <2>5. allowed' \in BOOLEAN
    BY <1>2, TypesStep DEF TypesInv, BoundaryNext, WorkerNext
  <2> HIDE DEF judged
  <2>6. /\ arm'.calibrated = arm.calibrated
        /\ arm'.engaged => arm'.allowed /\ allowed'
    BY <2>1, <2>2, <2>4, <2>5, ArmIsControlled
  <2> QED
    BY <2>3, <2>6
<1>3. CASE Step
  <2>1. /\ worker = "step" /\ worker' \in {"copy", "check"}
        /\ worker' = "copy" \/ batch' = batch
        /\ UNCHANGED <<sim, arm, calibratedIn, spent>>
    BY <1>3 DEF Step, NextLoop
  <2> QED
    BY <2>1
<1> QED
  BY <1>1, <1>2, <1>3

\* Every step keeps what the batch has established.
LEMMA WorkStep ==
    ASSUME TypesInv, OrderInv, ReleaseInv, WorkInv, [BoundaryNext]_boundaryVars
    PROVE  WorkInv'
  BY WorkStepOthers, WorkStepCopies, WorkStepPrepare, WorkStepCalibrate, WorkStepSubstep
     DEF BoundaryNext, WorkerNext


\* Once overtaken, a batch stays so: what overtook it only moves further away.
LEMMA OvertakenStays ==
    ASSUME TypesInv, OrderInv, ReleaseInv, WorkInv, Overtaken,
           worker \in {"check", "control", "step"}, XRNext
    PROVE  Overtaken'
<1>1. /\ batch' = batch /\ sim' = sim /\ Precedes(input, input')
      /\ settings <= settings' /\ (commands # <<>> => commands' # <<>>)
  BY XRFrame DEF workerVars
<1>2. /\ input'.suspension \in Nat /\ input'.reference \in Nat
      /\ input'.calibration \in Nat /\ settings' \in Nat
  <2>1. TypesInv'
    BY TypesStep DEF BoundaryNext
  <2> QED
    BY <2>1 DEF TypesInv, InputFrames
<1>3. Precedes(batch.input, input) /\ sim.applied <= settings
  BY DEF OrderInv
<1> DEFINE Grow(x, y, z) == x <= y /\ y <= z /\ x # y => x # z
<1>0. \A x, y, z \in Nat : Grow(x, y, z)
  OBVIOUS
<1>4. sim.applied # settings => sim'.applied # settings'
  BY <1>0, <1>1, <1>2, <1>3, CountersAreNumbers
<1>5. batch.input.suspension # input.suspension
        => batch'.input.suspension # input'.suspension
  BY <1>0, <1>1, <1>2, <1>3, CountersAreNumbers DEF Precedes
<1>6. batch.input.reference # input.reference => batch'.input.reference # input'.reference
  BY <1>0, <1>1, <1>2, <1>3, CountersAreNumbers DEF Precedes
<1>7. batch.input.calibration # input.calibration
        => batch'.input.calibration # input'.calibration
  BY <1>0, <1>1, <1>2, <1>3, CountersAreNumbers DEF Precedes
<1> QED
  BY <1>1, <1>4, <1>5, <1>6, <1>7 DEF Overtaken

\* The check after a late substep ends the batch.
LEMMA LateStep ==
    ASSUME TypesInv, OrderInv, ReleaseInv, WorkInv, LateInv, [BoundaryNext]_boundaryVars
    PROVE  LateInv'
<1> USE DEF LateInv
<1>0. late \in Nat
  BY DEF TypesInv
<1>1. CASE XRNext
  <2>1. UNCHANGED <<worker, late>>
    BY <1>1, XRFrame DEF workerVars
  <2> QED
    BY <1>1, <2>1, OvertakenStays
<1>2. CASE Elapse
  <2>1. /\ input' = OlderFrame(input) /\ batch' = [batch EXCEPT !.input = OlderFrame(@)]
        /\ UNCHANGED <<worker, late, sim, settings, commands>>
    BY <1>2 DEF Elapse, historyVars
  <2>2. batch'.input = OlderFrame(batch.input) /\ batch.input \in InputFrames
        /\ input \in InputFrames
    BY <2>1 DEF TypesInv, Batches
  <2>3. Overtaken' <=> Overtaken
    BY <2>1, <2>2, OlderInput DEF Overtaken
  <2> QED
    BY <2>1, <2>3
<1>3. CASE UNCHANGED boundaryVars
  BY <1>3 DEF boundaryVars, sharedVars, workerVars, historyVars, Overtaken
<1>4. CASE Copy
  BY <1>4 DEF Copy
<1>5. CASE Retry \/ Toggle \/ NothingToRun \/ Prepare \/ PrepareFails \/ ConsumePress \/ ControlTick
           \/ StepFails
  <2>1. late' = late /\ worker # "copy" /\ worker # "check" /\ late = 0
    BY <1>5 DEF Retry, Toggle, NothingToRun, Prepare, PrepareFails, ConsumePress, ControlTick,
                StepFails, Fault, historyVars
  <2> QED
    BY <2>1
<1>6. CASE Check
  <2>1. late' = late /\ worker = "check" /\ worker' \in {"copy", "control"}
        /\ (worker' = "control" => ~SubstepBoundaryChanged)
    BY <1>6 DEF Check, NextLoop, historyVars
  <2> QED
    BY <1>0, <2>1 DEF SubstepBoundaryChanged
<1>7. CASE Step
  <2>1. /\ worker = "step" /\ late = 0 /\ worker' \in {"copy", "check"}
        /\ late' = IF Overtaken /\ allowed THEN late + 1 ELSE late
    BY <1>7 DEF Step, NextLoop
  <2>2. worker' = "check" => UNCHANGED <<batch, sim, input, settings, commands>>
    BY <1>7 DEF Step, NextLoop, sharedVars
  <2>3. Overtaken /\ worker' = "check" => Overtaken'
    BY <2>2 DEF Overtaken
  <2> QED
    BY <2>1, <2>3
<1> QED
  BY <1>1, <1>2, <1>3, <1>4, <1>5, <1>6, <1>7 DEF BoundaryNext, WorkerNext

(***************************************************************************)
(* The theorems                                                            *)
(***************************************************************************)
\* Nothing is published, copied or remembered at the start.
LEMMA BoundaryStarts ==
    BoundaryInit => TypesInv /\ OrderInv /\ ReleaseInv /\ WorkInv /\ LateInv
<1> SUFFICES ASSUME BoundaryInit
             PROVE  TypesInv /\ OrderInv /\ ReleaseInv /\ WorkInv /\ LateInv
  OBVIOUS
<1> USE BoundaryAssumption
<1>1. /\ input = NoFrame /\ batch = NoBatch /\ sim = NoSession /\ arm = ResetArm
      /\ epoch = [suspension |-> 0, reference |-> 0, calibration |-> 0]
      /\ calibrationEvent = {} /\ commands = <<>> /\ settings = 1
      /\ worker = "copy" /\ late = 0 /\ calibratedIn = 0 /\ spent = 0
  BY DEF BoundaryInit
<1>2. TypesInv
  <2>1. epoch \in Counters /\ calibrationEvent \in Events
    BY <1>1 DEF Counters, Events
  <2>2. arm \in Arms
    BY <1>1, ArmIsSuppressed DEF ResetArm, Arms
  <2>3. commands \in Seq(Commands) /\ Len(commands) <= QueueSize
    BY <1>1
  <2>4. input \in InputFrames /\ batch \in Batches /\ sim \in Sessions
    BY <1>1, NothingCopied
  <2>5. /\ settings \in 1..MaxSettings /\ left \in 0..MaxSubsteps
        /\ calibratedIn \in 0..MaxReferences /\ spent \in 0..MaxPresses /\ late \in Nat
    BY <1>1 DEF BoundaryInit
  <2>6. /\ xr = "idle" /\ pending = {} /\ worker = "copy"
        /\ calibrationDown \in BOOLEAN /\ wasSuppressed \in BOOLEAN
        /\ registered \in BOOLEAN /\ faultShown \in BOOLEAN /\ paused \in BOOLEAN
        /\ allowed \in BOOLEAN /\ letGo \in BOOLEAN
    BY DEF BoundaryInit
  <2> QED
    BY <2>1, <2>2, <2>3, <2>4, <2>5, <2>6 DEF TypesInv
<1>3. OrderInv
  BY <1>1 DEF OrderInv, Precedes, NoFrame, NoBatch, NoSession
<1>4. ReleaseInv
  BY <1>1 DEF ReleaseInv, PressesLetGo, LowHand, Remembers, NoFrame, NoBatch, ResetArm
<1>5. WorkInv /\ LateInv
  BY <1>1 DEF WorkInv, LateInv, NoSession, ResetArm
<1> QED
  BY <1>2, <1>3, <1>4, <1>5

\* The five invariants hold together.
LEMMA BoundaryInductive ==
    BoundarySpec => [](TypesInv /\ OrderInv /\ ReleaseInv /\ WorkInv /\ LateInv)
<1>1. TypesInv /\ OrderInv /\ ReleaseInv /\ WorkInv /\ LateInv /\ [BoundaryNext]_boundaryVars
        => (TypesInv /\ OrderInv /\ ReleaseInv /\ WorkInv /\ LateInv)'
  BY TypesStep, OrderStep, ReleaseStep, WorkStep, LateStep
<1> QED
  BY <1>1, BoundaryStarts, PTL DEF BoundarySpec

\* The types and the counters' order, at most one substep after an outdated frame, a
\* calibration used only in the reference space it was made in, and each press once:
\* UpdateFullRuntime and the worker's loop (full_runtime_app.cpp).
THEOREM BoundaryHolds == BoundarySpec => []BoundaryInv
<1>1. TypesInv /\ OrderInv => BoundaryTypeOK
  <2> SUFFICES ASSUME TypesInv, OrderInv PROVE BoundaryTypeOK
    OBVIOUS
  <2>1. batch.input \in InputFrames /\ batch.settings \in 0..settings
        /\ sim.session \in {"none", "live", "faulted"} /\ sim.applied \in 0..settings
    BY CountersAreNumbers DEF TypesInv, OrderInv, Batches, Sessions
  <2>2. /\ batch.input.suspension <= input.suspension /\ sim.suspension <= input.suspension
        /\ input.suspension <= epoch.suspension
    BY DEF OrderInv, Precedes
  <2>3. {calibrationDown, wasSuppressed, registered, faultShown, paused, allowed}
          \subseteq BOOLEAN
    BY DEF TypesInv
  <2>4. pending \subseteq [tracked: BOOLEAN, stage: BOOLEAN, head: BOOLEAN,
                          trigger: Triggers, menu: BOOLEAN, press: BOOLEAN]
    BY DEF TypesInv, PendingFrames
  <2> QED
    BY <2>1, <2>2, <2>3, <2>4 DEF TypesInv, BoundaryTypeOK
<1>2. TypesInv /\ OrderInv /\ WorkInv => CalibratedInReference /\ PressUsedOnce
  <2> SUFFICES ASSUME TypesInv, OrderInv, WorkInv
               PROVE  CalibratedInReference /\ PressUsedOnce
    OBVIOUS
  <2>1. CalibratedInReference
    BY DEF WorkInv, CalibratedInReference
  <2>2. ASSUME worker = "calibrate", CalibrationEligible
        PROVE  batch.input.calibration > spent
    <3>1. batch.input.calibration # sim.calibration
      BY <2>2 DEF CalibrationEligible
    <3>2. spent <= sim.calibration /\ sim.calibration <= batch.input.calibration
      BY <2>2 DEF WorkInv
    <3> QED
      BY <3>1, <3>2, CountersAreNumbers
  <2> QED
    BY <2>1, <2>2 DEF PressUsedOnce
<1>3. LateInv => OneLateSubstep
  BY DEF LateInv, OneLateSubstep
<1>4. TypesInv /\ OrderInv /\ ReleaseInv /\ WorkInv /\ LateInv => BoundaryInv
  BY <1>1, <1>2, <1>3 DEF BoundaryInv
<1> QED
  BY <1>4, BoundaryInductive, PTL

\* After an interruption that the XR thread counted, neither the arm nor the gripper goes
\* on without a release seen since (control_boundary.h, full_control.cpp).
THEOREM InterruptedHandLetsGo == BoundarySpec => []HandMustLetGo
<1>1. TypesInv /\ ReleaseInv /\ WorkInv => HandMustLetGo
  <2> SUFFICES ASSUME TypesInv, ReleaseInv, WorkInv, worker = "step"
               PROVE  /\ arm.engaged /\ ~SubstepBoundaryChanged => letGo
                      /\ GripperInputAllowed => letGo
    BY DEF HandMustLetGo, ArmNeedsRelease, GripperNeedsRelease
  <2>1. sim.suspension = batch.input.suspension
    BY DEF WorkInv
  <2>2. batch.input.suspension = input.suspension /\ Remembers(arm) => letGo
    BY <2>1 DEF ReleaseInv
  <2>3. ~SubstepBoundaryChanged => batch.input.suspension = input.suspension
    BY DEF SubstepBoundaryChanged, Overtaken
  <2>4. GripperInputAllowed => arm.rearmed /\ batch.input.suspension = input.suspension
    BY DEF GripperInputAllowed
  <2> QED
    BY <2>2, <2>3, <2>4 DEF Remembers
<1> QED
  BY <1>1, BoundaryInductive, PTL

\* The arm follows only a batch whose frame was judged usable in this substep
\* (RunSubsteps of full_runtime_app.cpp).
THEOREM OldFrameNeverDrives == BoundarySpec => []StaleInputNeverDrives
<1>1. WorkInv => StaleInputNeverDrives
  BY DEF WorkInv, StaleInputNeverDrives
<1> QED
  BY <1>1, BoundaryInductive, PTL

===============================================================================
