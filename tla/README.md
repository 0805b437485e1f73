# A verification model of RivetXR

RivetXR runs a robot-arm simulation on a headset and shows a remote scene that a
host captures and streams to it. This directory holds TLA+ modules of its
concurrent, protocol and transactional logic, TLC runs over small instances, and
TLAPS proofs for all instances. What it covers, one chain after the other:

* **gimbal control**, from a finger on the headset's trigger to a moving axis on the host;
* **the simulation boundary**, from the hand in an XR frame to the arm in the headset's
  physics worker;
* **the remote scene**, from camera exposures and measured poses through the retained map,
  a packet's mesh and atlas, the publisher's threads and a connection to the frame the
  headset draws; and the recording of the same;
* **the edited scene** of the Python simulation;
* **two host tools that are programs of their own**: the rate sweep against a headset, and
  the tools that build the package.

Contents: [inventory](#inventory) · [how the parts work](#how-the-parts-work) ·
[modules](#modules) · [runs](#runs) · [bounds](#bounds) · [fairness](#fairness) ·
[proofs](#proofs) · [what is only model-checked](#what-is-only-model-checked) ·
[abstractions](#abstractions) · [not modelled](#not-modelled) · [plan](#plan)

## Inventory

Paths are under `src/`. "R" is `tools/remote_scene/`, "C" is
`quest/app/src/main/cpp/`, "J" is `quest/app/src/full/java/com/questnewton/`,
"P" is `quest/app/src/main/python/quest_sim/`, "T" is `tools/`.

| component | state it keeps | operations | what is hard | what makes it correct |
|---|---|---|---|---|
| simulated driver, R`gimbal.py` | angle, target, last command's stamp, tracking, time | target, hold, advance, set_tracking | its own 250 ms watchdog; stamps may not go back | the axis moves only towards a commanded target and only within the timeout |
| gimbal session, R`gimbal_control.py` | nonce, challenge and its age, last sequence and client stamp, armed, expiry, needs-release | tick, handle, reply, close | replays, late ticks, exceptions half way | dead man's switch |
| control server, R`gimbal_server.py` | the client slot, the session, the stop flag, four kinds of threads | start, accept, serve, watchdog, sample, close | hand-over of the socket to TLS, exceptions in `finally`, shutdown races | one owner of the session; nothing moves after close |
| gimbal demo source, R`gimbal_demo.py` | map-clear request, map generation | request_clear, service_clear, sample, observe_packet | a request from one thread served on another | a clear is never lost; generations only grow |
| headset client, C`gimbal_client.cpp` | policy (feedback, pending, needs-release, sequence), snapshot, latest intent, reset request | Start, Stop, Submit, RequestMapReset, worker loop | intents that age while they travel; join from the XR thread | bounded time from hand to axis; agrees with the server |
| headset aim, C`gimbal_control.cpp` | epoch, last frame, needs-release, clutched | Update, Reset | frames that stop coming; changes of session or reference | a clutch never survives a loss |
| connection, J`GimbalControlConnection`, `RemoteSceneWire` | open streams, deadlines, closed flag | connect, readControl, close | close from other threads, timers | every wait ends by deadline or close |
| scene publisher, R`publisher.py`, `stream.py` | latest packet and version, clients, threads, sequence history | publish, accept, serve, close | client threads on one condition; close against a handshake | each client sees increasing packets and finally the latest; close ends |
| packets and fusion, R`surface.py`, `rgb_surface.py`, `fusion.py`, `*protocol.py` | a batch under construction | mesh, place, pack, read, restamp | limits stated in six files for three versions; offsets of variable-sized parts | everything fits; the reader cuts where the writer did |
| retained map, R`observation_map.py` | anchors, keyframes, latest per camera, generation | update, clear | an update between two validations; clears and expiry | never refuses a source's batch; nothing from before a clear; no hole |
| pose history, R`pose_history.py` | bounded list of stamped poses | append, at, motion_bounds | gaps, losses and dropped ends | never interpolates across a loss; an answer never changes |
| recording, R`recording.py` | files | write, replay | a crash between files and manifest | a manifest in place loads |
| camera capture, R`realsense.py` | pipelines, last frames and images, poses | open, poll, record, close | late, repeated and reversed frames; two exposures | what is delivered is measured, paired and in order |
| scene receiver and mailbox, C`remote_scene_receiver`, `remote_scene` | worker, stream generation, sequences by identity, latest frame | Start, Stop, Reset, Publish, Read | packets of a retired connection | no frame of an old stream after Reset; no replay |
| simulation worker, C`full_runtime_app`, `control_boundary.h`, `simulation_clock.h` | input, settings, commands under one mutex; session, clock and control of the worker | XR frame, suspend, settings, worker batch, substeps | state copied, then used through slow Python steps | a loss seen by the XR thread stops the next substep |
| arm control, C`full_control`, `input_mapper`, `registered_input` | calibrated, engaged, release observed, gripper rearmed | Update, Control, Suppress, Calibrate | loss and recovery of tracking while a trigger is held | re-engages only after a release |
| Python simulation, P`runtime.py`, `scene_objects.py`, `gripper_control.py` | model, state, solver, controller, feedback, revision, objects | configure, object and room edits, reset, set_base_pose, step | an edit that fails half way; state carried to a rebuilt model; stale contact forces | an edit is all or nothing; forces are of the last step |
| rate sweep, T`performance/run_rate_sweep.py` | its step, trials, what it found | run, trial, health, trace, cleanup | a headset that dies or restarts, calls that raise after they took effect | trials are their own; the headset is left as it was found |
| package build, T`newton_codegen`, `full_port`, `build_quest.ps1`, `assets`, `verification` | directories with manifests | capture, compile, list, stage, prepare, verify | inputs that change between two reads; tools that stop half way | manifests are true; the parts of a package agree |
| room, C`room_scene.cpp`, `full_runtime_app.cpp` | query, scan, state, handles, monitors, the refresh latch, snapshot; what the worker is told | SetEnabled, Refresh, RequestCapture, Invalidate, Update, OnEvent, the frame, suspension, the session | answers to retired queries, a change of STAGE announced ahead, anchors that move between probes, automatic refreshes | what is ready is where the frames in force put it; a lost alignment stays lost until the user asks |
| cube placement, inspection, traces, timing, menus, settings, rendering, application shell, Newton runtime, kinematics, validation programs, analysis tools | | | | not modelled: see [below](#not-modelled) and `PROJECT.json` |

Components interact by **calls** (aim → client → policy; server → session → driver;
stream → source → map → publisher), **shared state under a lock** (the client's mutex,
the server's gate, the publisher's condition, the mailbox's and the simulation's mutex),
**messages** (64-byte commands and 96-byte feedback over one TLS connection; scene packets
over another), **callbacks** (`reset_map`, `map_generation`, OpenXR events), **flags** read
without a lock (`stop`, `stopping`, `clear_requested`), **files** (status and result files of
a run, recordings, bundles) and **references** (a copied Python session shares the objects it
does not rebuild).

`PROJECT.json` lists the hazards behind this table, by file and line, with the properties
that watch each. The two without one are not modelled.

## How the parts work

**Gimbal control.** The host's `SimulatedGimbalServer` serves one client at a time. A session starts
*locked*. A hold command *releases* it. An aim with the clutch, answering the
challenge of the last reply within 250 ms, gives the driver a target and a lease
of at most 200 ms and *arms* the session; each reply draws a new challenge. A
watchdog thread calls `tick` every 10 ms: when the lease has run out, `tick`
drives the axis to the deadline, holds it there and locks. Every fault, replay,
disconnect or map reset holds and locks too. On the headset the XR thread turns the trigger
into an intent each frame (`GimbalAim`) and leaves it in a slot (`Submit`). One worker
thread copies the slot every 50 ms, decides which operation may be sent
(`GimbalClientPolicy::Command`), waits for the reply for at most 250 ms and checks that it
continues the session (`Accept`). Each side keeps its own "needs release" flag.

**The simulation boundary.** The XR thread builds one input frame per display frame and
publishes it under a mutex. A frame in which the hand is not tracked, the menu is open or the
simulation is paused is *suppressed*; the first suppressed frame of a row, a lost
focus, a moved reference space and a fault raise the *suspension* counter that
each frame carries. A press of the calibration button is captured with the
frame's settings, reference and suspension, and travels with the frames until
an interruption clears it. The worker copies the newest frame with the settings and the
queued commands. It then works without the mutex: it starts or configures the Python session,
takes over a changed reference (the calibration is void) or suspension (the hand must
let go), runs the commands, uses the press if everything it was captured with
is still current, and takes up to four physics substeps. Before each substep it
compares its copy with the newest frame and drops the rest of the batch if they
differ; in each it judges the age of its copy again; the gripper is judged once
more before the physics step. An exception ends the batch and leaves the session
faulted until a reset.

**The remote scene.** A capture polls every camera, pairs its depth with an image, converts
both exposures to the host's clock and asks the histories for the poses at these times.
`build_rgb_batch` takes the frames exposed together and recently, validates them as a packet,
gives them to the retained map and validates the packet again with the keyframes the map
returns. The map keeps one anchor per camera and a few keyframes; a lost tracking or a clear
starts a new generation. `stream.py` stamps the batch and publishes it: the publisher keeps
only the latest packet, and each client's thread sends the latest it has not sent. The headset's
worker reads one connection and publishes into a mailbox, whose token retires the producers
of earlier connections. Both ends keep the highest sequence per identity.

**The room.** `RoomScene` asks the runtime for the saved rooms, then for their floors, chooses the room
around the head, asks for its members in batches and locates their surfaces in the STAGE space. The
surfaces become a snapshot in world coordinates, under the registration of that frame. From then on
an update probes up to four anchors, a sweep every half second; one that moved, or a sweep that is late, sets a
latch that only the user's refresh, a scan, switching off and on or a new session clears. A
query that is retired goes on at the runtime: its answers are adopted and destroyed, and no other
is asked before it ended. The app passes a changed snapshot and whether it is ready to the
worker, and withdraws the latter at a suspension.

**The edited scene.** Every edit of the Python scene makes a shallow copy of the session,
builds a new model, solver and controller for it, restores the old state into them by label,
takes a snapshot, and only then replaces the session by the copy.

**The rate sweep** starts the app once per rate, waits for its warm-up, collects health and a
trace, waits for the measurement and reads its result; its cleanup tries every part whatever
became of the others. **The package build** is a chain of tools: each reads directories,
writes its own and lists what it wrote in a manifest; the last one compares what the package
holds with all of them.

## Modules

Each operation of the code is an action of its own: its guard and effect are the code's, and
an operation that the code leaves by an exception keeps what it changed before the raise.
`Handle` of the gimbal session, for example, is the whole of `handle`: the tick, the refusals
that close the session, the branch, the tick inside `reply` and the new challenge.

### Gimbal control

| module | models | state ↔ code |
|---|---|---|
| `SimulatedPanTilt` | `gimbal.py`, the driver as operators on a record | `time`, `pan`, `target`, `command`, `tracked` are `_time`, `_pan`, `_target`, `_command`, `_tracked` |
| `MotionLease` | abstract: the dead man's switch | pan, time, phase (locked, released, live), end of the lease |
| `GimbalSession` | `gimbal_control.py` with the driver below it; one action per call made under the gate | `session` is the object's fields; `challenges`, `sessions` number the random values; `clearRequested` is the demo source's Event |
| `GimbalServer` | `gimbal_server.py`: EXTENDS `GimbalSession`, adds threads | `pc[c]` is the line the thread of connection c has reached in `_serve`; `client` and `wrapped` are `self.client`; `closer`, `watchdog`, `acceptor` are the other threads |
| `GimbalAim` | `gimbal_control.cpp`, the clutch as operators | `epoch`, `last`, `needsRelease`, `clutched` are the members of the class |
| `GimbalClient` | `gimbal_client.cpp`, the gimbal parts of `remote_scene_app.cpp`, the Java connection | `policy` is `GimbalClientPolicy`; `state`, `latest`, `resetRequested`, `stop` are `Impl`'s; `worker`, `taken`, `nextSend` are the worker's place and locals |
| `GimbalControl` | composition: `GimbalClient` (INSTANCE) and `GimbalSession` (EXTENDS) over one connection | four history variables remember the hand: `granted`, `letGo`, `regrip`, `pulled` |

`GimbalSession` treats each call under the gate as one step, which the gate
justifies: it is a lock around every call on the session. The driver's
own lock is only of interest to `set_tracking`, which does not take the gate.
`GimbalServer` splits the threads where they let go of the gate or block.
`GimbalClient` splits the worker where it lets go of the mutex: a copied intent,
the send, the wait and the reply are four steps. A wait tests the flag, blocks, and wakes by a
notify, at its time or for no reason, each a step; `Stop` raises the flag, notifies, closes the
connection and joins in four steps without the mutex, so that a notify can fall between a test and
the block after it and be lost.

### The simulation boundary

| module | models | state ↔ code |
|---|---|---|
| `ArmControl` | `full_control.cpp` and `registered_input.cpp` as operators | `calibrated`, `engaged`, `released` are the mapper's, `allowed` and `rearmed` the machine's `input_allowed_` and `gripper_rearmed_` |
| `SimulationBoundary` | `full_runtime_app.cpp` (XR frame, suspension, menu callbacks, worker loop) with `control_boundary.h`; EXTENDS `ArmControl` | `xr` and `worker` are the places of the two threads; `epoch` holds the three counters; `input`, `commands`, `settings` are the members under the mutex; `batch`, `paused`, `sim`, `left`, `allowed` are the worker's locals |
| `SimulationLoss` | an observer of every published loss on top of `SimulationBoundary` | `letGoSinceLoss` is history |

There is one action per critical section of the XR thread; the
worker's long stretch without the mutex is split where it calls Python or reads
shared state, so that frames, suspensions and the passing of time fall between. The queued
commands are taken one by one: a reset after a fault, then each pause in a critical section of its own.
`status.paused` and `fault` under the mutex are written by the worker only, with its
own `paused` and `faulted`, and are one with them here. What a batch leaves behind is
reset when the loop starts again, as its variables are local to it.

### The remote scene

| module | models | state ↔ code |
|---|---|---|
| `MeasuredPoses` | `pose_history.py` as operators on a sequence of samples | a sample is its stamp and whether tracking was there |
| `CameraCapture` | `realsense.py`: open, poll camera by camera, color, poses, deliver, close | `pipelines`, `last`, `images` and the two histories are the object's; `frames` is the poll's local; `logs` and `delivered` are history |
| `FrameSource` | abstract: what every user of a capture relies on | `shown` is the last exposure of each camera, `batch` the last delivery |
| `ObservationMap` | `observation_map.py` as operators on a record | generation, tracked, last production, anchors, keyframes, latest view per camera; a packet's views have `under`, the key of the color a part of them is left out for |
| `Recording` | `recording.py` | `writer`, `files`, `manifest` are the directory and its writer, `named` and `written` the files its list names and those its own run made; `judged` is what the loader's walk knows |
| `RetainedScene` | `build_rgb_batch` and `write_recording` on an abstract source; EXTENDS `FrameSource`, `Recording` | `map` is the retained map, `outcome` what the last call returned or raised |
| `SceneMesh` | `surface.py`'s reduction, triangles and even choice of points | operators over a depth grid |
| `SceneAssembly` | `rgb_surface.py` and the three protocol modules, from views to bytes and back, one step a view | `mesh`, `tiles`, `bytes` are the arrays under construction; `starts` and `arrays` are where the writer put the parts, `cursor` is the reader |
| `SceneBatch` | `stream.py`: arguments to the packet of a batch; EXTENDS `SceneAssembly`, `SceneMesh` | `host` is the parsed arguments, `interval` and `late` are ages of the packet's stamps |
| `SequenceHistory` | the replay protection of both ends | a function from identities to the highest sequence |
| `LatestPublisher` | `publisher.py`: accept, client and closing threads | `serving[p]` is the line of a client's thread, `clients` and `threads` the lists, `cut` the sockets `close` has shut down |
| `SceneReceiver` | `remote_scene_receiver.cpp` and the mailbox of `remote_scene.cpp` | `mailbox` holds the frame, its generation and history; `workers[c]` a worker's place, token and packet; `xr` the thread that starts and stops |
| `SceneStream` | composition: loop of `stream.py`, publisher, connections, receiver, and the map generation that the control channel reports | `loop` is the host's main thread; `generation`, `tracked` are the map's, `reported` the demo source's copy, `feedback` the headset's; what is drawn is compared with what came before in action properties |

`LatestPublisher` has one step per critical section of the condition and one per blocking
call; a send may fail at any time and is cut when `close` shuts its socket down. What
`close` copied under the condition and what a thread wraps meanwhile are kept apart (two
socket objects, "raw" and "tls"), because that is where they can miss each other.
`CameraCapture` splits a poll at each camera, since localization appends poses between.

### The room

| module | models | state ↔ code |
|---|---|---|
| `RoomScene` | `room_scene.cpp`, with `UpdateRoomEnvironment`, `SuspendFullInput`, the menu and the session of the app | `room` is `RoomScene::Impl`; `wanted` the setting, `refreshPending`, `desiredRoom`, `roomReady` the app's; `outstanding` are the requests the runtime has not ended, `stageChanges` the times at which STAGE changes, `world` the registration, `astray` since when an anchor is not where it was captured |

Every call and every event is one action, since all of them are the XR thread's. A frame is one action as well:
`SetEnabled`, the pending refresh, `Update` and the hand-over to the worker. The surfaces of a snapshot are
one *placement*: the time they were located at and the registration used.

### Programs of their own

| module | models | state ↔ code |
|---|---|---|
| `EditableScene` | abstract: a scene that is edited as a whole or not at all | `place` of every body, cubes `used` so far, `generation`, `room` |
| `SimulationSession` | `runtime.py`, `scene_objects.py`, `gripper_control.py` | `scene` is the session's own attributes with a reference to the model and controller it shares with a copy (`models`, `controllers`); `edit` is the copy under construction |
| `RateSweep` | `run_rate_sweep.py` and the headset it drives | `host` is the sweep's step and locals; `app` the process, `status` and `result` files on the headset, `proximity` its sensor |
| `BuildTools` | what the package's tools have in common | `inputs` by version, `tool` the running tool and its locals |
| `GraphBundle` | `build_android_artifacts.py`, `verify_bundle.py` | `artifact` is the output directory |
| `RuntimeBundle` | `stage_warp_android.py`, `stage_python_runtime.py` | `warp`, `runtime` are directories: files and manifest |
| `ApkBuild` | `build_quest.ps1`, `convert_franka_meshes.py`, `prepare_apk_runtime.py`, `verify_apk.py`; EXTENDS the two bundles | `meshes`, `staging` are directories, `apk` the package |

### Checks and proofs

| module | for |
|---|---|
| `MC…` | the instances that TLC checks: values of constants, scenarios, mutants that need an instance. `MCSimulationBoundary` bounds three stories of the boundary; `MCPrograms` puts three programs side by side, `MCSurroundings` the retained map and the room. `CameraCapture` runs as it is. |
| `…Proofs` | theorems, one module per component, and one for the three programs of `MCPrograms`: `GimbalSessionProofs`, `ServerProofs` (EXTENDS the former), `ControlProofs` (EXTENDS the first), `BoundaryProofs`, `RetainedProofs`, `StreamProofs`, `SceneBatchProofs`, `ProgramProofs` |

## Runs

A mutant of a property is an operator beside the definition it replaces, marked "Mutant", that
changes the code's behaviour as a plausible bug would; TLC refutes the property under the
same configuration. `PROJECT.json` has one for every property of every passing run. A
property whose name ends in `Inv` is a conjunction of named parts.

| run | question |
|---|---|
| `server` | All threads of the control server in every order, with hang-ups, a driver that loses tracking, a watchdog that fails and a `close()` anywhere. `ServerInv`: types (`ServerTypeOK`), one owner of the session (`SessionOwnedBySlot`), nothing left after `close()` (`ClosedIsEmpty`), no command after the watchdog failed (`NoCommandAfterWatchdogFailure`), a driver with a standing command is under an armed session (`CommandOnlyWhileArmed`). Does nothing move once `close()` held the axis (`NoMotionAfterClose`)? Does the command that arms, or moves the lease, itself carry the nonce and the challenge issued last, in time and newer than those before, and is that challenge spent for good (`LeaseConsumesChallenge`)? |
| `server_live` | Without tracking loss: can the watchdog's tick raise (`TickNeverRaises`)? Is the session a dead man's switch (`ImplementsLease`)? Is an expired lease ended without its client (`LeaseEnds`)? Is a lost connection's slot freed and does `close()` end (`ServerSettles` = `SlotFreed`, `CloseEnds`)? |
| `control` | Headset and host together. `ControlInv`: types, neither side turns down what the other legitimately sends (`NoFalseRejection`), the two needs-release flags never disagree in the dangerous direction (`LockedClientIsIdle`), and nothing holds a worker that the headset joins but one send period: the connection of a call it is in is closed, and a wait that missed the notify ends a send period after the flag at the latest (`StopNeverWaits`). `LeaseBoundedByHand`: a lease ends at most intent age + challenge age + lease after the frame it came from, however long messages are on the way. `EverySessionNeedsTheHand`: after a disconnect or a failed worker the old session and its last command may still be on the host when the next connection opens; a hand that stayed closed does not drive it. `RearmNeedsLettingGo`: after a lost lease, none without a hold submitted since. |
| `boundary` | Frames, the menu, lost focus, aged frames, pauses by queued commands, resets, rebuilt models and recentring at any point of a batch. `BoundaryInv`: types, at most one substep is taken on a frame that was overtaken (`OneLateSubstep`), no calibration outlives its reference space (`CalibratedInReference`), a press is used once (`PressUsedOnce`). `HandMustLetGo`: after an interruption a physics step follows the hand (`ArmNeedsRelease`) or closes the gripper (`GripperNeedsRelease`) only if the trigger was released since. `StaleInputNeverDrives`: never on an old frame, control tick due or not. |
| `boundary_live` | Does a hand that is lost, interrupted, or whose frames stop coming, let go of the arm (`HandLetsGo`)? |
| `loss` | Expected violation, see [finding](#finding): is every one-frame loss an interruption (`EveryLossNeedsRelease`)? |
| `stream` | Map, publisher, broken and reopened connections, receiver and map clears. `PublisherInv`: types, no thread after `close` (`NoThreadAfterClose`), and `close` raises only while a client's TLS handshake is on (`CloseRaisesOnlyWhileWrapping`). `HeadsetInv`: the headset rejects no packet of its host (`HeadsetNeverRejects`), one worker reads (`OneReader`), a shown frame came over the current stream (`ShownCameFromHere`). Frames are drawn in order (`FramesInOrder`), and the reported generation never goes back (`FeedbackNeverGoesBack`). |
| `stream_live` | Does a headset that stays connected get the latest packet and a cleared map (`HeadsetCatchesUp` = `LatestReachesHeadset`, `ClearReachesHeadset`)? Does `close()` end (`PublisherCloses`)? |
| `capture` | Late, repeated and reversed frames, color apart from depth, poses that come after the frames. `CaptureInv`: types, every pose was measured (`PosesAreMeasured`). `AnswersNeverChange`: a history asked again for the same time never contradicts itself. `ColorNeverGoesBack`. `CaptureImplementsFrameSource`. |
| `surroundings` | The map: `RetainedInv`: types, the map refuses no batch a frame source delivers and both validations of its packet pass (`BatchNeverFails`), every finished recording loads, and names only frame files of its own run (`RecordingLoads`). `NothingFromBeforeTheClear`: nothing the map stores was seen before the last clear or lost tracking. `NoExpiryHole`, over the packets and all times after them: as long as a headset that gets nothing more would still show a gray view, it shows the color keyframe of the same packet that a part of the view was left out under. The room: `RoomInv`: types, what the worker is told is ready was placed by the frames in force (`ReadyIsInFrame`), no anchor is astray for longer than the limit under a ready room (`ReadyIsWatched`), handles are used only while they are owned and none is left over (`HandlesAreOwned`), one request at a time (`OneRequestAtATime`), one revision names one set of surfaces (`RevisionNamesSurfaces`). `FrozenUntilAsked`: nothing but the user or a new session releases a lost alignment or takes its surfaces from physics. |
| `programs` | The scene: `SceneInv` (types; forces are those of the last step; the setpoint is the commanded one), `UnfinishedEditLeavesTheScene`, `ClosesOnlyOnFreshForces`, `SessionImplementsScene`. The sweep: `SweepInv` (trials are its own; the headset is left as found whichever call raises, the first included; a severe reading is raised; a sweep that did not raise has all its trials). The tools: `BundleInv` (manifests are true; captured at the pinned commit, and as listed as far as the checks can tell, `CapturedAsListed`; the parts of an accepted package agree, `PackageAgrees`). |
| `packets` | Every combination of arguments and the largest and smallest frames. `BatchInv` (types; a started mode fits its cameras, apart from images of one line, calibrations that 32 bits do not hold and poses out of reach, and nothing else ends it; only an overdue legacy packet fails; atlas tiles do not overlap), `EveryBatchFits` (every limit of the wire), `ReaderFollowsWriter` (the reader takes each view, its images and mask or its metadata, and each array or the points where the writer put them), `PointsSpread` (the points kept of too large a cloud are spread evenly, under every budget). |

`CHECK_DEADLOCK FALSE` is said where the system really stops: a closed server or publisher, a
capture that was closed, a program or a batch that ended. The control and boundary runs check
deadlock.

### Finding

The comment at `full_runtime_app.cpp:825` says that the suspension counter lets the
worker "consume any intervening menu/focus/tracking loss even if it lasted one XR
frame". `loss` finds one that it does not. The simulation is paused and being
resumed: frame G reads the pause (line 456) before the worker takes it back, so
G counts as suppressed, and is published with the trigger released after the worker
resumed. The next frame H loses the hand. Since the frame before it was
suppressed, H raises no suspension (line 464). The worker, in a slow call, never sees
H: it takes G's release, then frame I with the hand back and the trigger held, and
engages. `HandMustLetGo`, which speaks of the interruptions that were counted,
holds (`boundary`) and is proved (`InterruptedHandLetsGo`).

### Tracking loss of the gimbal

`set_tracking` (`gimbal.py:175`) is called by tests only. It
takes the driver's lock and not the gate. If it comes after a deadline that no
tick has seen, the driver moves to the time of the call (for at most its own
250 ms) and the next `advance(self.expiry)` in `tick` raises "simulation time
reversed"; so do all later ones, the watchdog fails, and `_serve`'s `finally`
raises too and leaves the slot taken. With `TrackingLoss = TRUE`, the models
contain these states: `server` checks what still holds in them, and the theorems of
`ServerProofs` hold in them. `TickNeverRaises` and `ImplementsLease` need its absence
and are checked, and proved, with `TrackingLoss = FALSE`. It
is no finding, because no document promises otherwise; it is a hazard for the
first caller of `set_tracking`.

## Bounds

Clocks and counters are capped in the guards; a bound is named in its module and given in the
configuration.

* **Gimbal control.** `MaxTime` 3: a lease (1) and a challenge (1) can each run out before, at and
  after the driver's timeout (2) and be missed by the watchdog. In `control` every age limit
  is 1 but the intent's, 0: an intent is fresh only in the unit of its frame, so that
  the sum of the limits and one unit beyond it lie within the horizon. `MaxSessions` bounds the
  connections the host accepts, `MaxStarts` those the headset begins: two suffice
  for everything that one session can leave to the next, as nothing is kept longer than that.
  `control` has two scenarios, one connection for three units ("lease") and two connections for
  two ("restart"). `Inputs` of `server` are frames with any combination of nonce,
  challenge and sequence from a set that includes the right one and wrong ones, one malformed
  and one beyond the pan limit; in `control` the only commands are the client's. The lease is
  shorter than the driver's timeout, as in the code (200 ms, 250 ms): `LeaseWithinTimeout`.
* **Boundary.** No clock: the age of each sample is counted up to the first value that is too old
  (`TooOld`), which is exact, as ages are only compared with their limit. `MaxSuspensions`,
  `MaxReferences`, `MaxPresses`, `MaxSettings` bound counters the code compares for equality
  only; one interruption falls into a fresh start, an engaged arm or a pause. `MaxSubsteps` 2
  lets an overtaken frame meet a second substep; the queue is full after one command in the runs,
  the theorems are for any queue.
* **Stream.** Two connections: one that is retired and one that replaces it. Three batches and three
  generations in two histories, one in which the publisher is closed and one in which the map is
  cleared; `stream_live` has one connection, two batches, two generations.
* **Capture.** One RGB camera on the gimbal, histories of two samples with a gap of two: the oldest
  sample drops while a question about it can still be asked. Two cameras are in `surroundings`.
* **Retained scene.** Two cameras, one with color, three units of time, a retention of one,
  ages of two and a skew of one within a packet, one keyframe and two places: the budget is exceeded, a view
  covers a keyframe, and both expire; three generations; two recorded batches and a manifest of
  nine entries, which two posed batches can exceed.
* **Room.** Three units of time with every age, interval and stall of one or two of them, so that each can
  pass before a change that was announced; two registrations; two surfaces probed one at a time, so that a sweep
  takes two updates; six snapshots, or five clears around one.
* **Programs.** Two cubes, two physics settings, opening width two; two rates, three processes;
  two changes of inputs, each of three versions of which the last two put the links in the same places: an edit, an edit
  that is put back, and one that the replay tests cannot tell all happen.
* **Packets.** The numbers are the code's: grids of 640 × 480 and 1280 × 720, 1 to 6 cameras (five is the
  limit), one with a single line of pixels, one with a calibration too fine for the wire, poses in and out of reach, voxels {0, 1, 7, 50001}, budgets {5, 50000}, keyframes {0, 1, 4}.

No symmetry is used: identities are compared with what was drawn last, cameras have an order.

## Fairness

`server_live` assumes that a thread which is not waiting for its peer's next
command moves on: the socket calls have timeouts (2 s during the handshake,
0.1 s for a command), the gate is held only for computation, and `stopping.wait`
wakes the watchdog. It does not assume that a peer connects, sends or hangs up,
nor that anyone calls `close()`. The fairness is per thread and on moving on, not
on any outcome: a handshake may always fail.

`stream_live` assumes the same of the publisher's threads and the headset's worker. It promises
nothing of the user, of the operator who ends the host, of batches to come, nor that a
connection does not break: `HeadsetCatchesUp` is about a headset that stays connected. A
connection breaks for certain only when the publisher is stopping, and the worker fails for
certain only when it was told to stop.

`boundary_live` assumes that `UpdateFullRuntime`, once it started, returns, that the
worker goes on (it blocks only in Python calls and for 1 ms at the end of its loop)
and that again and again, when it asks the clock, substeps are due: the clock
counts wall time, and the loop runs every millisecond. It does not assume that
another XR frame comes, nor that a control tick is due. It leaves the menu out, which
only adds suppressed frames.

## Proofs

The theorems hold for all values of the constants under the assumptions that the modules
name (`ASSUME`): a number is a natural number, a timeout or a history is not
empty, `MaxLease <= CommandTimeout`, the frames a client may send are commands, the sets of
cameras are finite, the labels of the bodies differ. TLC evaluates these assumptions in every run. Every invariant below that is called
inductive was checked by TLC before it was proved.

| module | theorems | state a property of |
|---|---|---|
| `GimbalSessionProofs` | `TypeCorrect`, `MotionNeedsArming`, `WatchdogNeverFails`, `SessionImplementsLease` | `server`, `server_live` |
| `ServerProofs` | `ServerHolds`, `HeldAfterClose`, `ServerConsumesChallenges` | `server` |
| `ControlProofs` | `LeaseEndsWithTheHand`, `HandBeforeMotion`, `RearmingNeedsARelease`, `MachinesAgree`, `StopGoesOn` | `control` |
| `BoundaryProofs` | `BoundaryHolds`, `InterruptedHandLetsGo`, `OldFrameNeverDrives` | `boundary` |
| `RetainedProofs` | `BatchesAreTaken`, `ClearForgets`, `ColorOutlivesGray`, `RoomIsInFrame`, `LostStaysLost` | `surroundings` |
| `SceneBatchProofs` | `EveryPacketFits`, `ReaderFinds`, `BatchAssembles`, `BatchIsSafe`, `PointsAreSpread`, `ImagesHaveTiles`, `SelectedIsSpread` | `packets` |
| `StreamProofs` | `PublisherHolds`, `HeadsetHolds`, `ShownInOrder`, `GenerationNeverFalls` | `stream` |
| | `CaptureHolds`, `AnswersKept`, `ColorsInOrder`, `CaptureIsSource` | `capture` |
| `ProgramProofs` | `BuildTypeCorrect`, `BundlesTrue`, `PackageHoldsTogether`, `SweepHolds` | `programs` |
| | `SceneHoldsTogether`, `FailedEditsLeaveTheScene`, `ForceClosesOnReadings`, `SessionIsScene` | `programs` |

**The session.** `Settled(d, s, t)` says what holds between two operations at time
t: types, the driver's time is not ahead of t, an armed session is live and
needs no release, and a command in the driver means an armed session whose lease
ends within `MaxLease` of it. One lemma per operation (`TickSound`, `CloseSound`,
`ExecuteSound`, `HandleSound`, over the driver's `AdvanceSound`, `HoldSound`,
`TargetSound`) shows that it takes settled states to settled states, also when it
raises. `SessionInv` is `Settled` plus the counters, and is inductive. `TypeOK` and
`CommandOnlyWhileArmed` are consequences; neither is inductive alone, because what a dropped
session leaves in the driver depends on the hold in `close`. `Timely` strengthens it: an armed
session's driver has not passed the deadline. Each operation keeps it, because it starts with a
tick that holds at the deadline (`TickTimely`), and a granted lease ends after the driver's time.
This is where tracking loss must be excluded. From `Timely`, a tick cannot
raise; and each step is a step of `MotionLease` (`MoveIsLeaseStep`): the axis moves at most
the part of the interval that the lease covers, also when the tick comes late.

**The server.** `Safe == SessionInv /\ ServerTypes /\ SlotInv /\ StopInv`. `SlotInv` says which
connection owns the slot and the session at each line of `_serve`; `StopInv` says what each
thread may still do once `stopping` is set. A step that leaves the driver held is *gentle*: once
`close()` has held the axis, the steps that are left are gentle, or refused because the session
is gone. The hard case is a `finally` that raises under tracking loss: its session is
*stuck*, keeps the slot, and can no longer be commanded (*idle*).

**Headset and host.** The invariant follows each command from its intent: the client's stamp
lies between the intent's and `sampled + IntentAge`, and the challenge it answers was issued no
later than the client sampled it; hence whatever the host grants ends within the sum of the
limits, though no clock of one side is compared with the other's. The client's commands are
well-formed and in order, so `handle` never refuses one (`NoFalseRejection`). For a
new connection or after a lost lease, one of the two sides always still needs a release until the
history variable says that one was submitted: this is what both flags together are for, neither is enough alone. `WaitInv` bounds the wait
that a lost notify leaves: while the flag is up, the worker's next time is at most a send period after it.

**The boundary.** `TypesInv`, `OrderInv` (the counters a batch carries are at most those of the
input, and the arm's at most those of the batch), `ReleaseInv` (what the arm remembers of
a release is not older than the counters it has taken over), `WorkInv` (what the worker's
locals are at each of its steps) and `LateInv` (a substep on an overtaken frame is the last of its
batch). `HandMustLetGo` and `StaleInputNeverDrives` are action properties that follow.

**The retained scene.** `Safe == SourceInv /\ MapInv /\ JudgedInv /\ WriterInv /\ PacketInv`. The map's latest
view of each camera is never newer than what the source has shown, so that an entering view is
newer than any stored one: nothing is refused as reordered, the keys of views and keyframes are
disjoint, and both validations of the packet pass. `MapInv` says of everything stored that
it was seen in this generation, that keys are distinct among keyframes and anchors,
and that the budget holds. The loader's walk over the listed batches follows the
source in the same way, so that a saved manifest passes it. `PacketInv` says of the last packet that the color a view is left
out under is one of its keyframes, solid and at least as young; it is kept because the choice comes after budget and carving,
which is what `NoExpiryHole` rests on.

**The room.** `RoomIndInv` has three kinds of parts. `Sound(room)` is about `RoomScene` alone: the latch is on exactly
in `NeedsRefresh`; a query that is not stale means the state waits for it; what a query returned is owned, and what is used
is owned; whoever does not acquire owns nothing; and one query or one scan is out. `Calm` and `Foreseen` carry the announced change: a room
that acquires has no change ahead of it, since an announcement invalidates it and nothing starts before its
time. `Applied` and `ReadyStands` then say that the snapshot, and what the worker was told, were placed after every change
of STAGE that is known of, and that each anchor was verified before it went astray; `Revised` that the worker's revision never runs ahead.
`ReadyIsInFrame` alone is not inductive: without `Calm` a frame could build during an announced change. Every
operation *halts* (`Halts`: the acquisition is over, and what was lost stays lost, with its snapshot) or leaves its user's
choices alone and at most keeps what was there (`Stays`) or places it once, from the state `Build` (`Goes`); `LostStaysLost`
follows from the middle clause of all three.

**The stream.** `Safe` has six parts. `LoopInv`: where the host's loop is, how its sequence, the
version and the generations it reports lie to each other. `ThreadsInv` and `CloseInv`: the threads that serve are
those the publisher knows of, and each has a connection that `close()` has found or has yet to find, so that
none is left when it has joined them. `ReaderInv`: a worker that reads has the mailbox's token and the
connection. `ShownInv`: the mailbox's history is part of the host's and no sequence in it is above the frame's, which
is why the headset rejects nothing. `OrderInv` follows one connection end to end: the frame shown is older than the
one the worker has taken, that one than what is in the socket, than what the thread holds, and
all are at most the version, less than it while the thread has yet to send it.

**The capture** (in `StreamProofs` too, as the other end of the host). `CaptureSafe` says that each bounded
history is a *segment* of the log of everything measured, its end. The rest follows from one fact about segments
(`SegmentAround`): a time that a segment brackets is bracketed in the whole by the same two samples. So
what a history answers the log answers (`SegmentAnswers`, `SegmentWindows`), and as the logs only grow, a pose
once given stays right; and two histories that are segments of a third never answer differently,
which is `AnswersKept`. `PollInv` orders what a camera delivered, the exposure last accepted, and the image
remembered, through each step of a poll; from it follow `ColorsInOrder` and, step by step,
`CaptureIsSource`. `FrameSource` is the assumption under which `RetainedProofs` shows that no batch is refused, so
that the two together speak of the real capture.

**A packet.** `AssemblyInv == PartsInv /\ MeshInv /\ WireInv`: the parts placed so far are the sums of
their sizes, each view is within 3072 vertices and 17766 indices and at most five are in a row of the atlas;
the wire's offsets form a chain that the reader follows. From the bounds of a view and the number of
views follow all limits of the format. `TilesInv` adds where the cursor of the atlas stands: tiles of a row
end where it begins, rows above end at its row, hence `ImagesHaveTiles`. `BatchAssembles` carries the result to the host's
loop. `LoopInv` is the loop's own part: the mode follows from the arguments, the ages of a packet are within the limits when it
is built and only a legacy packet of a live source is stamped again, and points are never more than the budget.
That no batch is refused (`NothingIsRefused`) needs that every view made of a camera's image is canonical
(`ViewIsCanonical`): a mesh's triangles and corners are counted (`MeshCounts`) for a grid of any size. The
constants are no narrower than the code's own check of a calibration: `Intrinsics.validate` lets an image of
one line pass, which `surface._reduced` refuses, and a focal length that 32 bits do not hold, which `_intrinsics`
refuses. A host started with such a camera in a surface mode stops at its first frame; the loop then ends in "unfit",
and in "stray" if a recorded or captured pose is out of `_transform`'s reach. `BatchInv` says that these two
ends happen to no other rigs and sources. `SelectedIsSpread` proves about the choice of points, for every number of them,
what TLC's integers can show for small clouds only.

**The package.** `BuildTypeOK`, `WarpInv`, `RuntimeInv`, `GraphInv`, `QuestInv`: what each directory
holds at each step of the tool that writes it, whatever else has changed meanwhile. That the parts of a package
agree follows through the chain of hashes: package to staging, staging to graphs and
meshes, graphs and runtime to the description. What does *not* hold, and is not claimed, is that a package is of one robot:
the graphs are captured from one read of the description and their manifest has the hash of another
(`capture_franka.py:79` and `:214`), and the replay tests compare the poses of the links only
(`test_graph_replay.py:98`). An edit that is put back between the two reads, or a change of masses alone,
gives graphs of one robot under the hash of another, and an accepted package with them. `CapturedAsListed` says how
far the checks reach: without an edit during the build the graphs are of the listed description, after one edit
they have at least its poses, and only after two can they differ in everything.
A hash taken of what was captured would close this.

**The sweep.** `SweepSafe` relates the host to a headset that goes on by itself. `DeviceInv`: a running
benchmark's status is its own, and a process that has written a result measures no more.
`MeasureInv` follows a trial: until the host looks for the result it has disturbed
no measurement of the process it looks for, and it asked either that process or none that
could still complete (`Lost`): the app may die and start again between any two looks, under another
process number, and then no complete result of the first can come. `CleanInv` says what each part of the cleanup has
left if none has noted an error.

**The Python session.** `SessionSafe == ObjectsOK /\ SceneHolds /\ EditHolds`. `SceneHolds` is the session at rest:
it uses the objects of one build, their bodies are the ones it names, in its order, each with its own motion, and
forces, contacts and setpoint are theirs. `EditHolds` follows the copy: what it was asked to
change (`Asked`), which objects are its own at each stage (`HasBuilt`: before that it shares the session's), and what
its model holds when it is about to replace the session (`Furnished`). That an edit which
fails leaves no trace follows from `HasBuilt`, for every stage works on the copy's own objects only; that the setpoint
survives follows from `Furnished`. The refinement (`SessionIsScene`) maps every body to the place its model gives it.
All stages of a build stutter, and the commit is the whole edit: `PlaceAfterPut` says that copying by label puts every body back where it was
under its new index, since an id names one cube (`FoundIs`, `TakenOut`, `PutLast`).

## What is only model-checked

* **Liveness**: `LeaseEnds`, `ServerSettles`, `HandLetsGo`, `HeadsetCatchesUp`,
  `PublisherCloses`. The provers have no rule for fairness.
* **Recursion and induction over data**: sums over all views, sequences of any length;
  the proofs use invariants of the loops instead.
* Every safety invariant that a run checks is proved, and so are the action properties and the refinements.

## Abstractions

* **Time.** One unit stands for the granularity of a module; all limits are counted in it. Both
  clocks of the gimbal run at one rate. No stamp of one is compared with one of the
  other, as in the code; the host sees the headset's stamps only as increasing numbers.
* Angles are counted in what the axis travels in one unit of time; the tilt axis
  obeys the same code and is left out; floating-point rounding is not modelled.
* Random values are counters: a nonce or challenge is never drawn twice and
  never guessed. The code redraws only zero.
* Feedback leaves out angles, limits, source and map generation, which are
  constant or unrelated to the properties here; the checks of `Accept` on them
  are therefore absent from `Rejects`. `SceneStream` has the map generation.
* Whether the scene, the menu, tracking and focus let the trigger count is one
  input of `Frame` (`ready`); a change of another part of the epoch has the
  effect of a frame that is not ready.
* Frames and menu commands without a connection are left out of `control`: the
  worker cannot send then, and `Start` resets what they would leave. A `Stop` that no `Start`
  follows is left out as well: it ends the headset's part, and the host's reaction to a closed
  connection is the same as to a lost one.
* In `GimbalControl` the server is its session, watchdog and slot; its threads
  are `GimbalServer`'s subject.
* In `SimulationBoundary` a hand is tracked or not, the trigger is
  low, in between or high, and whether poses normalise and the inverse kinematics
  has a solution is an input (`Poses`). Room collisions are off and no cube is
  edited, so `RoomPhysicsBlocked` is false and the edit queue is empty; the base's
  placement, the offset of the hand, recording and status texts are left out.
  How many substeps are due, whether one has a control tick, and whether a
  setting or a box rebuilds the model, is chosen freely.
* An exposure is named by its time. Poses are named by the samples they come from; a camera sees
  *places*, and a carving wipes any set of places. The gray images of `RetainedScene` share
  their depth's exposure, as those of `capture` do.
* The recorder admits 600 batches and a manifest of four megabytes, judged at the end: 600 posed
  batches of five cameras are about 4.9 megabytes. `RetainedScene` has both limits, and a
  writer that raises at the second; that it does so after all its work is how the code is.
* In `RoomScene` one clock stands for `steady_clock` and for the display times of the frames. Whether handles
  and surfaces can be read, matched and located is the outcome of one event or frame, apart from an anchor that cannot be
  located *yet*. A change of STAGE is announced before it happens, in the session it belongs to, as OpenXR has it; an announcement
  that is lost with other events is not modelled. After lost events a scan may never be seen to end:
  it then keeps its place until the session ends, as in the code. Device permission is polled by frames, while the setting
  is on. What the worker does with a room is `RoomPhysicsBlocked`'s part, below.
* In `SceneAssembly` a view has its sizes and offsets, not its contents. Of the other checks of a view (`surface_protocol.py:98-101`)
  `SceneBatch` has one outcome each: `single`, whether 32 bits hold a calibration, and `far`, whether a pose is out of reach. Depth units that
  32 bits do not hold are part of `single`. In `SceneBatch` the image of a frame
  has an age of its own; one exposed apart from its depth is new or as old as a frame can be, and of the plain scene.
* In `SimulationSession` a body is at home or moved, physics is a label of the step it
  solved, and the gripper's forces say of which step they are.
* In `RateSweep` the host reads of a trial what decides something. A keyboard interrupt is left
  out: a sweep is cancelled by its cancel file. If `discover` or a first look at the headset raises, before the `try`, the
  sweep is "refused" and has changed nothing.
* In the package's tools contents are versions: two files are equal if their versions are. One tool
  runs at a time. The operator builds a package only of graphs whose build returned, as the mesh
  tool asks. A change of the description may be put back, and may be one that
  the replay tests cannot tell (`LinkPoses`). The description
  is read twice by the graph build (`capture_franka.py:79` and `:214`), and both reads are steps. A
  checkout that is changed and changed back between two checks is excluded explicitly by
  `CapturedAtThePin`. One mesh stands for ten. A library that nobody listed, which the last
  copy would take along, is not covered. Gradle is external.
* TLS, authentication, configuration files and byte layouts: success or failure.
  `sendall`, `recv` and `connect` are external: they succeed, fail or time out
  as their place in the code allows.

## Not modelled

`PROJECT.json` lists every component with what it leaves out. Whole components without a model:
the placement of cubes and the worker's check of a room it applies; the settings' layout and validation; decoders of
snapshots and the interaction trace's ring; the OpenXR lifecycle, device benchmarks and timing
statistics; OpenGL; offline validation programs of the Python simulation; floating-point kinematics
and the loading of compiled graphs; fixtures and analysis tools, which are one pass
over numbers or images.

## Plan

1. `ObjectPlacement` and the room the worker applies: an edit is applied at most once and only on the scene it was
   confirmed in, and physics never runs on a room the headset does not report ready. This is the hazard of the headset that
   no property covers yet; `RoomScene` gives it what is ready, `SimulationBoundary` the worker.
