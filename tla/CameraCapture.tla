---------------------------- MODULE CameraCapture ----------------------------
(***************************************************************************)
(* Capture of realsense.py: one poll reads the newest frame set of every   *)
(* camera in turn, pairs depth with an image, and asks the measured poses  *)
(* for both exposures. The SDK is external: it hands over any frame set,   *)
(* fails anywhere, and localization appends poses while a poll runs.       *)
(*                                                                         *)
(* An exposure is named by its time on the host clock, 0 when the clock    *)
(* conversion refused it; the frame number is taken to follow the time.    *)
(***************************************************************************)
EXTENDS MeasuredPoses, FiniteSets

CONSTANTS Cameras, RgbCameras, MaxTime,
          MaxAge,        \* two seconds: exposure age, and the start-up grace
          MaxSkew,       \* max_pair_skew_ms
          Radii,         \* choices of support_window_ms in the RGB policy
          Traces         \* pose traces a configuration may name

ASSUME CaptureAssumption ==
    /\ Cameras \subseteq Nat /\ Cameras # {} /\ IsFiniteSet(Cameras)
    /\ RgbCameras \subseteq Cameras /\ GimbalCamera \in Cameras
    /\ {MaxTime, MaxAge, MaxSkew} \union Radii \subseteq Nat
    /\ \A trace \in Traces : InOrder(trace)

VARIABLES now,
    config,                  \* [version, posed, trace, color, radius], fixed when the capture is built
    phase, pipelines,        \* where the capture is, and the cameras it started
    started, remaining,
    previous, lastImages, frames, tracking,
    batch,                   \* what the last poll returned, and when
    robot, gimbal,           \* the pose histories
    \* To state properties: every sample ever measured, and the newest exposure
    \* and usable image every camera has delivered.
    robotLog, gimbalLog, delivered

poseVars == <<robot, gimbal, robotLog, gimbalLog>>
captureVars == <<now, config, phase, pipelines, started, remaining, previous,
                 lastImages, frames, tracking, batch, poseVars, delivered>>

Phases == {"opening", "idle", "polling", "stopped"}
NoFrame == [depth |-> 0, image |-> 0, usable |-> FALSE]
NoFrames == [c \in Cameras |-> NoFrame]
NoPrevious == [c \in Cameras |-> [depth |-> 0, image |-> 0]]
Rgb(c) == c \in config.color
Missing == MaxTime + 1       \* the frame set holds no image

CaptureInit ==
    /\ now = 1 /\ phase = "opening" /\ pipelines = {} /\ started = 0
    /\ config \in [version : {1, 2}, posed : BOOLEAN, trace : BOOLEAN,
                  color : SUBSET RgbCameras, radius : Radii]
    /\ config.version = 1 => config.color = {}
    /\ config.color = {} => config.radius = Min(Radii)
    /\ remaining = {} /\ previous = NoPrevious /\ lastImages = [c \in Cameras |-> 0]
    /\ frames = NoFrames /\ tracking = TRUE
    /\ batch = [frames |-> NoFrames, tracking |-> TRUE, produced |-> 0]
    /\ IF config.trace THEN config.posed /\ robot \in Traces /\ gimbal \in Traces
       ELSE robot = <<>> /\ gimbal = <<>>
    /\ robotLog = robot /\ gimbalLog = gimbal /\ delivered = NoPrevious

(***************************************************************************)
(* Opening and closing                                                     *)
(***************************************************************************)
\* close: every pipeline is stopped and the image cache is dropped.
Closes == /\ phase' = "stopped" /\ pipelines' = {} /\ remaining' = {}
          /\ lastImages' = [c \in Cameras |-> 0]

\* open starts the cameras one by one and validates each.
StartCamera ==
    /\ phase = "opening" /\ pipelines # Cameras
    /\ pipelines' = pipelines \union {Min(Cameras \ pipelines)}
    /\ UNCHANGED <<now, config, phase, started, remaining, previous, lastImages,
                   frames, tracking, batch, poseVars, delivered>>

Opened ==
    /\ phase = "opening" /\ pipelines = Cameras
    /\ phase' = "idle" /\ started' = now
    /\ UNCHANGED <<now, config, pipelines, remaining, previous, lastImages,
                   frames, tracking, batch, poseVars, delivered>>

\* open or a poll raises anywhere, check_wall at its head included, or the caller
\* leaves the with statement. A stopped capture is not followed further.
Stop ==
    /\ phase # "stopped" /\ Closes
    /\ UNCHANGED <<now, config, started, previous, frames, tracking, batch, poseVars, delivered>>

(***************************************************************************)
(* Time and localization, at any moment                                    *)
(***************************************************************************)
Tick ==
    /\ phase # "stopped" /\ now < MaxTime /\ now' = now + 1
    /\ UNCHANGED <<config, phase, pipelines, started, remaining, previous,
                   lastImages, frames, tracking, batch, poseVars, delivered>>

\* An integration appends measured samples, late or not; a trace was read whole
\* before, and nothing is added to it.
MeasureRobot(stamp, tracked) ==
    /\ phase # "stopped" /\ config.posed /\ ~config.trace /\ Appends(robot, stamp)
    /\ robot' = Extended(robot, stamp, tracked)
    /\ robotLog' = Append(robotLog, [stamp |-> stamp, tracked |-> tracked])
    /\ UNCHANGED <<now, config, phase, pipelines, started, remaining, previous,
                   lastImages, frames, tracking, batch, gimbal, gimbalLog, delivered>>

MeasureGimbal(stamp, tracked) ==
    /\ phase # "stopped" /\ config.posed /\ ~config.trace /\ Appends(gimbal, stamp)
    /\ gimbal' = Extended(gimbal, stamp, tracked)
    /\ gimbalLog' = Append(gimbalLog, [stamp |-> stamp, tracked |-> tracked])
    /\ UNCHANGED <<now, config, phase, pipelines, started, remaining, previous,
                   lastImages, frames, tracking, batch, robot, robotLog, delivered>>

(***************************************************************************)
(* One poll                                                                *)
(***************************************************************************)
BeginPoll ==
    /\ phase = "idle" /\ now > batch.produced
    /\ phase' = "polling" /\ remaining' = Cameras
    /\ frames' = NoFrames /\ tracking' = TRUE
    /\ UNCHANGED <<now, config, pipelines, started, previous, lastImages, batch,
                   poseVars, delivered>>

\* ExposureClock.convert; a cached RGB camera may hold a stale image.
Converted(t) == t # 0 /\ t <= now
Recent(t) == Converted(t) /\ now - t <= MaxAge
\* The SDK may not have fitted its global clock to a camera yet.
Starting(c) == previous[c].depth = 0 /\ now - started < MaxAge

Cached(c) == [stamp |-> lastImages[c], candidate |-> FALSE]

\* Mutant: the image of a frame set is taken even when it went backwards.
PickedAny(c, image) ==
    LET fresh == IF Rgb(c) THEN Converted(image) ELSE Recent(image) IN
    IF image = Missing \/ ~fresh THEN Cached(c) ELSE [stamp |-> image, candidate |-> TRUE]

\* _image: the image of a frame set, or the one the RGB camera showed last.
Picked(c, image) ==
    LET fresh == IF Rgb(c) THEN Converted(image) ELSE Recent(image) IN
    IF image = Missing \/ ~fresh \/ image < lastImages[c] THEN Cached(c)
    ELSE [stamp |-> image, candidate |-> TRUE]

ImageRaises(c, image) ==
    /\ image # Missing /\ lastImages[c] = 0 /\ ~Starting(c)
    /\ ~(IF Rgb(c) THEN Converted(image) ELSE Recent(image))

Remembers(c, image) ==
    lastImages' = IF Rgb(c) /\ Picked(c, image).candidate
                  THEN [lastImages EXCEPT ![c] = image] ELSE lastImages

Apart(a, b) == IF a < b THEN b - a ELSE a - b
Paired(depth, image) == Apart(depth, image) <= MaxSkew

\* Mutant: only an exact repeat is told from a new exposure.
ReversedNever(c, depth, image) == FALSE

Reversed(c, depth, image) ==
    \/ depth <= previous[c].depth
    \/ config.version = 1 /\ image <= previous[c].image

\* What a frame set of camera c comes to, in the order poll asks.
Verdict(c, depth, image) ==
    LET picked == Picked(c, image) IN
    IF ~Recent(depth) THEN (IF Starting(c) THEN "skip" ELSE "raise")
    ELSE IF ImageRaises(c, image) THEN "raise"
    ELSE IF picked.stamp = 0 THEN "skip"
    ELSE IF config.version = 2 /\ depth = previous[c].depth THEN "skip"
    ELSE IF Reversed(c, depth, picked.stamp) THEN "raise"
    ELSE IF config.version = 1 /\ ~Paired(depth, picked.stamp) THEN "skip"
    ELSE IF config.posed /\ ~Posed(robot, gimbal, c, depth) THEN "lost"
    ELSE "emit"

\* rgb_motion_gate: poses must cover both exposures and the readout around them.
\* calm says that the motion they show stays within the policy.
GatePasses(c, depth, image, calm, robotPoses, gimbalPoses) ==
    LET first == IF depth < image THEN depth ELSE image
        last == IF depth < image THEN image ELSE depth IN
    /\ config.posed /\ calm /\ first > config.radius
    /\ MotionMeasured(robotPoses, gimbalPoses, c, first - config.radius, last + config.radius)

\* Mutant: the pose of the image exposure is not asked for.
UsableUnposed(c, depth, picked, calm) ==
    /\ picked.candidate /\ Paired(depth, picked.stamp)
    /\ Rgb(c) => GatePasses(c, depth, depth, calm, robot, gimbal)

Usable(c, depth, picked, calm) ==
    /\ picked.candidate /\ Paired(depth, picked.stamp)
    /\ config.version = 2 /\ config.posed => Posed(robot, gimbal, c, picked.stamp)
    /\ Rgb(c) => GatePasses(c, depth, picked.stamp, calm, robot, gimbal)

NoFrameSet ==
    /\ phase = "polling" /\ remaining # {}
    /\ remaining' = remaining \ {Min(remaining)}
    /\ UNCHANGED <<now, config, phase, pipelines, started, previous, lastImages,
                   frames, tracking, batch, poseVars, delivered>>

Skip(c, depth, image) ==
    /\ Verdict(c, depth, image) = "skip"
    /\ IF Recent(depth) THEN Remembers(c, image) ELSE UNCHANGED lastImages
    /\ remaining' = remaining \ {c}
    /\ UNCHANGED <<now, config, phase, pipelines, started, previous, frames,
                   tracking, batch, poseVars, delivered>>

\* PoseUnavailable: the frame is dropped and the whole poll counts as untracked.
LosePose(c, depth, image) ==
    /\ Verdict(c, depth, image) = "lost"
    /\ tracking' = FALSE
    /\ Remembers(c, image) /\ remaining' = remaining \ {c}
    /\ UNCHANGED <<now, config, phase, pipelines, started, previous, frames,
                   batch, poseVars, delivered>>

Emit(c, depth, image, calm) ==
    LET picked == Picked(c, image) IN
    /\ Verdict(c, depth, image) = "emit"
    /\ frames' = [frames EXCEPT ![c] =
         [depth |-> depth, image |-> IF config.version = 1 THEN depth ELSE picked.stamp,
          usable |-> Usable(c, depth, picked, calm)]]
    /\ previous' = [previous EXCEPT ![c] = [depth |-> depth, image |-> picked.stamp]]
    /\ Remembers(c, image) /\ remaining' = remaining \ {c}
    /\ UNCHANGED <<now, config, phase, pipelines, started, tracking, batch, poseVars, delivered>>

\* The newest of at most eight queued frame sets of the next camera.
ReadFrameSet ==
    /\ phase = "polling" /\ remaining # {}
    /\ \E depth \in 0 .. now, image \in (0 .. now) \union {Missing} :
         LET c == Min(remaining) IN
         \/ Skip(c, depth, image)
         \/ LosePose(c, depth, image)
         \/ \E calm \in BOOLEAN : Emit(c, depth, image, calm)

FinishPoll ==
    /\ phase = "polling" /\ remaining = {}
    /\ phase' = "idle"
    /\ batch' = [frames |-> frames, tracking |-> tracking, produced |-> now]
    /\ delivered' = [c \in Cameras |->
         IF frames[c] = NoFrame THEN delivered[c]
         ELSE [depth |-> frames[c].depth,
               image |-> IF frames[c].usable THEN frames[c].image ELSE delivered[c].image]]
    /\ frames' = NoFrames /\ tracking' = TRUE
    /\ UNCHANGED <<now, config, pipelines, started, remaining, previous,
                   lastImages, poseVars>>

CaptureNext ==
    \/ StartCamera \/ Opened \/ Stop \/ Tick
    \/ \E stamp \in 1 .. now, tracked \in BOOLEAN :
         MeasureRobot(stamp, tracked) \/ MeasureGimbal(stamp, tracked)
    \/ BeginPoll \/ NoFrameSet \/ ReadFrameSet \/ FinishPoll

CaptureSpec == CaptureInit /\ [][CaptureNext]_captureVars

(***************************************************************************)
(* Properties                                                              *)
(***************************************************************************)
Histories == {robot, gimbal}

\* The histories stay bounded and in order, and a stopped capture holds no
\* pipeline, whatever failed (realsense.close; pose_history._append).
CaptureTypeOK ==
    /\ phase \in Phases /\ pipelines \subseteq Cameras
    /\ phase = "stopped" => pipelines = {}
    /\ remaining \subseteq Cameras /\ (remaining # {} => phase = "polling")
    /\ \A h \in Histories : InOrder(h) /\ (Len(h) <= Capacity \/ config.trace)
    /\ \A c \in Cameras : lastImages[c] # 0 => Rgb(c)

\* Every pose a frame was given, at its depth exposure and, when its image is
\* used, at the image and over the readout around both, was measured: also among
\* all samples there ever were it is bracketed by neighbouring tracked ones close
\* enough together, however many of them the bounded history has forgotten.
PosesAreMeasured ==
    config.posed => \A c \in Cameras : LET f == batch.frames[c] IN
        f # NoFrame =>
          /\ Posed(robotLog, gimbalLog, c, f.depth)
          /\ f.usable => Posed(robotLog, gimbalLog, c, f.image)
          /\ f.usable /\ Rgb(c) =>
               GatePasses(c, f.depth, f.image, TRUE, robotLog, gimbalLog)

\* The capture's state is consistent, and what it has delivered was measured.
CaptureInv == CaptureTypeOK /\ PosesAreMeasured

\* A time the history has answered is never answered from other samples later:
\* appending, and forgetting the oldest, only adds answers or withdraws them.
AnswersNeverChange ==
    [][\A t \in 1 .. now :
         /\ Support(robot, t) # {} => Support(robot', t) \in {{}, Support(robot, t)}
         /\ Support(gimbal, t) # {} => Support(gimbal', t) \in {{}, Support(gimbal, t)}]_captureVars

\* The images a color camera delivers as usable never go back in time, although
\* an old one may be delivered again beside a newer depth (realsense._image).
ColorNeverGoesBack ==
    [][\A c \in Cameras : Rgb(c) => delivered'[c].image >= delivered[c].image]_captureVars

\* The capture is a frame source: what its users rely on.
Source == INSTANCE FrameSource WITH shown <- [c \in Cameras |-> delivered[c].depth]
CaptureImplementsFrameSource == Source!SourceSpec

\* Two traces to check with: one that is lost in between, and one too sparse to
\* interpolate. Both end where the capture of the run does.
Sample(stamp, tracked) == [stamp |-> stamp, tracked |-> tracked]
SampleTraces == {<<Sample(1, TRUE), Sample(3, TRUE), Sample(4, TRUE)>>,
                 <<Sample(1, TRUE), Sample(2, FALSE), Sample(3, TRUE), Sample(4, TRUE)>>}
==============================================================================
