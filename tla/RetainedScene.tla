---------------------------- MODULE RetainedScene ----------------------------
(***************************************************************************)
(* What becomes of the batches of a frame source: build_rgb_batch filters  *)
(* them into the retained map and a packet for the headset, or             *)
(* write_recording stores them. consumer says which of the two programs    *)
(* runs (stream.py or the capture's own main), retention its option.       *)
(***************************************************************************)
EXTENDS FrameSource, Recording, FiniteSetsExt

CONSTANTS RgbCameras, Retention, MaxKeyframes,
          MaxAge,        \* two seconds, the oldest current exposure
          PacketSkew,    \* max_capture_skew_ms
          MaxGeneration, \* bounds clears
          Places, Nowhere, Posed

ASSUME SceneAssumption ==
    /\ Cameras \subseteq Nat /\ IsFiniteSet(Cameras) /\ RgbCameras \subseteq Cameras
    /\ Retention \in Nat \ {0} /\ MaxKeyframes \in Nat /\ Posed \in BOOLEAN
    /\ MaxSkew \in Nat /\ MaxAge \in Nat /\ PacketSkew \in Nat /\ MaxBatches \in Nat
    /\ MaxManifestSize \in Nat

INSTANCE ObservationMap

VARIABLES consumer, retention, map, outcome,
          packet   \* the observations sent last: what a headset has

vars == <<sourceVars, recordingVars, consumer, retention, map, outcome, packet>>

RetainedInit ==
    /\ SourceInit /\ RecordingInit(Cameras)
    /\ consumer \in {"stream", "record"} /\ retention \in BOOLEAN
    /\ consumer = "record" => retention
    /\ map = NewMap /\ outcome = "none" /\ packet = Sent({}, {})

(***************************************************************************)
(* build_rgb_batch                                                         *)
(***************************************************************************)
Newest(frames) == Max({0} \union {frames[c].depth : c \in Shot(frames)})

\* Mutant: exposures are compared with the production only.
AcceptedUnpaired(frames, produced, tracked) ==
    {c \in Shot(frames) : tracked /\ produced - frames[c].depth <= MaxAge
        /\ (frames[c].usable => produced - frames[c].image <= MaxAge)}

\* The cameras exposed together with the newest one and recently enough.
Accepted(frames, produced, tracked) ==
    {c \in Shot(frames) : tracked
        /\ Newest(frames) - frames[c].depth <= PacketSkew
        /\ produced - frames[c].depth <= MaxAge
        /\ (frames[c].usable => produced - frames[c].image <= MaxAge)}

\* The frames of a batch. A gray image is exposed with its depth (they are paired
\* within milliseconds, ages count in seconds); only the usable image of a color
\* camera, which may be an older one again, is given an exposure of its own.
Batches ==
    LET own(c) == {f \in FramesOf(c, now) :
                     IF f.usable THEN c \in RgbCameras /\ f.image <= f.depth
                     ELSE f.image = f.depth}
    IN {frames \in [Cameras -> UNION {own(c) : c \in Cameras}] :
          \A c \in Cameras : frames[c] \in own(c)}

\* canonical_rgb_view: a frame shows some place, or nothing at all.
View(c, frame, place, generation) ==
    [camera |-> c, depth |-> frame.depth, image |-> frame.image, usable |-> frame.usable,
     place |-> place, solid |-> place # Nowhere, born |-> generation, under |-> NoKey]

\* validate_rgb through validate_common and _validate_times.
Valid(views, keyframes, produced, tracked, enabled) ==
    LET depths == {v.depth : v \in views}
        all == views \union keyframes IN
    /\ \A v \in all : v.depth \in 1 .. produced /\ v.image \in 1 .. produced
    /\ views # {} => /\ Max(depths) - Min(depths) <= PacketSkew
                     /\ produced - Max(depths) <= MaxAge
    /\ \A v \in views : v.usable => produced - v.image <= MaxAge
    /\ \A v \in keyframes : produced - Stamp(v) <= Retention
    /\ Cardinality({Key(v) : v \in all}) = Cardinality(views) + Cardinality(keyframes)
    /\ Cardinality(keyframes) <= MaxKeyframes
    /\ keyframes # {} => enabled
    /\ ~tracked => all = {}

\* What the map is given of a batch, whatever its frames show.
ViewsOf(frames, produced, tracked, place, generation) ==
    {View(c, frames[c], place[c], generation) :
       c \in Accepted(frames, produced, tracked)}

\* A batch is polled and built: it fails when the packet is not valid before
\* or after the map's update, or when the map refuses it.
Build(frames, tracked) ==
    /\ Delivers(frames, tracked)
    /\ \E place \in [Accepted(frames, now, tracked) -> Places \union {Nowhere}] :
         LET views == ViewsOf(frames, now, tracked, place, Base(map, tracked).generation) IN
         /\ IF ~Valid(views, {}, now, tracked, retention)
               \/ Refuses(map, views, now, tracked, retention)
            THEN outcome' = "failed" /\ UNCHANGED <<map, packet>>
            ELSE \E update \in Updates(map, views, now, tracked, retention) :
                   /\ map' = update.map
                   /\ outcome' = IF Valid(views, map'.retained, now, tracked, retention)
                                 THEN "published" ELSE "failed"
                   /\ packet' = IF outcome' = "published" THEN update.packet ELSE packet

Stream ==
    /\ consumer = "stream" /\ outcome # "failed" /\ now > batch.produced
    /\ \E frames \in Batches, tracked \in BOOLEAN :
         Build(frames, tracked)
    /\ UNCHANGED <<recordingVars, consumer, retention>>

\* GimbalDemoSource.service_clear, between two batches.
Clear ==
    /\ consumer = "stream" /\ map.generation < MaxGeneration
    /\ map' = Cleared(map)
    /\ UNCHANGED <<sourceVars, recordingVars, consumer, retention, outcome, packet>>

Wait == Passes /\ UNCHANGED <<recordingVars, consumer, retention, map, outcome, packet>>

(***************************************************************************)
(* write_recording                                                         *)
(***************************************************************************)
RecordBatch ==
    /\ consumer = "record" /\ now > batch.produced
    /\ \E frames \in Batches, tracked \in BOOLEAN :
         Delivers(frames, tracked)
    /\ WriteBatch(batch', NoFrame, Posed)
    /\ UNCHANGED <<consumer, retention, map, outcome, packet>>

Record ==
    /\ consumer = "record"
    /\ \/ StartWriting(Cameras) \/ WriteFails \/ WriteManifest \/ ManifestFails
       \/ ExposeManifest \/ Abandon("raised") \/ Abandon("killed")
    /\ UNCHANGED <<sourceVars, consumer, retention, map, outcome, packet>>

RetainedNext == Stream \/ Clear \/ Wait \/ RecordBatch \/ Record
RetainedSpec == RetainedInit /\ [][RetainedNext]_vars

(***************************************************************************)
(* Properties                                                              *)
(***************************************************************************)
\* The map stays within its budget, and what it keeps was exposed before it was
\* produced (observation_map.update).
RetainedTypeOK ==
    /\ consumer \in {"stream", "record"} /\ outcome \in {"none", "published", "failed"}
    /\ Cardinality(map.retained) <= MaxKeyframes
    /\ \A v \in Stored(map) : v.depth <= map.latest[v.camera] /\ v.image <= now
    /\ \A c \in Cameras : map.anchors[c] # NoAnchor => map.anchors[c].camera = c
    /\ files \subseteq 1 .. MaxBatches /\ listed <= MaxBatches

\* build_rgb_batch never fails on what a frame source delivers, although it judges
\* the packet before the map's update and after it: keyframes are young and few
\* enough, none repeats a current view, and current views fit together.
BatchNeverFails == outcome # "failed"

\* Nothing that was seen before a clear is ever shown after it: every view the map
\* stores entered in the generation it is sent under (observation_map.clear).
NothingFromBeforeTheClear == \A v \in Stored(map) : v.born = map.generation

\* A headset drops every observation of its last packet by itself when the retention of
\* that observation ends, however long nothing more arrives. No hole opens in between:
\* as long as it would show a view of which a part was left out, it shows the color that
\* was to stand in for it, whatever the budget, the carving and a clear did to the map
\* before and after (observation_map.update).
NoExpiryHole ==
    \A v \in packet.current \union packet.keyframes, t \in now .. now + Retention :
      v.under # NoKey /\ Alive(v, t) =>
        \E color \in packet.keyframes :
          Key(color) = v.under /\ Colored(color) /\ color.solid /\ Alive(color, t)

\* What write_recording has listed so far always passes the loader's walk, so an
\* exposed manifest can be replayed, within its bounds (Recording.__init__). The frame
\* files that it names are there and of the run that wrote it, whatever files earlier runs
\* left when they failed or were killed (the checksums of _load hold).
RecordingLoads ==
    /\ judged.loads
    /\ manifest = "saved" => /\ listed \in 1 .. MaxBatches /\ size <= MaxManifestSize
                             /\ named \subseteq files /\ named \subseteq written

\* No batch is refused on the way to the map, and what was recorded can be replayed.
RetainedInv == RetainedTypeOK /\ BatchNeverFails /\ RecordingLoads
==============================================================================
