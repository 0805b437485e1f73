------------------------------ MODULE SceneBatch ------------------------------
(***************************************************************************)
(* The loop of stream.py from the arguments it was started with to the     *)
(* bytes of a batch: how the mode is chosen, which frames a batch takes,   *)
(* the views made of them, the late production stamp, and the assembly of  *)
(* the packet. Time is kept as ages: how long before the production of the *)
(* batch an exposure was.                                                  *)
(***************************************************************************)
EXTENDS SceneAssembly, SceneMesh, FiniteSetsExt

CONSTANTS Scenes,       \* what a camera may see
          PlainScene,   \* what all but one of them see
          Profiles,     \* [w, h, iw, ih, channels, single]: the images of cameras
          Rigs,         \* cameras with their profiles
          RgbCamera,
          MaxAge,       \* two seconds
          PacketSkew,   \* max_capture_skew_ms
          MaxLate,      \* bound: how long a batch takes to build
          MaxExposure,  \* bound: the age of a frame
          Voxels,       \* how many voxels the points of a batch fall into
          Budgets,      \* point budgets
          Keyframes     \* how many retained views the map adds

\* MAX_WIDTH and MAX_HEIGHT of an image a camera is configured for.
MaxWidth == 1920
MaxHeight == 1080

ASSUME BatchAssumption ==
    /\ MaxAge \in Nat /\ PacketSkew \in Nat /\ MaxLate \in Nat /\ MaxExposure \in Nat
    /\ Voxels \subseteq Nat /\ Budgets \subseteq 1 .. MaxPoints /\ Keyframes \subseteq 0 .. 4
    /\ PlainScene \in Scenes
    \* Intrinsics.validate and the image formats. Not every calibration that is valid
    \* in double precision is one in single precision.
    /\ Profiles \subseteq [w : 1 .. MaxWidth, h : 1 .. MaxHeight,
                           iw : 1 .. MaxWidth, ih : 1 .. MaxHeight, channels : {1, 3},
                           single : BOOLEAN]
    /\ \A rig \in Rigs : /\ DOMAIN rig \subseteq 0 .. 5 /\ DOMAIN rig # {}
                         /\ rig \in [DOMAIN rig -> Profiles]

VARIABLES loop,      \* "start", "poll", "assemble", and how the host ended
          host,      \* what it was started for
          interval,  \* the ages of its last and first exposure, and of its oldest image
          late,      \* by how much its production stamp was moved
          voxels     \* what its points are chosen from

hostVars == <<loop, host, interval, late, voxels>>
vars == <<assemblyVars, hostVars>>

Sources == {"demo", "gimbal", "replay", "capture"}
Geometries == {"points", "prepared", "unprepared"}

\* The arguments of a run, with the recording or the capture's configuration:
\* its version, and the rig it describes. The two demos bring their own.
Arguments ==
    {a \in [source : Sources, version : 1 .. 2, geometry : Geometries,
            retain : {"unset", "off", "on"}, rig : Rigs, budget : Budgets] :
       /\ a.source = "demo" => a.version = 1
       /\ a.source = "gimbal" => a.version = 2 /\ RgbCamera \in DOMAIN a.rig
       /\ a.version = 1 => RgbCamera \notin DOMAIN a.rig
       /\ a.source # "replay" => a.budget = MaxPoints}

BatchInit ==
    /\ AssemblyInit /\ loop = "start" /\ interval = <<>> /\ late = 0 /\ voxels = 0
    /\ host \in {[args |-> a, rgb |-> FALSE, retained |-> FALSE] : a \in Arguments}

(***************************************************************************)
(* parse_args, retention_policy and the head of main                       *)
(***************************************************************************)
NeedsRgb(a) ==
    CASE a.source = "demo" -> FALSE
      [] a.source = "gimbal" -> TRUE
      [] a.source = "replay" -> a.version = 2
      [] a.source = "capture" -> RgbCamera \in DOMAIN a.rig \/ a.version = 2

\* History is kept for 30 seconds when nothing is said of it, in RGB scenes only.
Retains(a) == a.retain = "on" \/ (a.retain = "unset" /\ NeedsRgb(a))

Unusable(a) ==
    /\ a.geometry = "points"
    /\ a.source = "gimbal" \/ a.retain = "on" \/ NeedsRgb(a) \/ Retains(a)

Start ==
    /\ loop = "start"
    /\ loop' = IF Unusable(host.args) THEN "usage" ELSE "poll"
    /\ host' = [host EXCEPT !.retained = Retains(host.args),
                            !.rgb = NeedsRgb(host.args) \/ Retains(host.args)]
    /\ UNCHANGED <<assemblyVars, interval, late, voxels>>

(***************************************************************************)
(* Frames                                                                  *)
(***************************************************************************)
NoFrame == [age |-> 0, image |-> 0, scene |-> "none", usable |-> FALSE, far |-> FALSE]

\* Only a version 2 source has images with an exposure of their own, some of them
\* unusable; only the gimbal's RGB image is exposed apart in the demos. (Bound: such
\* an image is of the plain scene, and just exposed or as old as a frame can be.)
\* The pose of a rig that a capture or a recording brings may put a camera farther
\* away than the map reaches. (Bound: when it sees the plain scene.)
Frames(c) ==
    LET own == host.args.version = 2 /\ (host.args.source = "gimbal" => c = RgbCamera) IN
    {NoFrame} \union
    {f \in [age : 0 .. MaxExposure, image : 0 .. MaxExposure,
            scene : Scenes, usable : BOOLEAN, far : BOOLEAN] :
       /\ \/ f.image = f.age
          \/ own /\ f.usable /\ f.scene = PlainScene /\ f.image \in {0, MaxExposure}
       /\ f.usable \/ (own /\ host.args.source # "gimbal")
       /\ f.far => /\ host.args.source \in {"replay", "capture"}
                   /\ f.scene = PlainScene /\ f.image = f.age}

\* A batch of frames that look alike, except that one camera's is another (bound).
Batch(cameras, alike, odd, frame) ==
    [c \in cameras |-> IF c = odd THEN frame ELSE alike]
Alike(cameras) ==
    {f \in Frames(Min(cameras)) :
       f = NoFrame \/ (f.scene = PlainScene /\ f.usable /\ ~f.far /\ f.image = f.age)}

Shot(frames) == {c \in DOMAIN frames : frames[c] # NoFrame}
AgesOf(frames, cameras) == {frames[c].age : c \in cameras}

\* The cameras of a batch: exposed together with the last one, and recently. The
\* same in fuse_batch, build_surface_batch and build_rgb_batch, which leaves out
\* the frame of an old image, too.
Accepted(frames) ==
    {c \in Shot(frames) :
       /\ frames[c].age - Min(AgesOf(frames, Shot(frames))) <= PacketSkew
       /\ frames[c].age <= MaxAge
       /\ host.rgb /\ frames[c].usable => frames[c].image <= MaxAge}

\* The images of an RGB packet have ages of their own.
Images(frames, cameras) ==
    {0} \union {frames[c].image : c \in {d \in cameras : host.rgb /\ frames[d].usable}}

(***************************************************************************)
(* build_batch                                                             *)
(***************************************************************************)
Grid(w, h, scene) ==
    [scene |-> scene, w |-> w, h |-> h,
     cols |-> ReducedWidth(w, h, DepthWidth, DepthHeight),
     rows |-> ReducedHeight(w, h, DepthWidth, DepthHeight)]

\* Every scene, meshed once for every size of depth image.
MeshOf(w, h, scene, version) ==
    LET triangles == Triangles(Grid(w, h, scene), version) IN
    [used |-> Cardinality(Vertices(triangles)), kept |-> Cardinality(triangles)]
Meshes ==
    [seen \in {<<p.w, p.h, scene, version>> :
                 p \in Profiles, scene \in Scenes, version \in 2 .. 3} |->
       MeshOf(seen[1], seen[2], seen[3], seen[4])]

\* _canonical_view, canonical_rgb_view
View(p, scene, version) ==
    [w |-> Grid(p.w, p.h, scene).cols, h |-> Grid(p.w, p.h, scene).rows,
     iw |-> ReducedWidth(p.iw, p.ih, ImageWidth(version), ImageHeight(version)),
     ih |-> ReducedHeight(p.iw, p.ih, ImageWidth(version), ImageHeight(version)),
     channels |-> IF version = 3 THEN p.channels ELSE 1,
     used |-> Meshes[<<p.w, p.h, scene, version>>].used,
     kept |-> Meshes[<<p.w, p.h, scene, version>>].kept]

\* A frame for v1 and v2: its image belongs to its depth (require_legacy).
Legacy(frame) == frame.image = frame.age /\ frame.usable

\* surface._reduced
Reducible(p) == p.w >= 2 /\ p.h >= 2 /\ p.iw >= 2 /\ p.ih >= 2

\* What a view can be made of: two pixels each way, and a calibration that the 32-bit
\* numbers of the wire hold (_reduced, _intrinsics).
Suits(p) == Reducible(p) /\ p.single

Version ==
    IF host.rgb THEN 3 ELSE IF host.args.geometry = "points" THEN 1 ELSE 2

\* build_batch and the builders refuse a mode that the cameras or the frames do not
\* fit, and views whose sizes are not canonical (validate_view, _validate_raw).
Refuses(frames, taken) ==
    \/ host.rgb /\ host.args.geometry = "points"
    \/ ~host.rgb /\ RgbCamera \in DOMAIN host.args.rig
    \/ ~host.rgb /\ \E c \in (IF Version = 1 THEN taken ELSE Shot(frames)) : ~Legacy(frames[c])
    \/ Version > 1 /\ \E c \in taken :
         ~Canonical(Version, View(host.args.rig[c], frames[c].scene, Version))

\* They also refuse a camera of which no view can be made, and one that is farther
\* than the wire allows (_transform). Points are made of either.
Unfit(taken) == Version > 1 /\ \E c \in taken : ~Suits(host.args.rig[c])
Strays(frames, taken) == Version > 1 /\ \E c \in taken : frames[c].far

Chosen(n) == IF n > host.args.budget THEN host.args.budget ELSE n

\* A packet of the frames taken and of the map's keyframes (pictures of the RGB
\* camera, exposed earlier).
Build(frames, tracked, n, keyframes) ==
    LET taken == IF tracked THEN Accepted(frames) ELSE {}
        rig == host.args.rig
        current == [i \in 1 .. Cardinality(taken) |->
                      LET c == CHOOSE c \in taken : Cardinality({d \in taken : d <= c}) = i IN
                      View(rig[c], frames[c].scene, Version)]
        old == [i \in 1 .. keyframes |-> View(rig[RgbCamera], PlainScene, Version)]
        vs == IF Version = 1 THEN <<>> ELSE current \o old IN
    /\ loop = "poll"
    /\ Version = 1 \/ n = 0
    /\ n > 0 => taken # {}
    /\ keyframes > 0 => /\ tracked /\ host.retained
                         /\ RgbCamera \in DOMAIN rig /\ Suits(rig[RgbCamera])
    /\ IF Refuses(frames, taken) \/ Unfit(taken) \/ Strays(frames, taken)
       THEN /\ loop' = IF Refuses(frames, taken) THEN "mismatch"
                       ELSE IF Unfit(taken) THEN "unfit" ELSE "stray"
            /\ UNCHANGED <<assemblyVars, interval, voxels>>
       ELSE /\ loop' = "assemble"
            /\ Begin([version |-> Version, prepared |-> host.args.geometry = "prepared",
                      points |-> Chosen(n)], vs)
            /\ voxels' = n
            /\ interval' = IF taken = {} THEN <<>>
                           ELSE <<Min(AgesOf(frames, taken)), Max(AgesOf(frames, taken)),
                                  Max(Images(frames, taken))>>
    /\ late' = 0
    /\ UNCHANGED host

Poll ==
    /\ loop = "poll"
    /\ \E odd \in DOMAIN host.args.rig : \E frame \in Frames(odd),
          alike \in Alike(DOMAIN host.args.rig),
          tracked \in IF host.args.version = 1 THEN {TRUE} ELSE BOOLEAN,
          n \in Voxels, keyframes \in Keyframes :
         Build(Batch(DOMAIN host.args.rig, alike, odd, frame), tracked, n, keyframes)

(***************************************************************************)
(* The late stamp, and packing                                             *)
(***************************************************************************)
\* Mutant: every packet is stamped again.
RestampAll ==
    /\ loop = "assemble" /\ stage = "built" /\ late = 0
    /\ late' \in 1 .. MaxLate
    /\ UNCHANGED <<assemblyVars, loop, host, interval, voxels>>

\* A live packet of version 1 or 2 is stamped when it is finished; version 3 and
\* recordings keep the time they were built for.
Restamp ==
    /\ loop = "assemble" /\ stage = "built" /\ late = 0
    /\ form.version # 3 /\ host.args.source # "replay"
    /\ late' \in 1 .. MaxLate
    /\ UNCHANGED <<assemblyVars, loop, host, interval, voxels>>

\* validate_common and, for the images of an RGB packet, _validate_times.
Timely ==
    interval # <<>> => /\ interval[2] - interval[1] <= PacketSkew
                       /\ interval[1] + late <= MaxAge /\ interval[3] <= MaxAge

PackBatch ==
    /\ loop = "assemble"
    /\ IF Timely THEN Pack /\ UNCHANGED loop ELSE Drop /\ loop' = "late"
    /\ UNCHANGED <<host, interval, late, voxels>>

AssembleBatch ==
    /\ loop = "assemble" /\ Assemble
    /\ IF stage' = "idle" THEN loop' = "poll" /\ interval' = <<>> /\ late' = 0 /\ voxels' = 0
       ELSE UNCHANGED <<loop, interval, late, voxels>>
    /\ UNCHANGED host

BatchNext == Start \/ Poll \/ Restamp \/ PackBatch \/ AssembleBatch
BatchSpec == BatchInit /\ [][BatchNext]_vars

(***************************************************************************)
(* Properties                                                              *)
(***************************************************************************)
BatchTypeOK ==
    /\ loop \in {"start", "usage", "poll", "assemble", "mismatch", "unfit", "stray", "late"}
    /\ host.rgb \in BOOLEAN /\ host.retained \in BOOLEAN /\ late \in 0 .. MaxLate
    /\ Len(tiles) <= Len(views) /\ done \in 0 .. Len(views)
    /\ IsForm(form) /\ form.points <= host.args.budget
    /\ stage = "idle" <=> loop # "assemble"

\* A host that accepts its arguments can build what its source delivers: no batch
\* is refused for its mode, its cameras or its exposures (stream.main, modes.build_batch
\* and require_legacy decide it in three places). What the arguments do not show it is
\* what ends it later: a surface of a camera of which no view can be made, and the
\* pose of a rig that has gone too far.
StartedModeFits ==
    /\ loop # "mismatch"
    /\ loop = "unfit" => Version > 1 /\ \E c \in DOMAIN host.args.rig : ~Suits(host.args.rig[c])
    /\ loop = "stray" => Version > 1 /\ host.args.source \in {"replay", "capture"}

\* A packet that was valid when it was built is valid when it is packed, unless it
\* was stamped again after its last exposure had become two seconds old: RGB scenes
\* and recordings never end that way (build_batch, stream.main, validate_common).
OnlyOverdueLegacyFails ==
    loop = "late" => /\ form.version # 3 /\ host.args.source # "replay"
                     /\ interval[1] <= MaxAge /\ interval[1] + late > MaxAge

\* The host assembles what it accepted, into tiles of their own, and loses no batch
\* but an overdue legacy one or one that its cameras or their poses rule out.
BatchInv == BatchTypeOK /\ StartedModeFits /\ OnlyOverdueLegacyFails /\ TilesDisjoint

\* Points that are left out are left out evenly: every point is another voxel, and
\* between two kept ones there are never more voxels than the share of one point
\* (fuse_batch).
PointsSpread ==
    stage = "built" /\ late = 0 /\ form.points < voxels =>
        /\ Selected(0, voxels, form.points) = 0
        /\ \A k \in 0 .. form.points - 1 :
             LET next == IF k = form.points - 1 THEN voxels
                         ELSE Selected(k + 1, voxels, form.points) IN
             next - Selected(k, voxels, form.points) \in 1 .. voxels \div form.points + 1
==============================================================================
