------------------------------- MODULE ApkBuild -------------------------------
(***************************************************************************)
(* The package, from its parts: build_quest.ps1 stages the graphs, bakes   *)
(* the robot's meshes (convert_franka_meshes.py), stages the runtime       *)
(* (prepare_apk_runtime.py), has Gradle make the package and checks it     *)
(* (verify_apk.py). The staging directory and the meshes' output are used  *)
(* again for every package.                                                *)
(*                                                                         *)
(* The operator builds a package only of graphs whose build returned (the  *)
(* mesh tool asks for that), but in any order with the bundles. Somebody   *)
(* may patch a file of a bundle by hand while no tool writes or copies it, *)
(* and undo that.                                                          *)
(* A package is out of sight when its build is over: nothing reads it.     *)
(***************************************************************************)
EXTENDS GraphBundle, RuntimeBundle

VARIABLES meshes,      \* the mesh tool's output directory
          staging,     \* the Gradle build's artifact directory
          apk          \* the package

buildVars == <<toolVars, artifact, warp, runtime, meshes, staging, apk>>

\* convert_dae: the same bytes whenever the sources are the same.
Baked(visuals) == [visuals |-> visuals]

\* The generated header has the hash of the mesh manifest.
Header(manifest) == [manifest |-> manifest]

NoManifest == [assets |-> Baked(0), urdf |-> 0]
NoMeshes == [assets |-> Baked(0), manifest |-> NoManifest, header |-> Header(NoManifest)]
NoStaging == [graphs |-> NoGraphs, trace |-> NoGraphs, meshes |-> NoMeshes,
              library |-> NoLibrary, runtime |-> NoRuntime]
NoApk == [staged |-> NoStaging, python |-> 0, urdf |-> 0, accepted |-> FALSE]

BuildInit ==
    /\ ToolsInit /\ GraphInit /\ BundlesInit
    /\ meshes = NoMeshes /\ staging = NoStaging /\ apk = NoApk

(***************************************************************************)
(* The graphs                                                              *)
(***************************************************************************)
\* What was staged of the graphs and libraries is removed.
BeginQuest ==
    /\ Begins("quest", "graphs") /\ Built
    /\ staging' = [staging EXCEPT !.graphs = NoGraphs, !.library = NoLibrary]
    /\ UNCHANGED <<inputs, changes, artifact, warp, runtime, meshes, apk>>

\* Each file is copied if it is as listed.
StageGraphs ==
    /\ Runs("quest", "graphs") /\ Intact /\ Continue("bake")
    /\ staging' = [staging EXCEPT !.graphs = artifact.files.graphs]
    /\ UNCHANGED <<inputs, changes, artifact, warp, runtime, meshes, apk>>

(***************************************************************************)
(* convert                                                                 *)
(***************************************************************************)
\* The description must be the one the graphs are of; the meshes are baked in memory.
BakeMeshes ==
    /\ Runs("quest", "bake") /\ inputs.description = artifact.urdf
    /\ tool' = [tool EXCEPT !.step = "assets", !.visuals = inputs.visuals]
    /\ UNCHANGED <<inputs, changes, artifact, warp, runtime, meshes, staging, apk>>

WriteAssets ==
    /\ Runs("quest", "assets") /\ Continue("manifest")
    /\ meshes' = [meshes EXCEPT !.assets = Baked(tool.visuals)]
    /\ UNCHANGED <<inputs, changes, artifact, warp, runtime, staging, apk>>

WriteMeshManifest ==
    /\ Runs("quest", "manifest") /\ Continue("header")
    /\ meshes' = [meshes EXCEPT !.manifest = [assets |-> Baked(tool.visuals), urdf |-> artifact.urdf]]
    /\ UNCHANGED <<inputs, changes, artifact, warp, runtime, staging, apk>>

WriteHeader ==
    /\ Runs("quest", "header") /\ Continue("output")
    /\ meshes' = [meshes EXCEPT !.header = Header(meshes.manifest)]
    /\ UNCHANGED <<inputs, changes, artifact, warp, runtime, staging, apk>>

\* verify_output: the files are as listed, and of the robot of the graphs.
MeshesMatch ==
    /\ meshes.assets = meshes.manifest.assets /\ meshes.manifest.urdf = artifact.urdf
    /\ meshes.header = Header(meshes.manifest)

VerifyMeshes ==
    /\ Runs("quest", "output") /\ MeshesMatch /\ Continue("meshes")
    /\ UNCHANGED <<inputs, changes, artifact, warp, runtime, meshes, staging, apk>>

\* The robot and the hashes are compared once more.
StageMeshes ==
    /\ Runs("quest", "meshes") /\ Continue("trace")
    /\ meshes.manifest.urdf = artifact.urdf /\ meshes.assets = meshes.manifest.assets
    /\ staging' = [staging EXCEPT !.meshes = meshes]
    /\ UNCHANGED <<inputs, changes, artifact, warp, runtime, meshes, apk>>

(***************************************************************************)
(* generate_controller_trace                                               *)
(***************************************************************************)
\* The recorded trace is of one description, which is the second version here.
TraceFits == artifact.urdf = 2

\* The trace is staged with the hash of the manifest of the graphs.
StageTrace ==
    /\ Runs("quest", "trace") /\ TraceFits /\ Continue("prepare")
    /\ staging' = [staging EXCEPT !.trace = artifact.listed.graphs]
    /\ UNCHANGED <<inputs, changes, artifact, warp, runtime, meshes, apk>>

(***************************************************************************)
(* prepare                                                                 *)
(***************************************************************************)
Prepare ==
    /\ Runs("quest", "prepare") /\ Continue("runtime")
    /\ runtime.listed # NoRuntime /\ runtime.files = runtime.listed
    /\ UNCHANGED <<inputs, changes, artifact, warp, runtime, meshes, staging, apk>>

StageRuntime ==
    /\ Runs("quest", "runtime") /\ Continue("listing")
    /\ staging' = [staging EXCEPT !.library = runtime.files.library]
    /\ UNCHANGED <<inputs, changes, artifact, warp, runtime, meshes, apk>>

StageListing ==
    /\ Runs("quest", "listing") /\ Continue("gradle")
    /\ staging' = [staging EXCEPT !.runtime = [runtime.listed EXCEPT
                                                 !.provenance = runtime.files.provenance]]
    /\ UNCHANGED <<inputs, changes, artifact, warp, runtime, meshes, apk>>

(***************************************************************************)
(* The package                                                             *)
(***************************************************************************)
\* Gradle takes the Python packages and the robot from the bundle itself, and may
\* strip the libraries.
PackageApk ==
    /\ Runs("quest", "gradle") /\ Continue("contract")
    /\ \E library \in {staging.library, Stripped(staging.library)} :
         apk' = [staged |-> [staging EXCEPT !.library = library], accepted |-> FALSE,
                 python |-> runtime.files.python, urdf |-> runtime.files.urdf]
    /\ UNCHANGED <<inputs, changes, artifact, warp, runtime, meshes, staging>>

\* match_native: the same bytes, or those the strip tool makes of them.
MatchesNative(payload, source) == payload \in {source, Stripped(source)}

\* verify_bundle: the bundle is as it is listed, and so is what the package has of it.
BundleMatches ==
    /\ runtime.files = runtime.listed /\ apk.staged.runtime = runtime.listed
    /\ MatchesNative(apk.staged.library, runtime.files.library)
    /\ apk.python = runtime.listed.python /\ apk.urdf = runtime.listed.urdf

\* verify_elf: a packaged library finds what it needs in the package.
ElfMatches == Resolved(apk.staged.library)

\* Mutant: the package's meshes are compared with their manifest alone.
ListedMeshes == apk.staged.meshes.assets = apk.staged.meshes.manifest.assets

\* verify_meshes: the meshes are as listed, and of the robot of the runtime.
RobotMatches ==
    /\ apk.staged.meshes.manifest.urdf = apk.urdf
    /\ apk.staged.meshes.assets = apk.staged.meshes.manifest.assets

CheckContract ==
    /\ Runs("quest", "contract") /\ Continue("complete")
    /\ BundleMatches /\ ElfMatches /\ RobotMatches
    /\ apk' = [apk EXCEPT !.accepted = TRUE]
    /\ UNCHANGED <<inputs, changes, artifact, warp, runtime, meshes, staging>>

(***************************************************************************)
(* A file of a bundle patched by hand, which no build made                 *)
(***************************************************************************)
Patched == MaxVersion + 1
PatchOrUndo(listed) == {Patched} \cup ({listed} \ {0})

PatchByHand ==
    /\ changes < MaxChanges /\ changes' = changes + 1
    /\ \/ /\ tool.name # "graphs" /\ artifact.files.libraries # {}
          /\ \E model \in PatchOrUndo(artifact.listed.graphs.model) :
               artifact' = [artifact EXCEPT !.files.graphs.model = model]
          /\ UNCHANGED <<warp, runtime>>
       \/ /\ tool.name \notin {"warp", "runtime"} /\ warp.files.library # NoLibrary
          /\ \E build \in PatchOrUndo(warp.listed.library.build) :
               warp' = [warp EXCEPT !.files.library.build = build]
          /\ UNCHANGED <<artifact, runtime>>
       \/ /\ tool.name # "runtime" /\ runtime.files.library # NoLibrary
          /\ \E build \in PatchOrUndo(runtime.listed.library.build) :
               runtime' = [runtime EXCEPT !.files.library.build = build]
          /\ UNCHANGED <<artifact, warp>>
    /\ UNCHANGED <<inputs, tool, meshes, staging, apk>>

\* What a tool left that stopped half way in a directory of its own, nobody takes up.
Discards ==
    /\ apk' = NoApk
    /\ artifact' = IF tool.name = "graphs" THEN EmptyArtifact ELSE artifact
    /\ runtime' = IF tool.name = "runtime" THEN EmptyRuntime ELSE runtime

BuildNext ==
    \/ InputChanges /\ UNCHANGED <<artifact, warp, runtime, meshes, staging, apk>>
    \/ ToolFails /\ Discards /\ UNCHANGED <<warp, meshes, staging>>
    \/ GraphNext /\ UNCHANGED <<warp, runtime, meshes, staging, apk>>
    \/ BundlesNext /\ UNCHANGED <<artifact, meshes, staging, apk>>
    \/ BeginQuest \/ StageGraphs \/ BakeMeshes \/ WriteAssets \/ WriteMeshManifest
    \/ WriteHeader \/ VerifyMeshes \/ StageMeshes \/ StageTrace \/ Prepare \/ StageRuntime \/ StageListing
    \/ PackageApk \/ CheckContract \/ PatchByHand

BuildSpec == BuildInit /\ [][BuildNext]_buildVars

(***************************************************************************)
(* Properties                                                              *)
(***************************************************************************)
\* A manifest that is in place lists what the tool left there, however many stagings
\* failed before or since; only a patch makes a file differ (stage_bundle, main).
ManifestsAreTrue ==
    /\ warp.listed # NoWarp /\ warp.files.library.build # Patched => warp.files = warp.listed
    /\ runtime.listed # NoRuntime /\ runtime.files.library.build # Patched =>
         runtime.files = runtime.listed

\* The graphs a build returned were captured with the pinned sources, unless these were
\* changed and changed back meanwhile (require_commit, before and after).
CapturedAtThePin ==
    Built => Pinned(artifact.listed.graphs.source) \/ artifact.edits.checkout >= 2

\* Nothing compares the description the graphs were captured from with the one whose hash
\* their manifest has, but the replay tests: after one edit during the build the two have
\* the same poses, and only an edit that is followed by another, which may undo it, can
\* let the graphs of one robot pass for another (capture_franka.py, verify_bundle.py).
CapturedAsListed ==
    Built => LET model == artifact.listed.graphs.model IN
        \/ model = artifact.urdf
        \/ artifact.edits.description = 1 /\ LinkPoses(model) = LinkPoses(artifact.urdf)
        \/ artifact.edits.description >= 2

\* The physics graphs, the recorded trace, the meshes and the runtime of an accepted
\* package all have the hash of one description of the robot, the graphs are those the
\* build returned, the meshes and the header compiled in are as the manifest has them,
\* the library and the Python package are those the Warp bundle listed, with all they
\* need, and nothing in it was patched (verify_apk, and the checks on the way to it).
PackageAgrees ==
    apk.accepted =>
        /\ apk.staged.graphs = artifact.listed.graphs /\ apk.staged.trace = apk.staged.graphs
        /\ Built /\ artifact.urdf = apk.urdf
        /\ apk.staged.meshes.manifest.urdf = apk.urdf
        /\ apk.staged.meshes.assets = apk.staged.meshes.manifest.assets
        /\ apk.staged.meshes.header = Header(apk.staged.meshes.manifest)
        /\ MatchesNative(apk.staged.library, apk.staged.runtime.provenance.library)
        /\ Resolved(apk.staged.library)
        /\ apk.python = apk.staged.runtime.provenance.python
        /\ apk.staged.library.build # Patched

\* What a tool left behind is what it says it is, and so is what was accepted.
BundleInv == ManifestsAreTrue /\ CapturedAtThePin /\ CapturedAsListed /\ PackageAgrees
==============================================================================
