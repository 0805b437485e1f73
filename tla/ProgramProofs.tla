---------------------------- MODULE ProgramProofs ----------------------------
(***************************************************************************)
(* Proofs about the programs of MCPrograms.                                *)
(*                                                                         *)
(* The tools that build the package, for every number of changes: what a   *)
(* tool left is what it says it is, and the parts of an accepted package   *)
(* agree (BundleInv, with PackageAgrees). The first needs what the running *)
(* tool has established so far, and how often its inputs were changed      *)
(* (WarpInv, RuntimeInv, GraphInv); the second also what the build script  *)
(* compared before the package was made (QuestInv), since the contract     *)
(* alone never looks at the graphs.                                        *)
(*                                                                         *)
(* The sweep, for every number of rates and processes: its trials are its  *)
(* own and the headset is left as found (SweepInv). It needs, between the  *)
(* launch and the record, whom the host asked and whom it disturbed        *)
(* (MeasureInv), what the headset's files say of its process (DeviceInv),  *)
(* and what each part of the cleanup has left (CleanInv).                  *)
(*                                                                         *)
(* The Python session, for every number of cubes, edits and steps: what it *)
(* shows, feels and holds belongs to the build it uses (SceneInv), an edit *)
(* that fails leaves no trace, force closes only on fresh readings, and it *)
(* is a scene whose edits happen at once (EditableScene). It needs which   *)
(* objects a copy shares with the session at each stage of its build, and  *)
(* what its own hold by then (HasBuilt, Furnished).                        *)
(***************************************************************************)
EXTENDS SimulationSession, RateSweep, ApkBuild, SequenceTheorems, FiniteSetTheorems, TLAPS

(***************************************************************************)
(* The package: types                                                      *)
(***************************************************************************)
GraphSteps == {"capture", "canonical", "metadata", "compile", "list", "verify", "tests",
               "report", "recheck"}
BundleSteps == {"libraries", "strip", "python", "list", "packages", "robot", "provenance"}
Baking == {"bake", "assets", "manifest", "header", "output", "meshes"}
Packaged == {"contract", "complete"}
Prepared == {"runtime", "listing", "gradle"} \union Packaged
Traced == {"prepare"} \union Prepared
WithMeshes == {"trace"} \union Traced
QuestSteps == {"graphs"} \union Baking \union WithMeshes

Edits == [description : Nat, checkout : Nat]
Tool == [name : {"none", "graphs", "warp", "runtime", "quest"},
         step : {"none"} \union GraphSteps \union BundleSteps \union QuestSteps,
         urdf : Nat, visuals : Nat, edits : Edits]
Inputs == [description : Nat, visuals : Nat, checkout : Nat, warp : Nat]

\* The files of a bundle, and what its manifest lists.
Listing(files) == [files : files, listed : files]

Graph == [model : Nat, source : Nat, addresses : BOOLEAN]
Native == [name : {"kernels", "warp", "cxx"}, needed : SUBSET {"warp", "cxx", "libc", "omp"}]
GraphFiles == [graphs : Graph, libraries : SUBSET Native]
Artifact == [files : GraphFiles, listed : GraphFiles, urdf : Nat, report : BOOLEAN,
             built : BOOLEAN, edits : Edits]
Library == [build : Nat, stripped : BOOLEAN]
WarpFiles == [library : Library, python : Nat]
RuntimeFiles == [library : Library, python : Nat, urdf : Nat, provenance : WarpFiles]
Assets == [visuals : Nat]
Manifest == [assets : Assets, urdf : Nat]
Meshes == [assets : Assets, manifest : Manifest, header : [manifest : Manifest]]
Staging == [graphs : Graph, trace : Graph, meshes : Meshes, library : Library,
            runtime : RuntimeFiles]
Apk == [staged : Staging, python : Nat, urdf : Nat, accepted : BOOLEAN]

BuildTypeOK ==
    /\ inputs \in Inputs /\ changes \in Nat /\ tool \in Tool
    /\ artifact \in Artifact
    /\ warp \in Listing(WarpFiles) /\ runtime \in Listing(RuntimeFiles)
    /\ meshes \in Meshes
    /\ staging \in Staging
    /\ apk \in Apk

(***************************************************************************)
(* The inductive invariants                                                *)
(***************************************************************************)
\* What a patch may make of the files of a bundle.
LibraryPatched(files) == [files EXCEPT !.library.build = Patched]

\* No Warp build has the version of a patch; a staging has no manifest.
WarpInv ==
    /\ inputs.warp \in Versions
    /\ tool.name = "warp" => warp.listed = NoWarp
    /\ Runs("warp", "strip") \/ Runs("warp", "python") \/ Runs("warp", "list") =>
         warp.files.library.build # Patched
    /\ warp.listed # NoWarp =>
         /\ warp.listed.library.build # Patched
         /\ warp.files \in {warp.listed, LibraryPatched(warp.listed)}

\* What a runtime has of the Warp bundle, and of its manifest.
FromWarp(files) == files.library = warp.listed.library /\ files.python = warp.listed.python

OfItsWarp(files) ==
    /\ files.library = files.provenance.library /\ files.python = files.provenance.python
    /\ files.library.build # Patched

RuntimeInv ==
    /\ tool.name = "runtime" =>
         /\ runtime.listed = NoRuntime
         /\ warp.listed # NoWarp /\ warp.files = warp.listed
         /\ tool.step \in {"robot", "provenance", "list"} => FromWarp(runtime.files)
         /\ tool.step = "list" => runtime.files.provenance = warp.listed
         /\ tool.step \in {"packages", "robot", "provenance", "list"}
    /\ runtime.listed # NoRuntime =>
         /\ OfItsWarp(runtime.listed) /\ Resolved(runtime.listed.library)
         /\ runtime.files \in {runtime.listed, LibraryPatched(runtime.listed)}

\* What a running capture read, by how often its inputs were changed since it began. An
\* input that was changed once is not what it was.
Listed == {"verify", "tests", "report", "recheck"}
Described == {"compile", "list"} \union Listed

PinInv ==
    /\ tool.edits.checkout = 0 => Pinned(inputs.checkout)
    /\ tool.edits.checkout = 1 => ~Pinned(inputs.checkout)
    /\ tool.step # "capture" /\ tool.edits.checkout = 0 =>
         Pinned(artifact.files.graphs.source)

DescriptionInv ==
    /\ tool.step \in {"canonical", "metadata"} /\ tool.edits.description = 0 =>
         artifact.files.graphs.model = inputs.description
    /\ tool.step \in Described =>
         /\ tool.edits.description = 0 =>
              /\ artifact.files.graphs.model = tool.urdf
              /\ tool.urdf = inputs.description
         /\ tool.edits.description = 1 =>
              \/ artifact.files.graphs.model = tool.urdf
              \/ tool.urdf = inputs.description

\* What the replay tests leave possible.
PosesAgree(model, urdf, edits) ==
    \/ model = urdf
    \/ edits = 1 /\ LinkPoses(model) = LinkPoses(urdf)
    \/ edits >= 2

GraphInv ==
    /\ tool.name = "graphs" =>
         /\ tool.step \in GraphSteps /\ ~Built
         /\ PinInv /\ DescriptionInv
         /\ tool.step \in Listed => artifact.listed = artifact.files /\ artifact.urdf = tool.urdf
         /\ tool.step \in {"report", "recheck"} =>
              PosesAgree(artifact.files.graphs.model, artifact.urdf, tool.edits.description)
    /\ Built =>
         /\ Pinned(artifact.listed.graphs.source) \/ artifact.edits.checkout >= 2
         /\ PosesAgree(artifact.listed.graphs.model, artifact.urdf, artifact.edits.description)

\* What the build script has compared by each of its steps: the contract of the package
\* never looks at the graphs, so what it needs of them is what was staged.
OfOneHash(staged) ==
    /\ staged.graphs = artifact.listed.graphs /\ staged.trace = staged.graphs
    /\ staged.meshes.manifest.urdf = artifact.urdf
    /\ staged.meshes.header = Header(staged.meshes.manifest)

QuestInv ==
    /\ tool.name = "quest" =>
         /\ Built /\ tool.step \in QuestSteps
         /\ tool.step # "graphs" => staging.graphs = artifact.listed.graphs
         /\ tool.step = "meshes" => meshes.header = Header(meshes.manifest)
         /\ tool.step \in WithMeshes =>
              /\ staging.meshes.manifest.urdf = artifact.urdf
              /\ staging.meshes.header = Header(staging.meshes.manifest)
         /\ tool.step \in Traced => staging.trace = staging.graphs
         /\ tool.step \in Prepared => runtime.listed # NoRuntime
         /\ tool.step = "contract" => OfOneHash(apk.staged)
    /\ apk.accepted => Runs("quest", "complete")

(***************************************************************************)
(* Type correctness                                                        *)
(***************************************************************************)

\* What the directories hold at first is well typed.
LEMMA EmptyTypes ==
    /\ Nobody \in Tool /\ NoGraphs \in Graph /\ NoFiles \in GraphFiles
    /\ EmptyArtifact \in Artifact /\ NoLibrary \in Library /\ NoWarp \in WarpFiles
    /\ NoRuntime \in RuntimeFiles /\ EmptyRuntime \in Listing(RuntimeFiles)
    /\ NoManifest \in Manifest /\ NoMeshes \in Meshes /\ NoStaging \in Staging /\ NoApk \in Apk
<1>1. Nobody \in Tool
  BY DEF Nobody, Tool, NoEdits, Edits
<1>2. NoGraphs \in Graph
  BY DEF NoGraphs, Graph
<1>3. NoFiles \in GraphFiles
  BY <1>2 DEF NoFiles, GraphFiles
<1>4. EmptyArtifact \in Artifact
  BY <1>3 DEF EmptyArtifact, Artifact, NoEdits, Edits
<1>5. NoLibrary \in Library
  BY DEF NoLibrary, Library
<1>6. NoWarp \in WarpFiles
  BY <1>5 DEF NoWarp, WarpFiles
<1>7. NoRuntime \in RuntimeFiles
  BY <1>5, <1>6 DEF NoRuntime, RuntimeFiles
<1>8. EmptyRuntime \in Listing(RuntimeFiles)
  BY <1>7 DEF EmptyRuntime, Listing
<1>9. NoManifest \in Manifest
  BY DEF NoManifest, Manifest, Baked, Assets
<1>10. NoMeshes \in Meshes
  BY <1>9 DEF NoMeshes, Meshes, Baked, Assets, Header
<1>11. NoStaging \in Staging
  BY <1>2, <1>5, <1>7, <1>10 DEF NoStaging, Staging
<1>12. NoApk \in Apk
  BY <1>11 DEF NoApk, Apk
<1> QED
  BY <1>1, <1>2, <1>3, <1>4, <1>5, <1>6, <1>7, <1>8, <1>9, <1>10, <1>11, <1>12

(***************************************************************************)
(* What the steps of the three groups of tools leave alone                 *)
(***************************************************************************)
QuestStep ==
    \/ BeginQuest \/ StageGraphs \/ BakeMeshes \/ WriteAssets \/ WriteMeshManifest \/ WriteHeader
    \/ VerifyMeshes \/ StageMeshes \/ StageTrace \/ Prepare \/ StageRuntime \/ StageListing
    \/ PackageApk \/ CheckContract

\* A step of a tool and the step after it have the tool in common.
LEMMA ContinueKeepsName ==
    ASSUME tool \in Tool, NEW step, Continue(step)
    PROVE  tool'.name = tool.name
  BY DEF Continue, Tool

\* A tool that begins is the running one.
LEMMA BeginSetsName ==
    ASSUME NEW name, NEW step, Begins(name, step)
    PROVE  tool'.name = name
  BY DEF Begins, Nobody

\* The capture of the graphs touches nothing else, and no other tool.
LEMMA GraphFrame ==
    ASSUME tool \in Tool, GraphNext
    PROVE  /\ UNCHANGED <<inputs, changes>>
           /\ tool.name \in {"none", "graphs"} /\ tool'.name \in {"none", "graphs"}
<1>1. UNCHANGED <<inputs, changes>>
  BY DEF GraphNext, BeginGraphs, SaveGraphs, CanonicalizeGraphs, WriteMetadata,
         CompileLibraries, ListArtifacts, VerifyArtifacts, ReplayGraphs, WriteReport,
         FinishGraphs
<1>2. tool.name \in {"none", "graphs"}
  BY DEF GraphNext, BeginGraphs, SaveGraphs, CanonicalizeGraphs, WriteMetadata,
         CompileLibraries, ListArtifacts, VerifyArtifacts, ReplayGraphs, WriteReport,
         FinishGraphs, Nobody, Begins, Runs
<1>3. tool'.name \in {"none", "graphs"}
  <2>1. CASE BeginGraphs
    BY <2>1, BeginSetsName DEF BeginGraphs
  <2>2. CASE WriteMetadata
    BY <2>2 DEF WriteMetadata, Tool, Nobody, Ends, Runs
  <2>3. CASE FinishGraphs
    BY <2>3 DEF FinishGraphs, Tool, Nobody, Ends, Runs
  <2> QED
    BY <1>2, <2>1, <2>2, <2>3, ContinueKeepsName, BeginSetsName
       DEF GraphNext, SaveGraphs, CanonicalizeGraphs, CompileLibraries,
           ListArtifacts, VerifyArtifacts, ReplayGraphs, WriteReport, Runs
<1> QED
  BY <1>1, <1>2, <1>3

\* Nor do the stagings of the two bundles.
LEMMA BundlesFrame ==
    ASSUME tool \in Tool, BundlesNext
    PROVE  /\ UNCHANGED <<inputs, changes>>
           /\ tool.name \in {"none", "warp", "runtime"} /\ tool'.name \in {"none", "warp", "runtime"}
<1>1. UNCHANGED <<inputs, changes>>
  BY DEF BundlesNext, BeginWarp, CopyLibraries, StripLibraries, CopyPython, ListWarp,
         BeginRuntime, CopyPackages, CopyRobot, CopyProvenance, ListRuntime
<1>2. tool.name \in {"none", "warp", "runtime"}
  BY DEF BundlesNext, BeginWarp, CopyLibraries, StripLibraries, CopyPython, ListWarp,
         BeginRuntime, CopyPackages, CopyRobot, CopyProvenance, ListRuntime, Nobody,
         Begins, Runs
<1>3. tool'.name \in {"none", "warp", "runtime"}
  <2>1. CASE ListWarp
    BY <2>1 DEF ListWarp, Tool, Nobody, Ends, Runs
  <2>2. CASE ListRuntime
    BY <2>2 DEF ListRuntime, Tool, Nobody, Ends, Runs
  <2> QED
    BY <1>2, <2>1, <2>2, ContinueKeepsName, BeginSetsName
       DEF BundlesNext, BeginWarp, CopyLibraries, StripLibraries, CopyPython,
           BeginRuntime, CopyPackages, CopyRobot, CopyProvenance, Runs
<1> QED
  BY <1>1, <1>2, <1>3

\* The package build reads the bundles and writes none of them.
LEMMA QuestFrame ==
    ASSUME tool \in Tool, QuestStep
    PROVE  /\ UNCHANGED <<inputs, changes, artifact, warp, runtime>>
           /\ tool.name \in {"none", "quest"} /\ tool'.name = "quest"
<1>1. UNCHANGED <<inputs, changes, artifact, warp, runtime>>
  BY DEF QuestStep, BeginQuest, StageGraphs, BakeMeshes, WriteAssets, WriteMeshManifest,
         WriteHeader, VerifyMeshes, StageMeshes, StageTrace, Prepare, StageRuntime,
         StageListing, PackageApk, CheckContract
<1>2. tool.name \in {"none", "quest"}
  BY DEF QuestStep, BeginQuest, StageGraphs, BakeMeshes, WriteAssets, WriteMeshManifest,
         WriteHeader, VerifyMeshes, StageMeshes, StageTrace, Prepare, StageRuntime,
         StageListing, PackageApk, CheckContract, Nobody, Begins, Runs
<1>3. tool'.name = "quest"
  <2>1. CASE BakeMeshes
    BY <2>1 DEF BakeMeshes, Tool, Nobody, Ends, Runs
  <2> QED
    BY <1>2, <2>1, ContinueKeepsName, BeginSetsName
       DEF QuestStep, BeginQuest, StageGraphs, WriteAssets, WriteMeshManifest,
           WriteHeader, VerifyMeshes, StageMeshes, StageTrace, Prepare,
           StageRuntime, StageListing, PackageApk, CheckContract, Runs
<1> QED
  BY <1>1, <1>2, <1>3

\* A change makes one input another one, and only the capture of the graphs notices.
LEMMA EditNoticed ==
    ASSUME inputs \in Inputs, tool \in Tool, changes \in Nat, InputChanges
    PROVE  /\ inputs' \in Inputs /\ tool' \in Tool /\ changes' \in Nat
           /\ tool'.name = tool.name /\ tool'.step = tool.step /\ tool'.urdf = tool.urdf
           /\ inputs'.warp \in Versions \/ inputs'.warp = inputs.warp
           /\ tool.name # "graphs" => tool' = tool
           /\ tool.name = "graphs" =>
                /\ \/ /\ tool'.edits.checkout = tool.edits.checkout
                      /\ inputs'.checkout = inputs.checkout
                   \/ /\ tool'.edits.checkout = tool.edits.checkout + 1
                      /\ inputs'.checkout # inputs.checkout
                /\ \/ /\ tool'.edits.description = tool.edits.description
                      /\ inputs'.description = inputs.description
                   \/ tool'.edits.description = tool.edits.description + 1
<1>1. PICK input \in DOMAIN inputs : \E version \in Versions \ {inputs[input]} :
        inputs' = [inputs EXCEPT ![input] = version] /\ tool' = Noticed(input)
  BY DEF InputChanges
<1>2. PICK version \in Versions \ {inputs[input]} :
        inputs' = [inputs EXCEPT ![input] = version]
  BY <1>1
<1>3. tool' = Noticed(input) /\ version \in Nat /\ changes' = changes + 1
  BY <1>1, BuildAssumption DEF InputChanges, Versions
<1>4. input \in {"description", "visuals", "checkout", "warp"}
  BY DEF Inputs
<1>5. DOMAIN NoEdits = {"description", "checkout"}
  BY DEF NoEdits
<1>6. inputs' \in Inputs
  BY <1>2, <1>3, <1>4 DEF Inputs
<1>7. CASE input = "description"
  BY <1>2, <1>3, <1>5, <1>6, <1>7 DEF Noticed, Tool, Edits, Inputs
<1>8. CASE input = "checkout"
  BY <1>2, <1>3, <1>5, <1>6, <1>8 DEF Noticed, Tool, Edits, Inputs
<1>9. CASE input = "visuals"
  BY <1>2, <1>3, <1>5, <1>6, <1>9 DEF Noticed, Inputs
<1>10. CASE input = "warp"
  BY <1>2, <1>3, <1>5, <1>6, <1>10 DEF Noticed, Inputs
<1> QED
  BY <1>4, <1>7, <1>8, <1>9, <1>10

\* Each step keeps the types.
LEMMA TypeStep == BuildTypeOK /\ [BuildNext]_buildVars => BuildTypeOK'
<1> SUFFICES ASSUME BuildTypeOK, [BuildNext]_buildVars PROVE BuildTypeOK'
  OBVIOUS
<1> USE EmptyTypes, BuildAssumption
        DEF BuildTypeOK, Nobody, Continue, Tool, GraphSteps, BundleSteps, QuestSteps,
            Baking,
            WithMeshes, Traced, Prepared, Packaged
<1>1. CASE UNCHANGED buildVars
  BY <1>1 DEF buildVars, toolVars
<1>2. CASE InputChanges /\ UNCHANGED <<artifact, warp, runtime, meshes, staging, apk>>
  BY <1>2, EditNoticed
<1>3. CASE ToolFails /\ Discards /\ UNCHANGED <<warp, meshes, staging>>
  BY <1>3 DEF ToolFails, Discards, Ends
<1>4. CASE GraphNext /\ UNCHANGED <<warp, runtime, meshes, staging, apk>>
  <2>1. CASE SaveGraphs
    BY <1>4, <2>1 DEF SaveGraphs, Captured, Artifact, GraphFiles, Graph, Inputs
  <2>2. CASE CanonicalizeGraphs
    BY <1>4, <2>2 DEF CanonicalizeGraphs, Canonical, Artifact, GraphFiles, Graph
  <2>3. CASE WriteMetadata
    BY <1>4, <2>3 DEF WriteMetadata, Inputs
  <2>4. CASE CompileLibraries
    <3>1. PICK more \in {{}, {"omp"}} : artifact' = [artifact EXCEPT !.files.libraries = Libraries(more)]
      BY <2>4 DEF CompileLibraries
    <3>2. Libraries(more) \in SUBSET Native
      BY <3>1 DEF Libraries, Native
    <3>3. artifact' \in Artifact
      BY <3>1, <3>2 DEF Artifact, GraphFiles
    <3> QED
      BY <1>4, <2>4, <3>3 DEF CompileLibraries
  <2>5. CASE ListArtifacts
    BY <1>4, <2>5 DEF ListArtifacts, Artifact
  <2>6. CASE VerifyArtifacts
    BY <1>4, <2>6 DEF VerifyArtifacts
  <2>7. CASE ReplayGraphs
    BY <1>4, <2>7 DEF ReplayGraphs
  <2>8. CASE WriteReport
    BY <1>4, <2>8 DEF WriteReport, Artifact
  <2>9. CASE FinishGraphs
    <3>1. artifact' \in Artifact
      BY <2>9 DEF FinishGraphs, Artifact
    <3> QED
      BY <1>4, <2>9, <3>1 DEF FinishGraphs, Ends
  <2>10. CASE BeginGraphs
    BY <1>4, <2>10 DEF BeginGraphs, Begins
  <2> QED
    BY <1>4, <2>1, <2>2, <2>3, <2>4, <2>5, <2>6, <2>7, <2>8, <2>9, <2>10 DEF GraphNext
<1>5. CASE BundlesNext /\ UNCHANGED <<artifact, meshes, staging, apk>>
  <2>1. CASE BeginWarp
    BY <1>5, <2>1 DEF BeginWarp, Begins, Listing
  <2>2. CASE CopyLibraries
    BY <1>5, <2>2 DEF CopyLibraries, Listing, WarpFiles, Library, Inputs
  <2>3. CASE StripLibraries
    BY <1>5, <2>3 DEF StripLibraries, Stripped, Listing, WarpFiles, Library
  <2>4. CASE CopyPython
    BY <1>5, <2>4 DEF CopyPython, Listing, WarpFiles, Inputs
  <2>5. CASE ListWarp
    BY <1>5, <2>5 DEF ListWarp, Ends, Listing
  <2>6. CASE BeginRuntime
    BY <1>5, <2>6 DEF BeginRuntime, Begins
  <2>7. CASE CopyPackages
    BY <1>5, <2>7 DEF CopyPackages, Listing, WarpFiles, RuntimeFiles
  <2>8. CASE CopyRobot
    BY <1>5, <2>8 DEF CopyRobot, Listing, RuntimeFiles, Inputs
  <2>9. CASE CopyProvenance
    BY <1>5, <2>9 DEF CopyProvenance, Listing, RuntimeFiles
  <2>10. CASE ListRuntime
    BY <1>5, <2>10 DEF ListRuntime, Ends, Listing
  <2> QED
    BY <1>5, <2>1, <2>2, <2>3, <2>4, <2>5, <2>6, <2>7, <2>8, <2>9, <2>10 DEF BundlesNext
<1>6. CASE BeginQuest
  BY <1>6 DEF BeginQuest, Begins, Staging
<1>7. CASE StageGraphs
  BY <1>7 DEF StageGraphs, Staging, Artifact, GraphFiles
<1>8. CASE BakeMeshes
  BY <1>8 DEF BakeMeshes, Inputs
<1>9. CASE WriteAssets
  BY <1>9 DEF WriteAssets, Meshes, Baked, Assets
<1>10. CASE WriteMeshManifest
  BY <1>10 DEF WriteMeshManifest, Meshes, Manifest, Baked, Assets, Artifact
<1>11. CASE WriteHeader
  BY <1>11 DEF WriteHeader, Meshes, Header
<1>12. CASE VerifyMeshes
  BY <1>12 DEF VerifyMeshes
<1>13. CASE StageMeshes
  BY <1>13 DEF StageMeshes, Staging
<1>14. CASE StageTrace
  BY <1>14 DEF StageTrace, Staging, Artifact, GraphFiles
<1>15. CASE Prepare
  BY <1>15 DEF Prepare
<1>16. CASE StageRuntime
  BY <1>16 DEF StageRuntime, Staging, Listing, RuntimeFiles
<1>17. CASE StageListing
  BY <1>17 DEF StageListing, Staging, Listing, RuntimeFiles
<1>18. CASE PackageApk
  <2>1. PICK library \in {staging.library, Stripped(staging.library)} :
         apk' = [staged |-> [staging EXCEPT !.library = library], accepted |-> FALSE,
                 python |-> runtime.files.python, urdf |-> runtime.files.urdf]
    BY <1>18 DEF PackageApk
  <2>2. library \in Library
    BY <2>1 DEF Stripped, Staging, Library
  <2>3. [staging EXCEPT !.library = library] \in Staging
    BY <2>2 DEF Staging
  <2>4. runtime.files.python \in Nat /\ runtime.files.urdf \in Nat
    BY DEF Listing, RuntimeFiles
  <2>5. apk' \in Apk
    BY <2>1, <2>3, <2>4 DEF Apk
  <2> QED
    BY <1>18, <2>5 DEF PackageApk
<1>19. CASE CheckContract
  BY <1>19 DEF CheckContract, Apk
<1>20. CASE PatchByHand
  <2>1. Patched \in Nat
    BY DEF Patched
  <2>2. artifact' \in Artifact
    <3>1. \/ artifact' = artifact
          \/ \E model \in Nat : artifact' = [artifact EXCEPT !.files.graphs.model = model]
      BY <1>20, <2>1 DEF PatchByHand, PatchOrUndo, Artifact, GraphFiles, Graph
    <3>2. \A model \in Nat : [artifact EXCEPT !.files.graphs.model = model] \in Artifact
      BY DEF Artifact, GraphFiles, Graph
    <3> QED
      BY <3>1, <3>2
  <2>3. warp' \in Listing(WarpFiles)
    <3>1. \/ warp' = warp
          \/ \E build \in Nat : warp' = [warp EXCEPT !.files.library.build = build]
      BY <1>20, <2>1 DEF PatchByHand, PatchOrUndo, Listing, WarpFiles, Library
    <3> QED
      BY <3>1 DEF Listing, WarpFiles, Library
  <2>4. runtime' \in Listing(RuntimeFiles)
    <3>1. \/ runtime' = runtime
          \/ \E build \in Nat : runtime' = [runtime EXCEPT !.files.library.build = build]
      BY <1>20, <2>1 DEF PatchByHand, PatchOrUndo, Listing, RuntimeFiles, Library
    <3> QED
      BY <3>1 DEF Listing, RuntimeFiles, Library
  <2> QED
    BY <1>20, <2>2, <2>3, <2>4 DEF PatchByHand
<1> QED
  BY <1>1, <1>2, <1>3, <1>4, <1>5, <1>6, <1>7, <1>8, <1>9, <1>10, <1>11, <1>12, <1>13,
     <1>14, <1>15, <1>16, <1>17, <1>18, <1>19, <1>20
     DEF BuildNext

\* A staging takes the manifest away before it touches a file, and puts it back last.
LEMMA WarpInvStep == BuildTypeOK /\ WarpInv /\ [BuildNext]_buildVars => WarpInv'
<1> SUFFICES ASSUME BuildTypeOK, WarpInv, [BuildNext]_buildVars PROVE WarpInv'
  OBVIOUS
<1> USE BuildAssumption
        DEF BuildTypeOK, WarpInv, Patched, Nobody, Begins, Continue, Ends, Runs, Tool,
            Listing, WarpFiles, Library, NoWarp, NoLibrary, LibraryPatched
<1>1. CASE UNCHANGED buildVars
  BY <1>1 DEF buildVars, toolVars
<1>2. CASE InputChanges /\ UNCHANGED <<artifact, warp, runtime, meshes, staging, apk>>
  BY <1>2, EditNoticed
<1>3. CASE ToolFails /\ Discards /\ UNCHANGED <<warp, meshes, staging>>
  BY <1>3 DEF ToolFails, Discards, Ends
<1>4. CASE GraphNext /\ UNCHANGED <<warp, runtime, meshes, staging, apk>>
  BY <1>4, GraphFrame
<1>5. CASE BundlesNext /\ UNCHANGED <<artifact, meshes, staging, apk>>
  <2>1. CASE BeginWarp
    BY <1>5, <2>1 DEF BeginWarp
  <2>2. CASE CopyLibraries
    BY <1>5, <2>2 DEF CopyLibraries, Inputs, Versions
  <2>3. CASE StripLibraries
    BY <1>5, <2>3 DEF StripLibraries, Stripped
  <2>4. CASE CopyPython
    BY <1>5, <2>4 DEF CopyPython
  <2>5. CASE ListWarp
    BY <1>5, <2>5 DEF ListWarp
  <2>6. CASE BeginRuntime
    BY <1>5, <2>6 DEF BeginRuntime
  <2>7. CASE CopyPackages
    BY <1>5, <2>7 DEF CopyPackages
  <2>8. CASE CopyRobot
    BY <1>5, <2>8 DEF CopyRobot
  <2>9. CASE CopyProvenance
    BY <1>5, <2>9 DEF CopyProvenance
  <2>10. CASE ListRuntime
    BY <1>5, <2>10 DEF ListRuntime
  <2> QED
    BY <1>5, <2>1, <2>2, <2>3, <2>4, <2>5, <2>6, <2>7, <2>8, <2>9, <2>10 DEF BundlesNext
<1>6. CASE QuestStep
  BY <1>6, QuestFrame
<1>7. CASE PatchByHand
  <2>1. \/ warp' = warp
        \/ \E build \in {Patched, warp.listed.library.build} :
             warp' = [warp EXCEPT !.files.library.build = build]
    BY <1>7 DEF PatchByHand, PatchOrUndo
  <2>2. warp'.listed = warp.listed
    BY <2>1
  <2>3. warp.listed # NoWarp =>
          warp'.files \in {warp.listed, LibraryPatched(warp.listed)}
    BY <2>1
  <2>4. tool' = tool /\ inputs' = inputs
    BY <1>7 DEF PatchByHand
  <2>5. tool.name = "warp" => warp' = warp
    BY <1>7 DEF PatchByHand
  <2> QED
    BY <2>2, <2>3, <2>4, <2>5
<1> QED
  BY <1>1, <1>2, <1>3, <1>4, <1>5, <1>6, <1>7 DEF BuildNext, QuestStep

\* While a runtime is put together the Warp bundle stays as listed.
LEMMA RuntimeInvStep ==
    BuildTypeOK /\ WarpInv /\ RuntimeInv /\ [BuildNext]_buildVars => RuntimeInv'
<1> SUFFICES ASSUME BuildTypeOK, WarpInv, RuntimeInv, [BuildNext]_buildVars
             PROVE RuntimeInv'
  OBVIOUS
<1> USE BuildAssumption
        DEF BuildTypeOK, WarpInv, RuntimeInv, FromWarp, OfItsWarp, Patched, Resolved,
            Nobody, Begins, Continue, Ends, Runs, Tool, Listing, WarpFiles, RuntimeFiles,
            Library, LibraryPatched
<1>1. CASE UNCHANGED buildVars
  BY <1>1 DEF buildVars, toolVars
<1>2. CASE InputChanges /\ UNCHANGED <<artifact, warp, runtime, meshes, staging, apk>>
  BY <1>2, EditNoticed
<1>3. CASE ToolFails /\ Discards /\ UNCHANGED <<warp, meshes, staging>>
  BY <1>3 DEF ToolFails, Discards, Ends, EmptyRuntime
<1>4. CASE GraphNext /\ UNCHANGED <<warp, runtime, meshes, staging, apk>>
  BY <1>4, GraphFrame
<1>5. CASE BundlesNext /\ UNCHANGED <<artifact, meshes, staging, apk>>
  <2>1. CASE BeginWarp
    BY <1>5, <2>1 DEF BeginWarp
  <2>2. CASE CopyLibraries
    BY <1>5, <2>2 DEF CopyLibraries
  <2>3. CASE StripLibraries
    BY <1>5, <2>3 DEF StripLibraries
  <2>4. CASE CopyPython
    BY <1>5, <2>4 DEF CopyPython
  <2>5. CASE ListWarp
    BY <1>5, <2>5 DEF ListWarp
  <2>6. CASE BeginRuntime
    BY <1>5, <2>6 DEF BeginRuntime, EmptyRuntime
  <2>7. CASE CopyPackages
    BY <1>5, <2>7 DEF CopyPackages
  <2>8. CASE CopyRobot
    BY <1>5, <2>8 DEF CopyRobot
  <2>9. CASE CopyProvenance
    BY <1>5, <2>9 DEF CopyProvenance
  <2>10. CASE ListRuntime
    BY <1>5, <2>10 DEF ListRuntime, ElfVerified
  <2> QED
    BY <1>5, <2>1, <2>2, <2>3, <2>4, <2>5, <2>6, <2>7, <2>8, <2>9, <2>10 DEF BundlesNext
<1>6. CASE QuestStep
  BY <1>6, QuestFrame
<1>7. CASE PatchByHand
  <2>1. \/ runtime' = runtime
        \/ \E build \in {Patched, runtime.listed.library.build} :
             runtime' = [runtime EXCEPT !.files.library.build = build]
    BY <1>7 DEF PatchByHand, PatchOrUndo
  <2>2. runtime'.listed = runtime.listed
    BY <2>1
  <2>3. runtime.listed # NoRuntime =>
          runtime'.files \in {runtime.listed, LibraryPatched(runtime.listed)}
    BY <2>1
  <2>4. tool' = tool
    BY <1>7 DEF PatchByHand
  <2>5. tool.name = "runtime" => runtime' = runtime /\ warp' = warp
    BY <1>7 DEF PatchByHand
  <2> QED
    BY <2>2, <2>3, <2>4, <2>5
<1> QED
  BY <1>1, <1>2, <1>3, <1>4, <1>5, <1>6, <1>7 DEF BuildNext, QuestStep

\* What the capture read is what its inputs were, unless they were changed meanwhile.
LEMMA GraphInvStep == BuildTypeOK /\ GraphInv /\ [BuildNext]_buildVars => GraphInv'
<1> SUFFICES ASSUME BuildTypeOK, GraphInv, [BuildNext]_buildVars PROVE GraphInv'
  OBVIOUS
<1> USE BuildAssumption
        DEF BuildTypeOK, GraphInv, Built, GraphSteps, Nobody, Begins, Continue, Ends,
            Runs, Tool, Artifact, GraphFiles, Graph
<1>1. CASE UNCHANGED buildVars
  BY <1>1 DEF buildVars, toolVars, PinInv, DescriptionInv
<1>2. CASE InputChanges /\ UNCHANGED <<artifact, warp, runtime, meshes, staging, apk>>
  <2>1. CASE tool.name = "graphs"
    <3>1. /\ tool'.name = "graphs" /\ tool'.step = tool.step /\ tool'.urdf = tool.urdf
          /\ artifact' = artifact /\ tool' \in Tool
          /\ \/ /\ tool'.edits.checkout = tool.edits.checkout
                /\ inputs'.checkout = inputs.checkout
             \/ /\ tool'.edits.checkout = tool.edits.checkout + 1
                /\ inputs'.checkout # inputs.checkout
          /\ \/ /\ tool'.edits.description = tool.edits.description
                /\ inputs'.description = inputs.description
             \/ tool'.edits.description = tool.edits.description + 1
      BY <1>2, <2>1, EditNoticed
    <3>2. /\ tool.edits.checkout \in Nat /\ tool.edits.description \in Nat
          /\ tool'.edits.checkout \in Nat /\ tool'.edits.description \in Nat
      BY <3>1 DEF Edits
    <3>3. PinInv'
      BY <2>1, <3>1, <3>2 DEF PinInv, Pinned
    <3>4. DescriptionInv'
      BY <2>1, <3>1, <3>2 DEF DescriptionInv, Described, Listed
    <3>5. tool'.step \in {"report", "recheck"} =>
            PosesAgree(artifact'.files.graphs.model, artifact'.urdf, tool'.edits.description)
      BY <2>1, <3>1, <3>2 DEF PosesAgree
    <3> QED
      BY <2>1, <3>1, <3>3, <3>4, <3>5
  <2>2. CASE tool.name # "graphs"
    BY <1>2, <2>2, EditNoticed
  <2> QED
    BY <2>1, <2>2
<1>3. CASE ToolFails /\ Discards /\ UNCHANGED <<warp, meshes, staging>>
  BY <1>3 DEF ToolFails, Discards, Ends, EmptyArtifact
<1>4. CASE GraphNext /\ UNCHANGED <<warp, runtime, meshes, staging, apk>>
  <2> USE DEF PinInv, DescriptionInv, Described, Listed
  <2>1. CASE SaveGraphs
    BY <1>4, <2>1 DEF SaveGraphs, Captured
  <2>2. CASE CanonicalizeGraphs
    BY <1>4, <2>2 DEF CanonicalizeGraphs, Canonical
  <2>3. CASE WriteMetadata
    BY <1>4, <2>3 DEF WriteMetadata, Inputs, Edits
  <2>4. CASE CompileLibraries
    BY <1>4, <2>4 DEF CompileLibraries
  <2>5. CASE ListArtifacts
    BY <1>4, <2>5 DEF ListArtifacts
  <2>6. CASE VerifyArtifacts
    BY <1>4, <2>6 DEF VerifyArtifacts
  <2>7. CASE ReplayGraphs
    <3>1. /\ tool.name = "graphs" /\ tool.step = "tests" /\ artifact' = artifact
          /\ inputs' = inputs /\ tool' = [tool EXCEPT !.step = "report"]
          /\ LinkPoses(artifact.files.graphs.model) = LinkPoses(inputs.description)
      BY <2>7 DEF ReplayGraphs
    <3>2. /\ tool'.name = "graphs" /\ tool'.step = "report" /\ tool'.urdf = tool.urdf
          /\ tool'.edits = tool.edits
      BY <3>1
    <3>3. tool.edits.description \in Nat
      BY DEF Edits
    <3>4. PosesAgree(artifact.files.graphs.model, artifact.urdf, tool.edits.description)
      <4>1. CASE tool.edits.description = 0
        BY <3>1, <4>1 DEF PosesAgree
      <4>2. CASE tool.edits.description = 1
        BY <3>1, <4>2 DEF PosesAgree
      <4>3. CASE tool.edits.description >= 2
        BY <4>3 DEF PosesAgree
      <4> QED
        BY <3>3, <4>1, <4>2, <4>3
    <3> QED
      BY <3>1, <3>2, <3>4
  <2>8. CASE WriteReport
    BY <1>4, <2>8 DEF WriteReport, Intact
  <2>9. CASE FinishGraphs
    <3>1. /\ artifact' = [artifact EXCEPT !.built = TRUE, !.edits = tool.edits]
          /\ tool.name = "graphs" /\ tool.step = "recheck" /\ Pinned(inputs.checkout)
          /\ tool' = Nobody
      BY <2>9 DEF FinishGraphs
    <3>2. /\ artifact'.listed = artifact.files /\ artifact'.urdf = artifact.urdf
          /\ artifact'.edits = tool.edits
      BY <3>1
    <3>3. tool.edits.checkout \in Nat /\ tool.edits.checkout # 1
      BY <3>1 DEF Edits
    <3>4. Pinned(artifact.files.graphs.source) \/ tool.edits.checkout >= 2
      <4>1. CASE tool.edits.checkout = 0
        BY <3>1, <4>1
      <4> QED
        BY <3>3, <4>1
    <3> QED
      BY <3>1, <3>2, <3>4
  <2>10. CASE BeginGraphs
    BY <1>4, <2>10 DEF BeginGraphs, EmptyArtifact, NoEdits
  <2> QED
    BY <1>4, <2>1, <2>2, <2>3, <2>4, <2>5, <2>6, <2>7, <2>8, <2>9, <2>10 DEF GraphNext
<1>5. CASE BundlesNext /\ UNCHANGED <<artifact, meshes, staging, apk>>
  BY <1>5, BundlesFrame
<1>6. CASE QuestStep
  BY <1>6, QuestFrame
<1>7. CASE PatchByHand
  <2>1. /\ tool' = tool /\ inputs' = inputs
        /\ tool.name = "graphs" => artifact' = artifact
        /\ artifact'.listed = artifact.listed /\ artifact'.urdf = artifact.urdf
        /\ artifact'.built = artifact.built /\ artifact'.edits = artifact.edits
    BY <1>7 DEF PatchByHand
  <2> QED
    BY <2>1 DEF PinInv, DescriptionInv
<1> QED
  BY <1>1, <1>2, <1>3, <1>4, <1>5, <1>6, <1>7 DEF BuildNext, QuestStep

\* What the build script compared stays true, as a bundle is never written meanwhile.
LEMMA QuestInvStep ==
    BuildTypeOK /\ RuntimeInv /\ GraphInv /\ QuestInv /\ [BuildNext]_buildVars =>
    QuestInv'
<1> SUFFICES ASSUME BuildTypeOK, RuntimeInv, GraphInv, QuestInv, [BuildNext]_buildVars
             PROVE QuestInv'
  OBVIOUS
<1> USE BuildAssumption
        DEF BuildTypeOK, QuestInv, OfOneHash, Built, QuestSteps, Baking, WithMeshes,
            Traced, Prepared, Packaged, Nobody, Begins, Continue, Ends, Runs, Tool,
            Artifact, GraphFiles, Listing, Meshes, Staging, Apk, GraphInv
<1>1. CASE UNCHANGED buildVars
  BY <1>1 DEF buildVars, toolVars
<1>2. CASE InputChanges /\ UNCHANGED <<artifact, warp, runtime, meshes, staging, apk>>
  BY <1>2, EditNoticed
<1>3. CASE ToolFails /\ Discards /\ UNCHANGED <<warp, meshes, staging>>
  BY <1>3 DEF ToolFails, Discards, Ends, EmptyArtifact, NoApk, RuntimeInv
<1>4. CASE GraphNext /\ UNCHANGED <<warp, runtime, meshes, staging, apk>>
  BY <1>4, GraphFrame
<1>5. CASE BundlesNext /\ UNCHANGED <<artifact, meshes, staging, apk>>
  BY <1>5, BundlesFrame
<1>6. CASE QuestStep
  <2>1. CASE BeginQuest
    BY <2>1 DEF BeginQuest
  <2>2. CASE StageGraphs
    BY <2>2 DEF StageGraphs, Intact
  <2>3. CASE BakeMeshes
    BY <2>3 DEF BakeMeshes
  <2>4. CASE WriteAssets
    BY <2>4 DEF WriteAssets
  <2>5. CASE WriteMeshManifest
    BY <2>5 DEF WriteMeshManifest
  <2>6. CASE WriteHeader
    BY <2>6 DEF WriteHeader
  <2>7. CASE VerifyMeshes
    BY <2>7 DEF VerifyMeshes, MeshesMatch
  <2>8. CASE StageMeshes
    BY <2>8 DEF StageMeshes
  <2>9. CASE StageTrace
    BY <2>9 DEF StageTrace
  <2>10. CASE Prepare
    BY <2>10 DEF Prepare
  <2>11. CASE StageRuntime
    BY <2>11 DEF StageRuntime
  <2>12. CASE StageListing
    BY <2>12 DEF StageListing
  <2>13. CASE PackageApk
    BY <2>13 DEF PackageApk
  <2>14. CASE CheckContract
    BY <2>14, SMTT(20) DEF CheckContract
  <2> QED
    BY <1>6, <2>1, <2>2, <2>3, <2>4, <2>5, <2>6, <2>7, <2>8, <2>9, <2>10, <2>11, <2>12,
       <2>13, <2>14
       DEF QuestStep
<1>7. CASE PatchByHand
  BY <1>7 DEF PatchByHand
<1> QED
  BY <1>1, <1>2, <1>3, <1>4, <1>5, <1>6, <1>7 DEF BuildNext, QuestStep

(***************************************************************************)
(* The theorems                                                            *)
(***************************************************************************)
\* Nothing is staged at first.
LEMMA InitHolds == BuildInit => BuildTypeOK /\ WarpInv /\ RuntimeInv /\ GraphInv /\ QuestInv
<1> SUFFICES ASSUME BuildInit
             PROVE BuildTypeOK /\ WarpInv /\ RuntimeInv /\ GraphInv /\ QuestInv
  OBVIOUS
<1> USE BuildAssumption
        DEF BuildInit, ToolsInit, GraphInit, BundlesInit, Nobody, EmptyArtifact,
            EmptyRuntime, Versions
<1>1. BuildTypeOK
  BY EmptyTypes DEF BuildTypeOK, Inputs, Listing
<1>2. WarpInv
  BY DEF WarpInv, Runs, NoWarp
<1>3. RuntimeInv
  BY DEF RuntimeInv, NoRuntime
<1>4. GraphInv
  BY DEF GraphInv, Built
<1>5. QuestInv
  BY DEF QuestInv, NoApk
<1> QED
  BY <1>1, <1>2, <1>3, <1>4, <1>5

\* Every directory and the running tool stay what the tools make of them, whatever is
\* edited, patched or stopped (build_android_artifacts.py and the staging tools).
THEOREM BuildTypeCorrect == BuildSpec => []BuildTypeOK
<1>1. BuildInit => BuildTypeOK
  BY InitHolds
<1> QED
  BY <1>1, TypeStep, PTL DEF BuildSpec

\* The parts of what CheckContract accepts agree: the last comparison, with what the build
\* script compared on the way to it.
LEMMA AcceptedAgrees ==
    BuildTypeOK /\ RuntimeInv /\ GraphInv /\ QuestInv /\ CheckContract => PackageAgrees'
<1> SUFFICES ASSUME BuildTypeOK, RuntimeInv, GraphInv, QuestInv, CheckContract
             PROVE PackageAgrees'
  OBVIOUS
<1>1. /\ apk' = [apk EXCEPT !.accepted = TRUE] /\ runtime' = runtime
      /\ tool.name = "quest" /\ tool.step = "contract"
      /\ BundleMatches /\ ElfMatches /\ RobotMatches
  BY DEF CheckContract, Runs
<1>2. apk'.staged = apk.staged /\ apk'.python = apk.python /\ apk'.urdf = apk.urdf
  BY <1>1 DEF BuildTypeOK, Apk
<1>3. OfOneHash(apk.staged) /\ runtime.listed # NoRuntime /\ Built
  BY <1>1 DEF QuestInv, Prepared, Packaged
<1>4. artifact' = artifact
  BY DEF CheckContract
<1>5. OfItsWarp(runtime.listed)
  BY <1>3 DEF RuntimeInv
<1>6. /\ apk.staged.runtime = runtime.listed /\ runtime.files = runtime.listed
      /\ apk.python = runtime.listed.python /\ apk.urdf = runtime.listed.urdf
      /\ apk.staged.library \in {runtime.listed.library, Stripped(runtime.listed.library)}
  BY <1>1 DEF BundleMatches, MatchesNative
<1>7. MatchesNative(apk.staged.library, apk.staged.runtime.provenance.library)
  BY <1>5, <1>6 DEF OfItsWarp, MatchesNative
<1>8. apk.staged.library.build # Patched
  <2>1. Stripped(runtime.listed.library).build = runtime.listed.library.build
    BY DEF Stripped, BuildTypeOK, Listing, RuntimeFiles, Library
  <2> QED
    BY <1>5, <1>6, <2>1 DEF OfItsWarp
<1>9. apk.python = apk.staged.runtime.provenance.python
  BY <1>5, <1>6 DEF OfItsWarp
<1>10. /\ apk.staged.meshes.manifest.urdf = apk.urdf
       /\ apk.staged.meshes.assets = apk.staged.meshes.manifest.assets
       /\ Resolved(apk.staged.library)
  BY <1>1 DEF RobotMatches, ElfMatches
<1>11. /\ apk.staged.graphs = artifact.listed.graphs /\ apk.staged.trace = apk.staged.graphs
       /\ Built' /\ artifact'.urdf = apk.urdf /\ artifact'.listed = artifact.listed
       /\ apk.staged.meshes.header = Header(apk.staged.meshes.manifest)
  BY <1>3, <1>4, <1>10 DEF OfOneHash, Built
<1> QED
  BY <1>2, <1>7, <1>8, <1>9, <1>10, <1>11 DEF PackageAgrees

\* Nothing but the contract accepts a package, and a new one is not accepted.
LEMMA AgreesStep ==
    BuildTypeOK /\ RuntimeInv /\ GraphInv /\ QuestInv /\ PackageAgrees /\ [BuildNext]_buildVars =>
        PackageAgrees'
<1> SUFFICES ASSUME BuildTypeOK, RuntimeInv, GraphInv, QuestInv, PackageAgrees, [BuildNext]_buildVars
             PROVE PackageAgrees'
  OBVIOUS
<1>1. apk' = apk \/ apk'.accepted = FALSE \/ CheckContract
  <2>1. CASE UNCHANGED buildVars
    BY <2>1 DEF buildVars
  <2>2. CASE ToolFails /\ Discards /\ UNCHANGED <<warp, meshes, staging>>
    BY <2>2 DEF Discards, NoApk
  <2>3. CASE PackageApk
    BY <2>3 DEF PackageApk
  <2> QED
    BY <2>1, <2>2, <2>3
       DEF BuildNext, BeginQuest, StageGraphs, BakeMeshes, WriteAssets, WriteMeshManifest,
           WriteHeader, VerifyMeshes, StageMeshes, StageTrace, Prepare, StageRuntime,
           StageListing, PatchByHand
<1>2. CASE apk' = apk /\ apk.accepted
  <2>1. tool.name = "quest"
    BY <1>2 DEF QuestInv, Runs
  <2>2. ~ToolFails \/ ~Discards
    BY <1>2 DEF Discards, NoApk
  <2>3. artifact'.listed = artifact.listed /\ artifact'.urdf = artifact.urdf /\ Built' = Built
    <3>1. CASE PatchByHand
      BY <3>1 DEF PatchByHand, Built, BuildTypeOK, Artifact
    <3>2. CASE artifact' = artifact
      BY <3>2 DEF Built
    <3>3. artifact' = artifact \/ PatchByHand
      BY <2>1, <2>2, GraphFrame, QuestFrame DEF BuildNext, QuestStep, buildVars, BuildTypeOK
    <3> QED
      BY <3>1, <3>2, <3>3
  <2> QED
    BY <1>2, <2>3 DEF PackageAgrees
<1>3. CASE apk'.accepted = FALSE
  BY <1>3 DEF PackageAgrees
<1>4. CASE CheckContract
  BY <1>4, AcceptedAgrees
<1>5. CASE apk' = apk /\ ~apk.accepted
  BY <1>5 DEF PackageAgrees
<1> QED
  BY <1>1, <1>2, <1>3, <1>4, <1>5

\* The graphs, the trace, the meshes and the runtime of an accepted package all have the
\* hash of one description, the graphs are those the build returned, and nothing in it was
\* patched by hand, whatever was edited, patched and put back (verify_apk.py, with the
\* comparisons of build_quest.ps1 that the contract relies on).
THEOREM PackageHoldsTogether == BuildSpec => []PackageAgrees
<1>1. BuildInit => PackageAgrees
  BY DEF BuildInit, PackageAgrees, NoApk
<1> QED
  BY <1>1, InitHolds, TypeStep, WarpInvStep, RuntimeInvStep, GraphInvStep, QuestInvStep,
     AgreesStep, PTL DEF BuildSpec

\* A manifest that is in place lists what the tool left; a capture that returned is of the
\* pinned sources and of the listed description, as far as the checks before and after and
\* the replay tests can tell after the changes there were meanwhile; and the parts of what
\* the last comparison accepts agree. For any number of edits, patches and stopped tools.
THEOREM BundlesTrue == BuildSpec => []BundleInv
<1>1. BuildTypeOK /\ WarpInv /\ RuntimeInv /\ GraphInv =>
       ManifestsAreTrue /\ CapturedAtThePin /\ CapturedAsListed
  <2> SUFFICES ASSUME BuildTypeOK, WarpInv, RuntimeInv, GraphInv
               PROVE  ManifestsAreTrue /\ CapturedAtThePin /\ CapturedAsListed
    OBVIOUS
  <2>1. ManifestsAreTrue
    <3>1. warp.listed # NoWarp /\ warp.files.library.build # Patched =>
            warp.files = warp.listed
      BY DEF WarpInv, LibraryPatched, BuildTypeOK, Listing, WarpFiles, Library
    <3>2. runtime.listed # NoRuntime /\ runtime.files.library.build # Patched =>
            runtime.files = runtime.listed
      BY DEF RuntimeInv, LibraryPatched, BuildTypeOK, Listing, RuntimeFiles, Library
    <3> QED
      BY <3>1, <3>2 DEF ManifestsAreTrue
  <2>2. CapturedAtThePin
    BY DEF GraphInv, CapturedAtThePin
  <2>3. CapturedAsListed
    BY DEF GraphInv, CapturedAsListed, PosesAgree
  <2> QED
    BY <2>1, <2>2, <2>3
<1>2. BuildSpec => [](ManifestsAreTrue /\ CapturedAtThePin /\ CapturedAsListed)
  BY <1>1, InitHolds, TypeStep, WarpInvStep, RuntimeInvStep, GraphInvStep, PTL DEF BuildSpec
<1> QED
  BY <1>2, PackageHoldsTogether, PTL DEF BundleInv

(***************************************************************************)
(* The sweep: types and the inductive invariant                            *)
(***************************************************************************)
TrialSteps == {"pid", "poll", "health", "trace", "ready", "result", "after", "drain", "record"}
Cleanup == {"terminate", "cleanStop", "enable", "settings", "relaunch", "ended"}
HostSteps == {"discover", "refused", "disable", "stop", "launch", "stopAfter"} \union TrialSteps \union Cleanup
Measures == {"waiting", "warmup", "measuring"}
Hosts == [at : HostSteps, run : Nat, pid : Nat, before : SUBSET Nat, valid : BOOLEAN,
          hot : BOOLEAN, severe : BOOLEAN, raised : BOOLEAN, errors : BOOLEAN,
          app : BOOLEAN, proximity : {"on", "off"}]
Processes == [run : Nat, pid : Nat,
              phase : {"none", "live", "complete", "failed"} \union Measures]
Results == [run : Nat, pid : Nat, phase : {"none", "complete", "failed"},
            counters : {"none", "short", "full"}]
Records == [run : Nat, pid : Nat, before : SUBSET Nat, valid : BOOLEAN, alone : BOOLEAN]

DeviceTypeOK == app \in Processes /\ status \in Processes /\ result \in Results /\ pids \in Nat
SweepTypeOK ==
    /\ host \in Hosts /\ trials \in Seq(Records) /\ DeviceTypeOK
    /\ proximity \in {"on", "off"} /\ tracing \in {"none", "running", "ended", "failed"}
    /\ cancelled \in BOOLEAN /\ disturbed \subseteq Nat

\* The process p writes no result from now on.
Done(p) == app.pid = p => app.phase \notin Measures

\* A running benchmark's status is its own, and the last result belongs to its end.
DeviceInv ==
    /\ {app.pid, status.pid, result.pid} \subseteq 0 .. pids /\ pids # 0
    /\ app.run = 0 => app.phase \in {"none", "live"}
    /\ app.run # 0 => status = app /\ app.phase \notin {"none", "live"}
    /\ app = NoApp \/ app.pid # 0
    /\ result.pid = status.pid => result.phase = status.phase
    /\ status.phase \in {"complete", "failed"} => result.pid = status.pid
    /\ status.phase # "none" => status.pid # 0
    /\ result.pid # 0 => Done(result.pid)

\* The trials recorded are those of the runs so far, and the valid ones their own.
CountInv ==
    /\ \A i \in 1 .. Len(trials) :
         /\ trials[i].run = i
         /\ trials[i].valid => trials[i].before = {trials[i].pid} /\ trials[i].alone
    /\ host.at \in {"discover", "disable"} => host.run = 0
    /\ host.at \in {"discover", "disable", "stop", "launch", "stopAfter"} => Len(trials) = host.run
    /\ host.at \in TrialSteps => Len(trials) + 1 = host.run
    /\ host.at \in Cleanup /\ ~host.raised => Len(trials) = Rates
    /\ host.severe => host.raised

\* No complete result can come from the process the host looks for.
Lost == Done(host.pid) /\ ~(result.pid = host.pid /\ result.phase = "complete")

\* Between launch and record: whom the host asked, and whom it disturbed.
MeasureInv ==
    /\ host.pid \in 0 .. pids
    /\ host.at = "pid" => host.before = {} /\ disturbed = {}
    /\ host.at \in TrialSteps \ {"pid"} => host.pid # 0
    /\ host.at \in {"poll", "health", "result"} => host.pid \notin disturbed
    /\ host.at \in {"trace", "ready"} =>
         /\ host.before = {host.pid} \/ (host.before # {} /\ app.pid # host.pid)
         /\ host.pid \in disturbed => ~(status.pid = host.pid /\ status.phase \in {"waiting", "warmup"})
    /\ host.at = "poll" => host.before \in {{}, {host.pid}} \/ Lost
    /\ host.at = "result" => host.before = {host.pid} \/ Lost
    /\ host.at \in {"after", "drain", "record"} /\ host.valid =>
         host.before = {host.pid} /\ host.pid \notin disturbed /\ Done(host.pid)

\* What each part of the cleanup has left, as long as none has failed.
Begun == host.at \notin {"discover", "refused"}
CleanInv ==
    /\ Begun /\ host.proximity = "off" => proximity = "off"
    /\ Begun /\ ~host.errors =>
         /\ host.at \in Cleanup \ {"terminate"} => tracing # "running"
         /\ host.at \in {"enable", "settings", "relaunch"} => app = NoApp
         /\ host.at \in {"settings", "relaunch", "ended"} => proximity = host.proximity
         /\ host.at = "ended" => app.run = 0 /\ app.phase = IF Relaunches THEN "live" ELSE "none"

SweepSafe == SweepTypeOK /\ DeviceInv /\ CountInv /\ MeasureInv /\ CleanInv

\* What most steps leave of what the host remembers.
Kept(h, g) ==
    /\ g.run = h.run /\ g.pid = h.pid /\ g.before = h.before /\ g.valid = h.valid
    /\ g.severe = h.severe /\ g.app = h.app /\ g.proximity = h.proximity

\* The host goes to its next step.
LEMMA GoesIs ==
    ASSUME NEW h \in Hosts, NEW s \in HostSteps
    PROVE  LET g == [h EXCEPT !.at = s] IN
           /\ g \in Hosts /\ g.at = s /\ Kept(h, g)
           /\ g.raised = h.raised /\ g.errors = h.errors
BY DEF Hosts, Kept

\* The host raises: the cleanup begins.
LEMMA RaisesIs ==
    ASSUME NEW h \in Hosts
    PROVE  LET g == [h EXCEPT !.at = "terminate", !.raised = TRUE] IN
           /\ g \in Hosts /\ g.at = "terminate" /\ Kept(h, g)
           /\ g.raised = TRUE /\ g.errors = h.errors
<1>1. "terminate" \in HostSteps
    BY DEF HostSteps, Cleanup
<1>q. QED BY <1>1 DEF Hosts, Kept

\* The same because of a severe thermal status.
LEMMA EndsHot ==
    ASSUME NEW h \in Hosts
    PROVE  LET g == [h EXCEPT !.at = "terminate", !.raised = TRUE, !.severe = TRUE] IN
           /\ g \in Hosts /\ g.at = "terminate" /\ g.raised = TRUE /\ g.pid = h.pid
           /\ g.proximity = h.proximity
<1>1. "terminate" \in HostSteps
    BY DEF HostSteps, Cleanup
<1>q. QED BY <1>1 DEF Hosts

\* A trial is launched: the next run, which nobody has asked yet.
LEMMA LaunchIs ==
    ASSUME NEW h \in Hosts
    PROVE  LET g == [h EXCEPT !.at = "pid", !.run = @ + 1, !.before = {}] IN
           /\ g \in Hosts /\ g.at = "pid" /\ g.run = h.run + 1 /\ g.before = {}
           /\ g.pid = h.pid /\ g.raised = h.raised /\ g.severe = h.severe
           /\ g.proximity = h.proximity
<1>1. "pid" \in HostSteps /\ h.run + 1 \in Nat
    BY DEF Hosts, HostSteps, TrialSteps
<1>q. QED BY <1>1 DEF Hosts

\* The host keeps whom it asked.
LEMMA AsksIs ==
    ASSUME NEW h \in Hosts, NEW B \in SUBSET Nat
    PROVE  LET g == [h EXCEPT !.at = "trace", !.before = B] IN
           /\ g \in Hosts /\ g.at = "trace" /\ g.before = B /\ g.run = h.run /\ g.pid = h.pid
           /\ g.raised = h.raised /\ g.severe = h.severe /\ g.proximity = h.proximity
<1>1. "trace" \in HostSteps
    BY DEF HostSteps, TrialSteps
<1>q. QED BY <1>1 DEF Hosts

\* The host keeps what it concluded from the result.
LEMMA ReadsIs ==
    ASSUME NEW h \in Hosts, NEW v \in BOOLEAN
    PROVE  LET g == [h EXCEPT !.at = "after", !.valid = v] IN
           /\ g \in Hosts /\ g.at = "after" /\ g.valid = v /\ g.run = h.run /\ g.pid = h.pid
           /\ g.before = h.before
           /\ g.raised = h.raised /\ g.severe = h.severe /\ g.proximity = h.proximity
<1>1. "after" \in HostSteps
    BY DEF HostSteps, TrialSteps
<1>q. QED BY <1>1 DEF Hosts

\* The host keeps whether the headset was hot.
LEMMA FeelsIs ==
    ASSUME NEW h \in Hosts, NEW v \in BOOLEAN
    PROVE  LET g == [h EXCEPT !.at = "drain", !.hot = v] IN
           g \in Hosts /\ g.at = "drain" /\ Kept(h, g) /\ g.raised = h.raised
<1>1. "drain" \in HostSteps
    BY DEF HostSteps, TrialSteps
<1>q. QED BY <1>1 DEF Hosts, Kept

\* A part of the cleanup notes its error.
LEMMA NotesIs ==
    ASSUME NEW h \in Hosts, NEW s \in HostSteps
    PROVE  LET g == [h EXCEPT !.at = s, !.errors = TRUE] IN
           /\ g \in Hosts /\ g.at = s /\ Kept(h, g)
           /\ g.raised = h.raised /\ g.errors = TRUE
BY DEF Hosts, Kept

\* What raises leaves the trials, and the cleanup knows how the sensor was.
LEMMA RaisedSafe ==
    ASSUME SweepSafe, host' \in Hosts, host'.at = "terminate", host'.raised = TRUE,
           host'.proximity = host.proximity, host'.pid = host.pid,
           host.at \notin {"discover", "refused", "ended"},
           host.proximity = "off" => proximity' = proximity,
           trials' = trials, pids' \in Nat, pids <= pids'
    PROVE  CountInv' /\ MeasureInv' /\ CleanInv'
<1>1. CountInv'
    BY DEF SweepSafe, CountInv, TrialSteps, Cleanup
<1>2. MeasureInv'
    BY DEF SweepSafe, SweepTypeOK, DeviceTypeOK, MeasureInv, TrialSteps
<1>3. CleanInv'
    BY DEF SweepSafe, CleanInv, Begun, Cleanup
<1>q. QED BY <1>1, <1>2, <1>3

\* The same of a step that raises and turns nothing off.
LEMMA RaisesSafe ==
    ASSUME SweepSafe, Raises, host.at \notin {"discover", "refused", "ended"}, trials' = trials,
           proximity' \in {"on", "off"}, host.proximity = "off" => proximity' = proximity,
           tracing' \in {"none", "running", "ended", "failed"}, cancelled' = cancelled,
           disturbed' \subseteq Nat, DeviceTypeOK', DeviceInv', pids <= pids'
    PROVE  SweepSafe'
<1>1. SweepTypeOK
    BY DEF SweepSafe
<1>2. /\ host' \in Hosts /\ host'.at = "terminate" /\ Kept(host, host')
      /\ host'.raised = TRUE
    BY <1>1, RaisesIs DEF SweepTypeOK, Raises
<1>3. host'.proximity = host.proximity /\ host'.pid = host.pid
    BY <1>2 DEF Kept
<1>4. pids' \in Nat
    BY DEF DeviceTypeOK
<1>5. CountInv' /\ MeasureInv' /\ CleanInv'
    BY <1>2, <1>3, <1>4, RaisedSafe
<1>6. SweepTypeOK'
    BY <1>1, <1>2 DEF SweepTypeOK
<1>q. QED BY <1>5, <1>6 DEF SweepSafe

\* The headset's side when nothing happens there.
LEMMA DeviceSame ==
    ASSUME DeviceTypeOK, DeviceInv, UNCHANGED deviceVars
    PROVE  DeviceTypeOK' /\ DeviceInv'
BY DEF deviceVars, DeviceTypeOK, DeviceInv, Done

\* The same when its app is stopped.
LEMMA DeviceStopped ==
    ASSUME DeviceTypeOK, DeviceInv, app' \in {app, NoApp}, UNCHANGED <<status, result, pids>>
    PROVE  DeviceTypeOK' /\ DeviceInv'
<1>1. NoApp \in Processes /\ NoApp.run = 0 /\ NoApp.pid = 0 /\ NoApp.phase = "none"
    BY DEF NoApp, Processes
<1>2. CASE app' = app
    BY <1>2, DeviceSame DEF deviceVars
<1>3. CASE app' = NoApp
    BY <1>1, <1>3 DEF DeviceTypeOK, DeviceInv, Done, Measures
<1>q. QED BY <1>2, <1>3

\* A process that starts writes its status under a new number.
LEMMA DeviceStarts ==
    ASSUME DeviceTypeOK, DeviceInv, NEW run \in Nat \ {0}, Starts(run), result' = result
    PROVE  /\ DeviceTypeOK' /\ DeviceInv' /\ pids' = pids + 1
           /\ app'.pid = pids + 1 /\ status'.pid = pids + 1
<1>1. /\ pids' = pids + 1 /\ pids \in Nat /\ status' = app'
      /\ app' = [run |-> run, pid |-> pids + 1, phase |-> "waiting"]
    BY DEF Starts, DeviceTypeOK
<1>2. /\ app' \in Processes /\ app'.run = run /\ app'.pid = pids + 1 /\ app'.phase = "waiting"
    BY <1>1 DEF Processes, Measures
<1>3. DeviceTypeOK'
    BY <1>1, <1>2 DEF DeviceTypeOK
<1>4. result.pid \in 0 .. pids /\ pids # 0
    BY DEF DeviceInv
<1>5. DeviceInv'
    BY <1>1, <1>2, <1>4 DEF DeviceInv, Done, NoApp
<1>q. QED BY <1>1, <1>2, <1>3, <1>5

(***************************************************************************)
(* The headset's steps                                                     *)
(***************************************************************************)
\* The app's phases and its end leave what the host has recorded and concluded.
LEMMA HeadsetSafe ==
    ASSUME SweepSafe, AppGoesOn \/ AppDies \/ TraceEnds \/ Cancel PROVE SweepSafe'
<1>0. SweepTypeOK /\ DeviceTypeOK /\ DeviceInv /\ CountInv /\ MeasureInv /\ CleanInv
    BY DEF SweepSafe, SweepTypeOK
<1>1. CASE AppGoesOn
    <2>1. /\ app.phase \in Measures
          /\ UNCHANGED <<host, trials, proximity, pids, tracing, cancelled, disturbed>>
        BY <1>1 DEF AppGoesOn, Measures
    <2>2. PICK p \in {"warmup", "measuring", "complete", "failed"} :
             /\ app' = [app EXCEPT !.phase = p] /\ status' = app'
             /\ IF p \in {"complete", "failed"}
                THEN \E c \in {"short", "full", "none"} :
                       result' = [run |-> app.run, pid |-> app.pid, phase |-> p, counters |-> c]
                ELSE result' = result
             /\ app.phase = "waiting" => p \in {"warmup", "failed"}
             /\ app.phase = "warmup" => p \in {"measuring", "failed"}
             /\ app.phase = "measuring" => p \in {"complete", "failed"}
        BY <1>1 DEF AppGoesOn
    <2>3. /\ app' \in Processes /\ app'.phase = p /\ app'.pid = app.pid /\ app'.run = app.run
          /\ app.run # 0 /\ app.pid # 0 /\ status = app
        <3>1. app \in Processes
            BY <1>0 DEF DeviceTypeOK
        <3>2. app.run # 0 /\ status = app
            BY <1>0, <2>1 DEF DeviceInv, Measures
        <3>3. app.pid # 0
            BY <1>0, <2>1 DEF DeviceInv, NoApp, Measures
        <3>q. QED BY <2>2, <3>1, <3>2, <3>3 DEF Processes, Measures
    <2>4. /\ result' \in Results
          /\ p \in {"complete", "failed"} => result'.pid = app.pid /\ result'.phase = p
          /\ p \notin {"complete", "failed"} => result' = result
        BY <1>0, <2>2, <2>3 DEF DeviceTypeOK, Results, Processes
    <2>5. DeviceTypeOK'
        BY <1>0, <2>1, <2>2, <2>3, <2>4 DEF DeviceTypeOK
    <2>6. DeviceInv'
        BY <1>0, <2>1, <2>2, <2>3, <2>4 DEF DeviceInv, Done, Measures, NoApp
    <2>7. SweepTypeOK'
        BY <1>0, <2>1, <2>5 DEF SweepTypeOK
    <2>8. CountInv'
        BY <1>0, <2>1 DEF CountInv
    <2>9. MeasureInv'
        <3>1. ~Lost \/ Lost'
            BY <1>0, <2>1, <2>2, <2>3, <2>4 DEF Lost, Done
        <3>2. Done(host.pid) => Done(host.pid)'
            BY <2>1, <2>3 DEF Done
        <3>3. status'.pid = status.pid /\ status'.phase # "waiting"
              /\ (status'.phase = "warmup" => status.phase = "waiting")
            <4>1. /\ status'.phase = p /\ status'.pid = app.pid /\ status.pid = app.pid
                  /\ status.phase = app.phase
                BY <2>2, <2>3
            <4>q. QED BY <2>1, <2>2, <4>1 DEF Measures
        <3>q. QED BY <1>0, <2>1, <2>3, <3>1, <3>2, <3>3 DEF MeasureInv
    <2>10. CleanInv'
        <3>1. app # NoApp
            BY <2>1 DEF NoApp, Measures
        <3>q. QED BY <1>0, <2>1, <2>3, <3>1 DEF CleanInv, Begun, Relaunches
    <2>q. QED BY <2>6, <2>7, <2>8, <2>9, <2>10 DEF SweepSafe
<1>2. CASE AppDies
    <2>1. /\ app.run # 0 /\ app.run \in Nat \ {0} /\ app.phase \notin {"none", "live"} /\ status = app
          /\ UNCHANGED <<host, trials, proximity, result, tracing, cancelled, disturbed>>
          /\ pids \in Nat
        BY <1>0, <1>2 DEF AppDies, DeviceTypeOK, Processes, DeviceInv
    <2>2. \/ app' = NoApp /\ UNCHANGED <<status, pids>>
          \/ Starts(app.run)
        BY <1>2 DEF AppDies
    <2>3. /\ DeviceTypeOK' /\ DeviceInv'
          /\ \/ app'.pid = 0 /\ app'.phase = "none" /\ status' = status /\ pids' = pids
             \/ app'.pid = pids + 1 /\ status'.pid = pids + 1 /\ pids' = pids + 1
        BY <1>0, <2>1, <2>2, DeviceStopped, DeviceStarts DEF NoApp
    <2>4. SweepTypeOK' /\ CountInv'
        BY <1>0, <2>1, <2>3 DEF SweepTypeOK, CountInv
    <2>5. MeasureInv'
        <3>1. host.pid \in 0 .. pids /\ host.pid \in 0 .. pids'
            BY <1>0, <2>1, <2>3 DEF MeasureInv
        <3>2. Done(host.pid)'
            BY <2>1, <2>3, <3>1 DEF Done, Measures
        <3>3. Lost => Lost'
            BY <2>1, <3>2 DEF Lost
        <3>4. status'.pid = host.pid => status' = status
            BY <2>1, <2>3, <3>1
        <3>5. host.pid # 0 => app'.pid # host.pid
            BY <2>1, <2>3, <3>1
        <3>q. QED BY <1>0, <2>1, <3>1, <3>2, <3>3, <3>4, <3>5 DEF MeasureInv, TrialSteps
    <2>6. CleanInv'
        <3>1. app # NoApp
            BY <2>1 DEF NoApp
        <3>q. QED BY <1>0, <2>1, <3>1 DEF CleanInv, Begun, Relaunches
    <2>q. QED BY <2>3, <2>4, <2>5, <2>6 DEF SweepSafe
<1>3. CASE TraceEnds \/ Cancel
    <2>1. /\ UNCHANGED <<host, trials, deviceVars, proximity, disturbed>>
          /\ tracing' \in {"none", "running", "ended", "failed"} /\ cancelled' \in BOOLEAN
          /\ tracing' = "running" => tracing = "running"
          /\ host.at = "ended" => cancelled' = cancelled
        BY <1>0, <1>3 DEF TraceEnds, Cancel, SweepTypeOK
    <2>2. DeviceTypeOK' /\ DeviceInv'
        BY <1>0, <2>1, DeviceSame
    <2>3. SweepTypeOK' /\ CountInv' /\ MeasureInv'
        BY <1>0, <2>1, <2>2 DEF SweepTypeOK, CountInv, MeasureInv, Lost, Done, deviceVars
    <2>4. CleanInv'
        BY <1>0, <2>1 DEF CleanInv, Begun, Relaunches, deviceVars
    <2>q. QED BY <2>2, <2>3, <2>4 DEF SweepSafe
<1>q. QED BY <1>1, <1>2, <1>3

(***************************************************************************)
(* The host's steps                                                        *)
(***************************************************************************)
\* Finding the headset as it is, and turning its sensor off.
LEMMA BeginsSafe ==
    ASSUME SweepSafe, Discover \/ Disable PROVE SweepSafe'
<1>0. SweepTypeOK /\ DeviceTypeOK /\ DeviceInv /\ CountInv /\ MeasureInv /\ CleanInv /\ host \in Hosts
    BY DEF SweepSafe, SweepTypeOK
<1>1. CASE Discover
    <2>1. host.at = "discover" /\ UNCHANGED <<trials, deviceVars, proximity, tracing, cancelled, disturbed>>
        BY <1>1 DEF Discover, Reached
    <2>2. DeviceTypeOK' /\ DeviceInv'
        BY <1>0, <2>1, DeviceSame
    <2>3. \/ /\ host' \in Hosts /\ host'.at = "disable" /\ host'.proximity = proximity
             /\ host'.run = host.run /\ host'.pid = host.pid
             /\ host'.severe = host.severe /\ host'.raised = host.raised
          \/ /\ host' \in Hosts /\ host'.at = "refused" /\ host'.raised = TRUE
             /\ host'.run = host.run /\ host'.pid = host.pid
        <3>1. {"disable", "refused"} \subseteq HostSteps /\ proximity \in {"on", "off"}
            BY <1>0 DEF HostSteps, Cleanup, SweepTypeOK
        <3>2. \/ \E left \in BOOLEAN :
                   host' = [host EXCEPT !.at = "disable", !.proximity = proximity, !.app = left]
              \/ host' = [host EXCEPT !.at = "refused", !.raised = TRUE]
            BY <1>1 DEF Discover
        <3>3. ASSUME NEW left \in BOOLEAN,
                     host' = [host EXCEPT !.at = "disable", !.proximity = proximity, !.app = left]
              PROVE  /\ host' \in Hosts /\ host'.at = "disable" /\ host'.proximity = proximity
                     /\ host'.run = host.run /\ host'.pid = host.pid
                     /\ host'.severe = host.severe /\ host'.raised = host.raised
            BY <1>0, <3>1, <3>3 DEF Hosts
        <3>4. ASSUME host' = [host EXCEPT !.at = "refused", !.raised = TRUE]
              PROVE  /\ host' \in Hosts /\ host'.at = "refused" /\ host'.raised = TRUE
                     /\ host'.run = host.run /\ host'.pid = host.pid
            BY <1>0, <3>1, <3>4 DEF Hosts
        <3>q. QED BY <3>2, <3>3, <3>4
    <2>4. SweepTypeOK' /\ CountInv' /\ MeasureInv'
        BY <1>0, <2>1, <2>2, <2>3
           DEF SweepTypeOK, CountInv, MeasureInv, TrialSteps, Cleanup, deviceVars
    <2>5. CleanInv'
        BY <1>0, <2>1, <2>3 DEF CleanInv, CountInv, Begun, Cleanup
    <2>q. QED BY <2>2, <2>4, <2>5 DEF SweepSafe
<1>2. CASE Disable
    <2>1. /\ host.at = "disable" /\ UNCHANGED <<trials, deviceVars, tracing, cancelled, disturbed>>
          /\ proximity' \in {"on", "off"} /\ (host.proximity = "off" => proximity' = proximity)
          /\ Raises \/ (Goes("stop") /\ (host.proximity = "on" => proximity' = "off"))
        BY <1>0, <1>2 DEF Disable, Reached, SweepTypeOK, Hosts
    <2>2. DeviceTypeOK' /\ DeviceInv' /\ pids' = pids /\ pids \in Nat
        BY <1>0, <2>1, DeviceSame DEF deviceVars, DeviceTypeOK
    <2>3. CASE Raises
        <3>1. pids <= pids'
            BY <2>2
        <3>2. tracing' \in {"none", "running", "ended", "failed"} /\ disturbed' \subseteq Nat
            BY <1>0, <2>1 DEF SweepTypeOK
        <3>q. QED BY <2>1, <2>2, <2>3, <3>1, <3>2, RaisesSafe
    <2>4. CASE Goes("stop")
        <3>1. /\ host' \in Hosts /\ host'.at = "stop" /\ Kept(host, host')
              /\ host'.raised = host.raised /\ host'.errors = host.errors
            BY <1>0, <2>4, GoesIs DEF Goes, HostSteps
        <3>2. CountInv' /\ MeasureInv' /\ CleanInv'
            BY <1>0, <2>1, <2>2, <3>1
               DEF CountInv, MeasureInv, CleanInv, Kept, TrialSteps, Cleanup, Begun
        <3>3. SweepTypeOK'
            BY <1>0, <2>1, <2>2, <3>1 DEF SweepTypeOK
        <3>q. QED BY <2>2, <3>2, <3>3 DEF SweepSafe
    <2>q. QED BY <2>1, <2>3, <2>4
<1>q. QED BY <1>1, <1>2

\* Stopping the app, starting it for a run, and finding the process that answers.
LEMMA StartsSafe ==
    ASSUME SweepSafe, StopFirst \/ Launch \/ FindPid PROVE SweepSafe'
<1>0. /\ SweepTypeOK /\ DeviceTypeOK /\ DeviceInv /\ CountInv /\ MeasureInv /\ CleanInv
      /\ host \in Hosts /\ pids \in Nat
    BY DEF SweepSafe, SweepTypeOK, DeviceTypeOK
<1>k. /\ tracing \in {"none", "running", "ended", "failed"} /\ disturbed \subseteq Nat
      /\ proximity \in {"on", "off"}
    BY <1>0 DEF SweepTypeOK
<1>1. CASE StopFirst
    <2>1. /\ host.at = "stop" /\ app' \in {app, NoApp}
          /\ UNCHANGED <<trials, status, result, pids, proximity, tracing, cancelled, disturbed>>
          /\ Raises \/ (app' = NoApp /\ Goes("launch"))
        BY <1>1 DEF StopFirst, StopApp, Reached
    <2>2. DeviceTypeOK' /\ DeviceInv' /\ pids <= pids'
        BY <1>0, <2>1, DeviceStopped
    <2>3. CASE Raises
        BY <1>0, <1>k, <2>1, <2>2, <2>3, RaisesSafe
    <2>4. CASE Goes("launch")
        <3>1. /\ host' \in Hosts /\ host'.at = "launch" /\ Kept(host, host')
              /\ host'.raised = host.raised /\ host'.errors = host.errors
            BY <1>0, <2>4, GoesIs DEF Goes, HostSteps
        <3>2. CountInv' /\ MeasureInv' /\ CleanInv'
            BY <1>0, <2>1, <3>1
               DEF CountInv, MeasureInv, CleanInv, Kept, TrialSteps, Cleanup, Begun
        <3>3. SweepTypeOK'
            BY <1>0, <2>1, <2>2, <3>1 DEF SweepTypeOK
        <3>q. QED BY <2>2, <3>2, <3>3 DEF SweepSafe
    <2>q. QED BY <2>1, <2>3, <2>4
<1>2. CASE Launch
    <2>1. /\ host.at = "launch" /\ disturbed' = {} /\ result' = result
          /\ UNCHANGED <<trials, proximity, tracing, cancelled>>
          /\ \/ Starts(host.run + 1) /\ host' = [host EXCEPT !.at = "pid", !.run = @ + 1, !.before = {}]
             \/ Starts(host.run + 1) /\ Raises
             \/ UNCHANGED <<app, status, pids>> /\ Raises
        BY <1>2 DEF Launch, Reached
    <2>2. host.run + 1 \in Nat \ {0}
        BY <1>0 DEF Hosts
    <2>3. CASE Raises
        <3>1. DeviceTypeOK' /\ DeviceInv' /\ pids <= pids'
            <4>1. CASE Starts(host.run + 1)
                BY <1>0, <2>1, <2>2, <4>1, DeviceStarts
            <4>2. CASE UNCHANGED <<app, status, pids>>
                BY <1>0, <2>1, <4>2, DeviceSame DEF deviceVars
            <4>3. CASE host' = [host EXCEPT !.at = "pid", !.run = @ + 1, !.before = {}]
                BY <1>0, <2>3, <4>3 DEF Raises, Hosts
            <4>q. QED BY <2>1, <4>1, <4>2, <4>3
        <3>q. QED BY <1>k, <2>1, <2>3, <3>1, RaisesSafe
    <2>4. CASE Starts(host.run + 1) /\ host' = [host EXCEPT !.at = "pid", !.run = @ + 1, !.before = {}]
        <3>1. DeviceTypeOK' /\ DeviceInv' /\ pids' = pids + 1
            BY <1>0, <2>1, <2>2, <2>4, DeviceStarts
        <3>2. /\ host' \in Hosts /\ host'.at = "pid" /\ host'.run = host.run + 1 /\ host'.before = {}
              /\ host'.pid = host.pid /\ host'.raised = host.raised /\ host'.severe = host.severe
              /\ host'.proximity = host.proximity
            BY <1>0, <2>4, LaunchIs
        <3>3. CountInv' /\ CleanInv'
            BY <1>0, <2>1, <3>2 DEF CountInv, CleanInv, TrialSteps, Cleanup, Begun, Hosts
        <3>4. MeasureInv'
            BY <1>0, <2>1, <3>1, <3>2 DEF MeasureInv, TrialSteps
        <3>5. SweepTypeOK'
            BY <1>0, <2>1, <3>1, <3>2 DEF SweepTypeOK
        <3>q. QED BY <3>1, <3>3, <3>4, <3>5 DEF SweepSafe
    <2>q. QED BY <2>1, <2>3, <2>4
<1>3. CASE FindPid
    <2>1. /\ host.at = "pid" /\ UNCHANGED <<trials, deviceVars, proximity, tracing, cancelled, disturbed>>
          /\ \/ app # NoApp /\ host' = [host EXCEPT !.at = "poll", !.pid = app.pid]
             \/ Raises
        BY <1>3 DEF FindPid, Reached
    <2>2. DeviceTypeOK' /\ DeviceInv' /\ pids' = pids /\ pids <= pids'
        BY <1>0, <2>1, DeviceSame DEF deviceVars
    <2>3. CASE Raises
        BY <1>k, <2>1, <2>2, <2>3, RaisesSafe
    <2>4. CASE app # NoApp /\ host' = [host EXCEPT !.at = "poll", !.pid = app.pid]
        <3>1. app.pid \in 0 .. pids /\ app.pid # 0 /\ app.pid \in Nat
            BY <1>0, <2>4 DEF DeviceInv
        <3>2. /\ host' \in Hosts /\ host'.at = "poll" /\ host'.run = host.run
              /\ host'.before = host.before
              /\ host'.pid = app.pid /\ host'.raised = host.raised /\ host'.severe = host.severe
              /\ host'.proximity = host.proximity
            BY <1>0, <2>4, <3>1 DEF Hosts, HostSteps, TrialSteps
        <3>3. CountInv' /\ CleanInv'
            BY <1>0, <2>1, <3>2 DEF CountInv, CleanInv, TrialSteps, Cleanup, Begun, deviceVars
        <3>4. MeasureInv'
            BY <1>0, <2>1, <2>2, <3>1, <3>2 DEF MeasureInv, TrialSteps
        <3>5. SweepTypeOK'
            BY <1>0, <2>1, <2>2, <3>2 DEF SweepTypeOK
        <3>q. QED BY <2>2, <3>3, <3>4, <3>5 DEF SweepSafe
    <2>q. QED BY <2>1, <2>3, <2>4
<1>q. QED BY <1>1, <1>2, <1>3

\* A step of a trial that asks nothing of the headset and changes nothing but where
\* the host is: what MeasureInv must say of the step it goes to.
LEMMA QuietStep ==
    ASSUME SweepSafe, UNCHANGED <<trials, deviceVars, proximity, tracing, cancelled, disturbed>>,
           NEW s \in TrialSteps, Goes(s), host.at \in TrialSteps,
           s \in {"poll", "health", "trace", "ready", "result", "record"},
           s \in {"poll", "health", "result"} => host.pid \notin disturbed,
           s \in {"trace", "ready"} => host.at \in {"trace", "ready"},
           s = "poll" => host.before \in {{}, {host.pid}} \/ Lost,
           s = "result" => host.before = {host.pid} \/ Lost,
           s = "record" => host.at \in {"after", "drain"},
           host.pid # 0
    PROVE  SweepSafe'
<1>0. /\ SweepTypeOK /\ DeviceTypeOK /\ DeviceInv /\ CountInv /\ MeasureInv /\ CleanInv
      /\ host \in Hosts
    BY DEF SweepSafe, SweepTypeOK
<1>1. /\ host' \in Hosts /\ host'.at = s /\ Kept(host, host')
      /\ host'.raised = host.raised /\ host'.errors = host.errors
    BY <1>0, GoesIs DEF Goes, HostSteps
<1>2. DeviceTypeOK' /\ DeviceInv'
    BY <1>0, DeviceSame
<1>3. SweepTypeOK'
    BY <1>0, <1>1, <1>2 DEF SweepTypeOK
<1>4. CountInv' /\ CleanInv'
    BY <1>0, <1>1 DEF CountInv, CleanInv, TrialSteps, Cleanup, Begun, Kept, deviceVars
<1>5. Lost' <=> Lost
    BY <1>1 DEF Lost, Done, Kept, deviceVars
<1>6. MeasureInv'
    BY <1>0, <1>1, <1>5 DEF MeasureInv, Done, Kept, deviceVars
<1>q. QED BY <1>2, <1>3, <1>4, <1>6 DEF SweepSafe

\* The looks at the status, the end of the collection and of the capture.
LEMMA WaitsSafe ==
    ASSUME SweepSafe, Poll \/ StillWarming \/ Drain PROVE SweepSafe'
<1>0. /\ SweepTypeOK /\ DeviceTypeOK /\ DeviceInv /\ CountInv /\ MeasureInv /\ CleanInv
      /\ host \in Hosts /\ pids \in Nat
    BY DEF SweepSafe, SweepTypeOK, DeviceTypeOK
<1>k. /\ tracing \in {"none", "running", "ended", "failed"} /\ disturbed \subseteq Nat
      /\ proximity \in {"on", "off"}
    BY <1>0 DEF SweepTypeOK
<1>1. /\ UNCHANGED <<trials, deviceVars, proximity, tracing, cancelled, disturbed>>
      /\ host.at \in {"poll", "ready", "drain"} /\ host.at \in TrialSteps
    BY DEF Poll, StillWarming, Drain, Reached, TrialSteps
<1>2. DeviceTypeOK' /\ DeviceInv' /\ pids <= pids' /\ host.pid # 0
    BY <1>0, <1>1, DeviceSame DEF deviceVars, MeasureInv, TrialSteps
<1>3. CASE Raises
    BY <1>k, <1>1, <1>2, <1>3, RaisesSafe
<1>4. CASE host.at = "poll" /\ ~Raises
    <2>1. /\ Mine(status)
          /\ \/ status.phase = "warmup" /\ host.before = {} /\ Goes("health")
             \/ status.phase = "complete" /\ host.before # {} /\ Goes("result")
             \/ status.phase = "failed" /\ Goes("result")
        BY <1>4 DEF Poll, StillWarming, Drain, Reached
    <2>2. host.pid \notin disturbed /\ (host.before \in {{}, {host.pid}} \/ Lost)
        BY <1>0, <1>4 DEF MeasureInv
    <2>3. CASE Goes("health")
        BY <1>1, <1>2, <2>2, <2>3, QuietStep DEF TrialSteps
    <2>4. CASE Goes("result") /\ status.phase = "complete" /\ host.before # {}
        BY <1>1, <1>2, <2>2, <2>4, QuietStep DEF TrialSteps
    <2>5. CASE Goes("result") /\ status.phase = "failed"
        <3>1. status.pid = host.pid /\ result.pid = status.pid
            BY <1>0, <2>1, <2>5 DEF Mine, DeviceInv
        <3>2. result.phase = "failed" /\ Done(result.pid)
            BY <1>0, <1>2, <2>5, <3>1 DEF DeviceInv
        <3>3. Lost
            BY <3>1, <3>2 DEF Lost
        <3>q. QED BY <1>1, <1>2, <2>2, <2>5, <3>3, QuietStep DEF TrialSteps
    <2>q. QED BY <2>1, <2>3, <2>4, <2>5
<1>5. CASE host.at = "ready" /\ ~Raises
    <2>1. Mine(status) /\ status.phase = "warmup" /\ Goes("poll")
        BY <1>5 DEF Poll, StillWarming, Drain, Reached
    <2>2. host.pid \notin disturbed
        BY <1>0, <1>5, <2>1 DEF MeasureInv, Mine
    <2>3. host.before = {host.pid} \/ Lost
        <3>1. CASE app.pid # host.pid
            <4>1. result.pid = host.pid => result.phase = "warmup"
                BY <1>0, <2>1 DEF Mine, DeviceInv
            <4>q. QED BY <3>1, <4>1 DEF Lost, Done
        <3>q. QED BY <1>0, <1>5, <3>1 DEF MeasureInv
    <2>q. QED BY <1>1, <1>2, <2>1, <2>2, <2>3, QuietStep DEF TrialSteps
<1>6. CASE host.at = "drain" /\ ~Raises
    <2>1. Goes("record")
        BY <1>6 DEF Poll, StillWarming, Drain, Reached
    <2>q. QED BY <1>1, <1>2, <1>6, <2>1, QuietStep DEF TrialSteps
<1>q. QED BY <1>1, <1>3, <1>4, <1>5, <1>6

\* Asking the headset: before the measurement for its health and its trace, which
\* leaves a process alone only while it has not begun to measure.
LEMMA AsksBeforeSafe ==
    ASSUME SweepSafe, HealthBefore \/ StartTrace PROVE SweepSafe'
<1>0. /\ SweepTypeOK /\ DeviceTypeOK /\ DeviceInv /\ CountInv /\ MeasureInv /\ CleanInv
      /\ host \in Hosts /\ pids \in Nat
    BY DEF SweepSafe, SweepTypeOK, DeviceTypeOK
<1>1. /\ UNCHANGED <<trials, deviceVars, proximity, cancelled>>
      /\ host.at \in {"health", "trace"} /\ host.at \in TrialSteps
    BY DEF HealthBefore, StartTrace, Reached, TrialSteps
<1>2. /\ DeviceTypeOK' /\ DeviceInv' /\ pids <= pids' /\ pids' = pids /\ host.pid # 0
      /\ proximity' \in {"on", "off"}
    BY <1>0, <1>1, DeviceSame DEF deviceVars, MeasureInv, SweepTypeOK, TrialSteps
<1>3. /\ disturbed' \subseteq Nat /\ tracing' \in {"none", "running", "ended", "failed"}
      /\ disturbed' # disturbed => app.phase = "measuring" /\ disturbed' = disturbed \union {app.pid}
    <2>1. app.pid \in Nat
        BY <1>0 DEF DeviceTypeOK, Processes
    <2>q. QED BY <1>0, <2>1 DEF HealthBefore, StartTrace, Disturbs, SweepTypeOK
<1>d. host.pid \in disturbed' /\ host.pid \notin disturbed =>
         ~(status'.pid = host.pid /\ status'.phase \in {"waiting", "warmup"})
    <2>1. app.phase = "measuring" => status = app
        BY <1>0 DEF DeviceInv
    <2>q. QED BY <1>1, <1>3, <2>1 DEF deviceVars
<1>4. CASE Raises
    BY <1>1, <1>2, <1>3, <1>4, RaisesSafe
<1>5. CASE host' = [host EXCEPT !.at = "terminate", !.raised = TRUE, !.severe = TRUE]
    <2>1. /\ host' \in Hosts /\ host'.at = "terminate" /\ host'.raised = TRUE /\ host'.pid = host.pid
          /\ host'.proximity = host.proximity
        BY <1>0, <1>5, EndsHot
    <2>2. CountInv' /\ MeasureInv' /\ CleanInv'
        BY <1>1, <1>2, <1>0, <2>1, RaisedSafe
    <2>3. SweepTypeOK'
        BY <1>0, <1>1, <1>2, <1>3, <2>1 DEF SweepTypeOK
    <2>q. QED BY <1>2, <2>2, <2>3 DEF SweepSafe
<1>6. CASE host.at = "health" /\ host' = [host EXCEPT !.at = "trace", !.before = {app.pid}]
    <2>1. {app.pid} \in SUBSET Nat
        BY <1>0 DEF DeviceTypeOK, Processes
    <2>2. /\ host' \in Hosts /\ host'.at = "trace" /\ host'.before = {app.pid}
          /\ host'.run = host.run /\ host'.pid = host.pid /\ host'.raised = host.raised
          /\ host'.severe = host.severe /\ host'.proximity = host.proximity
        BY <1>0, <1>6, <2>1, AsksIs
    <2>3. SweepTypeOK'
        BY <1>0, <1>1, <1>2, <1>3, <2>2 DEF SweepTypeOK
    <2>4. CountInv' /\ CleanInv'
        BY <1>0, <1>1, <1>6, <2>2 DEF CountInv, CleanInv, TrialSteps, Cleanup, Begun, deviceVars
    <2>5. host.pid \notin disturbed /\ host.pid \in 0 .. pids
        BY <1>0, <1>6 DEF MeasureInv
    <2>6. MeasureInv'
        BY <1>1, <1>2, <1>d, <2>2, <2>5 DEF MeasureInv, TrialSteps, deviceVars
    <2>q. QED BY <1>2, <2>3, <2>4, <2>6 DEF SweepSafe
<1>7. CASE host.at = "trace" /\ Goes("ready")
    <2>1. /\ host' \in Hosts /\ host'.at = "ready" /\ Kept(host, host')
          /\ host'.raised = host.raised /\ host'.errors = host.errors
        BY <1>0, <1>7, GoesIs DEF Goes, HostSteps, TrialSteps
    <2>2. SweepTypeOK'
        BY <1>0, <1>1, <1>2, <1>3, <2>1 DEF SweepTypeOK
    <2>3. CountInv' /\ CleanInv'
        BY <1>0, <1>1, <1>7, <2>1 DEF CountInv, CleanInv, TrialSteps, Cleanup, Begun, Kept, deviceVars
    <2>4. MeasureInv'
        BY <1>0, <1>1, <1>2, <1>7, <1>d, <2>1 DEF MeasureInv, TrialSteps, Kept, deviceVars
    <2>q. QED BY <1>2, <2>2, <2>3, <2>4 DEF SweepSafe
<1>q. QED BY <1>4, <1>5, <1>6, <1>7 DEF HealthBefore, StartTrace, Reached

\* The result, and the headset's health after it: the process measures no more.
LEMMA AsksAfterSafe ==
    ASSUME SweepSafe, ReadResult \/ HealthAfter PROVE SweepSafe'
<1>0. /\ SweepTypeOK /\ DeviceTypeOK /\ DeviceInv /\ CountInv /\ MeasureInv /\ CleanInv
      /\ host \in Hosts /\ pids \in Nat
    BY DEF SweepSafe, SweepTypeOK, DeviceTypeOK
<1>1. /\ UNCHANGED <<trials, deviceVars, proximity, tracing, cancelled>>
      /\ host.at \in {"result", "after"} /\ host.at \in TrialSteps
    BY DEF ReadResult, HealthAfter, Reached, TrialSteps
<1>2. /\ DeviceTypeOK' /\ DeviceInv' /\ pids <= pids' /\ pids' = pids /\ host.pid # 0
      /\ proximity' \in {"on", "off"} /\ tracing' \in {"none", "running", "ended", "failed"}
    BY <1>0, <1>1, DeviceSame DEF deviceVars, MeasureInv, SweepTypeOK, TrialSteps
<1>3. /\ disturbed' \subseteq Nat
      /\ host.at = "result" => disturbed' = disturbed
      /\ disturbed' # disturbed => app.phase = "measuring" /\ disturbed' = disturbed \union {app.pid}
    <2>1. app.pid \in Nat
        BY <1>0 DEF DeviceTypeOK, Processes
    <2>q. QED BY <1>0, <2>1 DEF ReadResult, HealthAfter, Reached, Disturbs, SweepTypeOK
<1>4. CASE Raises
    BY <1>1, <1>2, <1>3, <1>4, RaisesSafe
<1>5. CASE host.at = "result" /\ Mine(result)
           /\ host' = [host EXCEPT !.at = "after", !.valid = Valid(result)]
    <2>1. Valid(result) \in BOOLEAN
        BY DEF Valid
    <2>2. /\ host' \in Hosts /\ host'.at = "after" /\ host'.valid = Valid(result)
          /\ host'.before = host.before /\ host'.run = host.run /\ host'.pid = host.pid
          /\ host'.raised = host.raised /\ host'.severe = host.severe
          /\ host'.proximity = host.proximity
        BY <1>0, <1>5, <2>1, ReadsIs
    <2>3. SweepTypeOK'
        BY <1>0, <1>1, <1>2, <1>3, <2>2 DEF SweepTypeOK
    <2>4. CountInv' /\ CleanInv'
        BY <1>0, <1>1, <1>5, <2>2 DEF CountInv, CleanInv, TrialSteps, Cleanup, Begun, deviceVars
    <2>5. /\ host.pid \notin disturbed /\ host.pid \in 0 .. pids
          /\ host.before = {host.pid} \/ Lost
        BY <1>0, <1>5 DEF MeasureInv
    <2>6. result.pid = host.pid /\ Done(host.pid)
        BY <1>0, <1>2, <1>5 DEF Mine, DeviceInv
    <2>7. Valid(result) => host.before = {host.pid}
        BY <2>5, <2>6 DEF Valid, Lost
    <2>8. MeasureInv'
        BY <1>1, <1>2, <1>3, <1>5, <2>2, <2>5, <2>6, <2>7
           DEF MeasureInv, Done, TrialSteps, deviceVars
    <2>q. QED BY <1>2, <2>3, <2>4, <2>8 DEF SweepSafe
<1>6. CASE host.at = "after" /\ \E hot \in Severe : host' = [host EXCEPT !.at = "drain", !.hot = hot]
    <2>1. /\ host' \in Hosts /\ host'.at = "drain" /\ Kept(host, host')
          /\ host'.raised = host.raised
        <3>1. PICK hot \in BOOLEAN : host' = [host EXCEPT !.at = "drain", !.hot = hot]
            BY <1>6 DEF Severe
        <3>q. QED BY <1>0, <3>1, FeelsIs
    <2>2. SweepTypeOK'
        BY <1>0, <1>1, <1>2, <1>3, <2>1 DEF SweepTypeOK
    <2>3. CountInv' /\ CleanInv'
        BY <1>0, <1>1, <1>6, <2>1 DEF CountInv, CleanInv, TrialSteps, Cleanup, Begun, Kept, deviceVars
    <2>4. Done(host.pid) => (disturbed' = disturbed \/ host.pid \in disturbed
                            \/ host.pid \notin disturbed') /\ Done(host.pid)'
        BY <1>1, <1>3, <2>1 DEF Done, Measures, Kept, deviceVars
    <2>5. MeasureInv'
        BY <1>0, <1>1, <1>2, <1>6, <2>1, <2>4 DEF MeasureInv, TrialSteps, Kept, Done
    <2>q. QED BY <1>2, <2>2, <2>3, <2>5 DEF SweepSafe
<1>q. QED BY <1>4, <1>5, <1>6 DEF ReadResult, HealthAfter, Reached

\* A trial is recorded under the number of its run, as it was measured.
LEMMA RecordsSafe ==
    ASSUME SweepSafe, RecordTrial PROVE SweepSafe'
<1>0. /\ SweepTypeOK /\ DeviceTypeOK /\ DeviceInv /\ CountInv /\ MeasureInv /\ CleanInv
      /\ host \in Hosts /\ trials \in Seq(Records)
    BY DEF SweepSafe, SweepTypeOK
<1>1. /\ host.at = "record" /\ Goes("stopAfter")
      /\ UNCHANGED <<deviceVars, proximity, tracing, cancelled, disturbed>>
    BY DEF RecordTrial, Reached
<1>2. /\ host' \in Hosts /\ host'.at = "stopAfter" /\ Kept(host, host')
      /\ host'.raised = host.raised /\ host'.errors = host.errors
    BY <1>0, <1>1, GoesIs DEF Goes, HostSteps
<1>3. DeviceTypeOK' /\ DeviceInv'
    BY <1>0, <1>1, DeviceSame
<1>4. PICK r \in Records :
        /\ trials' = Append(trials, r) /\ r.run = host.run
        /\ r.valid => r.before = {r.pid} /\ r.alone
    <2>1. (host.pid \notin disturbed) \in BOOLEAN
        OBVIOUS
    <2>2. /\ host.run \in Nat /\ host.pid \in Nat /\ host.before \in SUBSET Nat
          /\ host.valid \in BOOLEAN
        BY <1>0 DEF Hosts
    <2>3. host.valid => host.before = {host.pid} /\ host.pid \notin disturbed
        BY <1>0, <1>1 DEF MeasureInv
    <2>4. [run |-> host.run, pid |-> host.pid, before |-> host.before, valid |-> host.valid,
           alone |-> host.pid \notin disturbed] \in Records
        BY <2>1, <2>2 DEF Records
    <2>q. QED BY <2>3, <2>4 DEF RecordTrial
<1>5. /\ trials' \in Seq(Records) /\ Len(trials) + 1 = host.run /\ Len(trials') = host.run
      /\ trials'[host.run] = r /\ \A i \in 1 .. Len(trials) : trials'[i] = trials[i]
    BY <1>0, <1>1, <1>4 DEF CountInv, TrialSteps
<1>6. SweepTypeOK'
    BY <1>0, <1>1, <1>2, <1>3, <1>5 DEF SweepTypeOK
<1>7. CountInv'
    <2>1. \A i \in 1 .. Len(trials') :
            /\ trials'[i].run = i
            /\ trials'[i].valid => trials'[i].before = {trials'[i].pid} /\ trials'[i].alone
        <3>1. SUFFICES ASSUME NEW i \in 1 .. Len(trials')
                       PROVE  /\ trials'[i].run = i
                              /\ trials'[i].valid =>
                                   trials'[i].before = {trials'[i].pid} /\ trials'[i].alone
            OBVIOUS
        <3>2. i \in 1 .. Len(trials) \/ i = host.run
            BY <1>0, <1>5
        <3>3. CASE i = host.run
            BY <1>4, <1>5, <3>3
        <3>4. CASE i \in 1 .. Len(trials)
            <4>1. trials'[i] = trials[i]
                BY <1>5, <3>4
            <4>q. QED BY <1>0, <3>4, <4>1 DEF CountInv
        <3>q. QED BY <3>2, <3>3, <3>4
    <2>2. host'.run = host.run /\ host'.severe = host.severe
        BY <1>2 DEF Kept
    <2>q. QED BY <1>0, <1>2, <1>5, <2>1, <2>2 DEF CountInv, TrialSteps, Cleanup
<1>8. MeasureInv' /\ CleanInv'
    BY <1>0, <1>1, <1>2 DEF MeasureInv, CleanInv, Begun, TrialSteps, Cleanup, Kept, deviceVars
<1>q. QED BY <1>3, <1>6, <1>7, <1>8 DEF SweepSafe

\* The end of a trial.
LEMMA StopAfterSafe ==
    ASSUME SweepSafe, StopAfter PROVE SweepSafe'
<1>0. /\ SweepTypeOK /\ DeviceTypeOK /\ DeviceInv /\ CountInv /\ MeasureInv /\ CleanInv
      /\ host \in Hosts /\ pids \in Nat
    BY DEF SweepSafe, SweepTypeOK, DeviceTypeOK
<1>1. /\ host.at = "stopAfter" /\ tracing' = "none" /\ app' \in {app, NoApp}
      /\ UNCHANGED <<trials, status, result, pids, proximity, cancelled, disturbed>>
      /\ \/ host' = [host EXCEPT !.at = "terminate", !.raised = TRUE, !.severe = TRUE]
         \/ Len(trials) = Rates /\ Goes("terminate")
         \/ Goes("stop")
         \/ Raises
    BY DEF StopAfter, Reached, Goes
<1>2. /\ DeviceTypeOK' /\ DeviceInv' /\ pids <= pids' /\ pids' \in Nat /\ disturbed' \subseteq Nat
      /\ proximity' \in {"on", "off"} /\ tracing' \in {"none", "running", "ended", "failed"}
    BY <1>0, <1>1, DeviceStopped DEF SweepTypeOK
<1>3. CASE Raises
    BY <1>1, <1>2, <1>3, RaisesSafe
<1>4. CASE host' = [host EXCEPT !.at = "terminate", !.raised = TRUE, !.severe = TRUE]
    <2>1. /\ host' \in Hosts /\ host'.at = "terminate" /\ host'.raised = TRUE /\ host'.pid = host.pid
          /\ host'.proximity = host.proximity
        BY <1>0, <1>4, EndsHot
    <2>2. CountInv' /\ MeasureInv' /\ CleanInv'
        BY <1>1, <1>2, <2>1, RaisedSafe
    <2>3. SweepTypeOK'
        BY <1>0, <1>1, <1>2, <2>1 DEF SweepTypeOK
    <2>q. QED BY <1>2, <2>2, <2>3 DEF SweepSafe
<1>5. ASSUME NEW s \in {"terminate", "stop"}, Goes(s), s = "terminate" => Len(trials) = Rates
      PROVE  SweepSafe'
    <2>1. /\ host' \in Hosts /\ host'.at = s /\ Kept(host, host')
          /\ host'.raised = host.raised /\ host'.errors = host.errors
        BY <1>0, <1>5, GoesIs DEF Goes, HostSteps, Cleanup
    <2>2. SweepTypeOK'
        BY <1>0, <1>1, <1>2, <2>1 DEF SweepTypeOK
    <2>3. CountInv'
        BY <1>0, <1>1, <1>5, <2>1 DEF CountInv, TrialSteps, Cleanup, Kept
    <2>4. MeasureInv' /\ CleanInv'
        BY <1>0, <1>1, <2>1 DEF MeasureInv, CleanInv, Begun, TrialSteps, Cleanup, Kept
    <2>q. QED BY <1>2, <2>2, <2>3, <2>4 DEF SweepSafe
<1>6. CASE Len(trials) = Rates /\ Goes("terminate")
    BY <1>5, <1>6
<1>7. CASE Goes("stop")
    BY <1>5, <1>7
<1>q. QED BY <1>1, <1>3, <1>4, <1>6, <1>7

(***************************************************************************)
(* The cleanup                                                             *)
(***************************************************************************)
\* A part of the cleanup is tried: it is done, or an error is noted.
LEMMA TriesIs ==
    ASSUME host \in Hosts, NEW from \in HostSteps, NEW s \in HostSteps,
           \/ Reached(from) /\ Goes(s)
           \/ Reached(from) /\ host' = [host EXCEPT !.at = s, !.errors = TRUE]
    PROVE  /\ host.at = from /\ host' \in Hosts /\ host'.at = s /\ Kept(host, host')
           /\ host'.raised = host.raised /\ (~host'.errors => ~host.errors /\ Goes(s))
<1>1. CASE Goes(s)
    BY <1>1, GoesIs DEF Goes, Reached
<1>2. CASE host' = [host EXCEPT !.at = s, !.errors = TRUE]
    <2>1. host' \in Hosts /\ host'.at = s /\ Kept(host, host')
          /\ host'.raised = host.raised /\ host'.errors = TRUE
        BY <1>2, NotesIs
    <2>q. QED BY <2>1 DEF Reached
<1>q. QED BY <1>1, <1>2

\* Going on with the cleanup leaves the trials; the rest is what CleanInv says.
LEMMA CleansSafe ==
    ASSUME SweepSafe, NEW s \in Cleanup, host.at \in Cleanup, host' \in Hosts, host'.at = s,
           Kept(host, host'), host'.raised = host.raised,
           UNCHANGED <<trials, cancelled, disturbed, status, result, pids>>,
           DeviceTypeOK', DeviceInv', proximity' \in {"on", "off"},
           tracing' \in {"none", "running", "ended", "failed"}
    PROVE  SweepTypeOK' /\ CountInv' /\ MeasureInv'
<1>0. SweepTypeOK /\ CountInv /\ MeasureInv
    BY DEF SweepSafe
<1>1. SweepTypeOK'
    BY <1>0 DEF SweepTypeOK
<1>2. CountInv'
    BY <1>0 DEF CountInv, TrialSteps, Cleanup, Kept
<1>3. MeasureInv'
    BY <1>0 DEF MeasureInv, TrialSteps, Cleanup, Kept
<1>q. QED BY <1>1, <1>2, <1>3

\* The capture is ended, the app is stopped, the sensor and the settings restored.
LEMMA CleanupSafe ==
    ASSUME SweepSafe, TerminateCapture \/ StopLast \/ Enable \/ CheckSettings PROVE SweepSafe'
<1>0. /\ SweepTypeOK /\ DeviceTypeOK /\ DeviceInv /\ CountInv /\ MeasureInv /\ CleanInv
      /\ host \in Hosts /\ tracing \in {"none", "running", "ended", "failed"}
      /\ proximity \in {"on", "off"}
    BY DEF SweepSafe, SweepTypeOK
<1>s. {"terminate", "cleanStop", "enable", "settings", "relaunch"} \subseteq HostSteps \intersect Cleanup
    BY DEF HostSteps, Cleanup
<1>1. CASE TerminateCapture
    <2>1. UNCHANGED <<trials, deviceVars, proximity, cancelled, disturbed>>
        BY <1>1 DEF TerminateCapture
    <2>2. /\ host.at = "terminate" /\ host' \in Hosts /\ host'.at = "cleanStop" /\ Kept(host, host')
          /\ host'.raised = host.raised /\ (~host'.errors => ~host.errors /\ Goes("cleanStop"))
        BY <1>0, <1>1, <1>s, TriesIs DEF TerminateCapture, Tries
    <2>3. tracing' \in {"none", "running", "ended", "failed"}
        BY <1>0, <1>1 DEF TerminateCapture, Tries
    <2>4. ~host'.errors => tracing' # "running"
        <3>1. CASE host' = [host EXCEPT !.at = "cleanStop", !.errors = TRUE]
            BY <1>0, <1>s, <3>1, NotesIs
        <3>q. QED BY <1>1, <3>1 DEF TerminateCapture, Tries
    <2>5. DeviceTypeOK' /\ DeviceInv'
        BY <1>0, <2>1, DeviceSame
    <2>6. SweepTypeOK' /\ CountInv' /\ MeasureInv'
        BY <1>0, <1>s, <2>1, <2>2, <2>3, <2>5, CleansSafe DEF deviceVars
    <2>7. CleanInv'
        BY <1>0, <2>1, <2>2, <2>4 DEF CleanInv, Begun, Kept
    <2>q. QED BY <2>5, <2>6, <2>7 DEF SweepSafe
<1>2. CASE StopLast
    <2>1. UNCHANGED <<trials, status, result, pids, proximity, tracing, cancelled, disturbed>>
        BY <1>2 DEF StopLast
    <2>2. /\ host.at = "cleanStop" /\ host' \in Hosts /\ host'.at = "enable" /\ Kept(host, host')
          /\ host'.raised = host.raised /\ (~host'.errors => ~host.errors /\ Goes("enable"))
        BY <1>0, <1>2, <1>s, TriesIs DEF StopLast, Tries
    <2>3. app' \in {app, NoApp} /\ (~host'.errors => app' = NoApp)
        <3>1. CASE host' = [host EXCEPT !.at = "enable", !.errors = TRUE]
            <4>1. host'.errors = TRUE
                BY <1>0, <1>s, <3>1, NotesIs
            <4>q. QED BY <1>2, <4>1 DEF StopLast, Tries
        <3>q. QED BY <1>2, <3>1 DEF StopLast, Tries
    <2>4. DeviceTypeOK' /\ DeviceInv'
        BY <1>0, <2>1, <2>3, DeviceStopped
    <2>5. SweepTypeOK' /\ CountInv' /\ MeasureInv'
        BY <1>0, <1>s, <2>1, <2>2, <2>4, CleansSafe
    <2>6. CleanInv'
        BY <1>0, <1>s, <2>1, <2>2, <2>3 DEF CleanInv, Begun, Kept
    <2>q. QED BY <2>4, <2>5, <2>6 DEF SweepSafe
<1>3. CASE Enable
    <2>1. UNCHANGED <<trials, deviceVars, tracing, cancelled, disturbed>>
        BY <1>3 DEF Enable
    <2>2. /\ host.at = "enable" /\ host' \in Hosts /\ host'.at = "settings" /\ Kept(host, host')
          /\ host'.raised = host.raised /\ (~host'.errors => ~host.errors /\ Goes("settings"))
        BY <1>0, <1>3, <1>s, TriesIs DEF Enable, Tries
    <2>3. /\ proximity' \in {proximity, "on"}
          /\ host.proximity = "on" \/ proximity' = proximity
          /\ ~host'.errors /\ host.proximity = "on" => proximity' = "on"
        <3>1. CASE host' = [host EXCEPT !.at = "settings", !.errors = TRUE]
            <4>1. host'.errors = TRUE
                BY <1>0, <1>s, <3>1, NotesIs
            <4>q. QED BY <1>3, <4>1 DEF Enable, Tries
        <3>q. QED BY <1>3, <3>1 DEF Enable, Tries
    <2>4. host.proximity \in {"on", "off"}
        BY <1>0 DEF Hosts
    <2>5. DeviceTypeOK' /\ DeviceInv'
        BY <1>0, <2>1, DeviceSame
    <2>6. SweepTypeOK' /\ CountInv' /\ MeasureInv'
        BY <1>0, <1>s, <2>1, <2>2, <2>3, <2>5, CleansSafe DEF deviceVars
    <2>7. CleanInv'
        BY <1>0, <1>s, <2>1, <2>2, <2>3, <2>4 DEF CleanInv, Begun, Kept, deviceVars
    <2>q. QED BY <2>5, <2>6, <2>7 DEF SweepSafe
<1>4. CASE CheckSettings
    <2>1. UNCHANGED <<trials, deviceVars, proximity, tracing, cancelled, disturbed>>
        BY <1>4 DEF CheckSettings
    <2>2. /\ host.at = "settings" /\ host' \in Hosts /\ host'.at = "relaunch" /\ Kept(host, host')
          /\ host'.raised = host.raised /\ (~host'.errors => ~host.errors /\ Goes("relaunch"))
        BY <1>0, <1>4, <1>s, TriesIs DEF CheckSettings, Tries
    <2>3. DeviceTypeOK' /\ DeviceInv'
        BY <1>0, <2>1, DeviceSame
    <2>4. SweepTypeOK' /\ CountInv' /\ MeasureInv'
        BY <1>0, <1>s, <2>1, <2>2, <2>3, CleansSafe DEF deviceVars
    <2>5. CleanInv'
        BY <1>0, <1>s, <2>1, <2>2 DEF CleanInv, Begun, Kept, deviceVars
    <2>q. QED BY <2>3, <2>4, <2>5 DEF SweepSafe
<1>q. QED BY <1>1, <1>2, <1>3, <1>4

\* The app that was found running is started again, under the number the headset
\* gives it.
LEMMA RelaunchSafe ==
    ASSUME SweepSafe, Relaunch PROVE SweepSafe'
<1>0. /\ SweepTypeOK /\ DeviceTypeOK /\ DeviceInv /\ CountInv /\ MeasureInv /\ CleanInv
      /\ host \in Hosts /\ tracing \in {"none", "running", "ended", "failed"}
      /\ proximity \in {"on", "off"}
    BY DEF SweepSafe, SweepTypeOK
<1>s. {"relaunch", "ended"} \subseteq HostSteps \intersect Cleanup
    BY DEF HostSteps, Cleanup
<1>1. UNCHANGED <<trials, status, result, pids, proximity, tracing, cancelled, disturbed>>
    BY DEF Relaunch
<1>2. /\ host.at = "relaunch" /\ host' \in Hosts /\ host'.at = "ended" /\ Kept(host, host')
      /\ host'.raised = host.raised /\ (~host'.errors => ~host.errors /\ Goes("ended"))
    BY <1>0, <1>s, TriesIs DEF Relaunch, Tries
<1>3. /\ app' \in {app, Live(pids)}
      /\ ~host'.errors => app' = IF Relaunches THEN Live(pids) ELSE app
    <2>1. CASE host' = [host EXCEPT !.at = "ended", !.errors = TRUE]
        <3>1. host'.errors = TRUE
            BY <1>0, <1>s, <2>1, NotesIs
        <3>q. QED BY <3>1 DEF Relaunch, Tries
    <2>q. QED BY <2>1 DEF Relaunch, Tries
<1>4. Live(pids) \in Processes /\ Live(pids).run = 0 /\ Live(pids).pid = pids /\ Live(pids).phase = "live"
    BY <1>0 DEF Live, Processes, DeviceTypeOK
<1>5. DeviceTypeOK' /\ DeviceInv'
    <2>1. CASE app' = app
        BY <1>0, <1>1, <2>1, DeviceSame DEF deviceVars
    <2>2. CASE app' = Live(pids)
        <3>1. pids \in 0 .. pids
            BY <1>0 DEF DeviceTypeOK
        <3>q. QED BY <1>0, <1>1, <1>4, <2>2, <3>1 DEF DeviceTypeOK, DeviceInv, Done, Measures
    <2>q. QED BY <1>3, <2>1, <2>2
<1>6. SweepTypeOK' /\ CountInv' /\ MeasureInv'
    BY <1>0, <1>s, <1>1, <1>2, <1>5, CleansSafe
<1>7. Relaunches' <=> Relaunches
    BY <1>1, <1>2 DEF Relaunches, Kept
<1>8. NoApp.run = 0 /\ NoApp.phase = "none"
    BY DEF NoApp
<1>9. CleanInv'
    BY <1>0, <1>s, <1>1, <1>2, <1>3, <1>4, <1>7, <1>8 DEF CleanInv, Begun, Kept
<1>q. QED BY <1>5, <1>6, <1>9 DEF SweepSafe

(***************************************************************************)
(* The theorem                                                             *)
(***************************************************************************)
\* The sweep begins well, on a headset whose app may be running.
LEMMA SweepStarts ==
    ASSUME SweepInit PROVE SweepSafe
<1>1. /\ NoApp \in Processes /\ Live(1) \in Processes /\ NoResult \in Results
      /\ NoApp.run = 0 /\ NoApp.pid = 0 /\ NoApp.phase = "none"
      /\ Live(1).run = 0 /\ Live(1).pid = 1 /\ Live(1).phase = "live"
      /\ NoResult.pid = 0 /\ NoResult.phase = "none"
    BY DEF NoApp, Live, NoResult, Processes, Results, Measures
<1>2. /\ host \in Hosts /\ host.at = "discover" /\ host.run = 0 /\ host.pid = 0
      /\ host.severe = FALSE
    BY DEF SweepInit, Hosts, HostSteps
<1>3. SweepTypeOK /\ DeviceTypeOK
    <2>1. DeviceTypeOK
        BY <1>1 DEF SweepInit, DeviceTypeOK
    <2>2. trials \in Seq(Records) /\ FALSE \in BOOLEAN
        BY DEF SweepInit
    <2>q. QED BY <1>2, <2>1, <2>2 DEF SweepInit, SweepTypeOK
<1>4. DeviceInv
    BY <1>1 DEF SweepInit, DeviceInv, Done, Measures
<1>5. CountInv /\ MeasureInv /\ CleanInv
    BY <1>2 DEF SweepInit, CountInv, MeasureInv, CleanInv, Begun, TrialSteps, Cleanup
<1>q. QED BY <1>3, <1>4, <1>5 DEF SweepSafe

\* Every step keeps the invariant, the headset's as well as the host's.
LEMMA SweepSteps ==
    ASSUME SweepSafe, [SweepNext]_sweepVars PROVE SweepSafe'
<1>1. CASE UNCHANGED sweepVars
    <2>1. DeviceTypeOK' /\ DeviceInv'
        BY <1>1, DeviceSame DEF sweepVars, SweepSafe, SweepTypeOK
    <2>2. SweepTypeOK' /\ CountInv' /\ MeasureInv' /\ CleanInv'
        BY <1>1, <2>1 DEF sweepVars, deviceVars, SweepSafe, SweepTypeOK, CountInv, MeasureInv,
                          CleanInv, Lost, Done, Begun, Relaunches
    <2>q. QED BY <2>1, <2>2 DEF SweepSafe
<1>2. CASE AppGoesOn \/ AppDies \/ TraceEnds \/ Cancel
    BY <1>2, HeadsetSafe
<1>3. CASE Discover \/ Disable
    BY <1>3, BeginsSafe
<1>4. CASE StopFirst \/ Launch \/ FindPid
    BY <1>4, StartsSafe
<1>5. CASE Poll \/ StillWarming \/ Drain
    BY <1>5, WaitsSafe
<1>6. CASE HealthBefore \/ StartTrace
    BY <1>6, AsksBeforeSafe
<1>7. CASE ReadResult \/ HealthAfter
    BY <1>7, AsksAfterSafe
<1>8. CASE RecordTrial
    BY <1>8, RecordsSafe
<1>9. CASE StopAfter
    BY <1>9, StopAfterSafe
<1>10. CASE TerminateCapture \/ StopLast \/ Enable \/ CheckSettings
    BY <1>10, CleanupSafe
<1>11. CASE Relaunch
    BY <1>11, RelaunchSafe
<1>q. QED BY <1>1, <1>2, <1>3, <1>4, <1>5, <1>6, <1>7, <1>8, <1>9, <1>10, <1>11 DEF SweepNext

\* The invariant gives what the sweep promises.
LEMMA SweepSafeGives ==
    ASSUME SweepSafe PROVE SweepInv
<1>1. TrialsAreTheirOwn
    <2>1. DOMAIN trials = 1 .. Len(trials)
        BY DEF SweepSafe, SweepTypeOK
    <2>q. QED BY <2>1 DEF SweepSafe, CountInv, TrialsAreTheirOwn
<1>2. LeftAsFound
    <2>1. host.run \in Nat
        BY DEF SweepSafe, SweepTypeOK, Hosts
    <2>q. QED BY <2>1 DEF SweepSafe, CleanInv, Begun, LeftAsFound, Reached, Cleanup
<1>3. /\ host.severe => host.raised
      /\ Reached("ended") /\ ~host.raised => Len(trials) = Rates
    BY DEF SweepSafe, CountInv, Reached, Cleanup
<1>q. QED BY <1>1, <1>2, <1>3 DEF SweepInv

\* However often the app dies, whatever raises and wherever the sweep is cancelled: a
\* valid trial was measured by one process that was asked only before it measured, no run
\* is recorded twice, and a cleanup without errors leaves the headset as it was found
\* (Sweep.run and Sweep.trial of run_rate_sweep.py).
THEOREM SweepHolds == SweepInit /\ [][SweepNext]_sweepVars => []SweepInv
<1>q. QED BY SweepStarts, SweepSteps, SweepSafeGives, PTL

(***************************************************************************)
(* The scene: types and the inductive invariant                            *)
(***************************************************************************)
Fingers == 0 .. Open
Readers == {0} \union Refs
Labels == {Robot, Box} \union Ids
Poses == [of : Labels, at : {"home", "placed", "moved"}]
Models == [bodies : Seq(Labels), motion : Seq(Poses), target : Fingers,
           solved : {"never", "forward", "step", "stale"}]
Controllers == [target : Fingers, acquired : BOOLEAN, hold : BOOLEAN]
Scenes == [ref : Refs, controller : Refs, feedback : Readers, mode : Modes,
           physics : Physics, box : BOOLEAN, objects : Seq(Ids), used : SUBSET Ids,
           revision : Nat, generation : Nat, contacts : BOOLEAN, fresh : BOOLEAN]
Stages == {"model", "controller", "reset", "restore", "commit"}
Puts == [id : Ids \union {"nobody"}, at : {"home", "placed"}]
EditKinds == {"rebuild", "room", "object"}
EditsOf == [kind : EditKinds, stage : Stages, copy : Scenes, put : Puts]

ObjectsOK ==
    /\ scene \in Scenes /\ phase \in {"ready", "faulted"}
    /\ models \in [Refs -> Models] /\ controllers \in [Refs -> Controllers]
    /\ edit \in {Idle} \union EditsOf

\* Each body of a model carries its own motion.
Labelled(m) == Len(m.motion) = Len(m.bodies) /\ \A i \in 1 .. Len(m.bodies) : m.motion[i].of = m.bodies[i]

\* An id names one cube, and is used up.
Named(s) == IsInjective(s.objects) /\ Range(s.objects) \subseteq s.used

\* A session at rest: it uses one build's objects, and they are consistent.
SceneHolds ==
    /\ scene.controller = scene.ref /\ Named(scene)
    /\ models[scene.ref].bodies = BodiesOf(scene)
    /\ \A r \in Refs : Labelled(models[r]) /\ (controllers[r].acquired => controllers[r].hold)
    /\ ForcesAreOfTheLastStep /\ SetpointIsCommanded

\* The motion of the bodies b when each is put where it was in the model m, or where
\* the edit puts it, or at home.
Place(s, e) == SelectInSeq(s, LAMBDA v : v = e)
PutBack(m, b, put) ==
    [i \in 1 .. Len(b) |->
        IF put.id = b[i] THEN At(b[i], put.at)
        ELSE IF Contains(m.bodies, b[i]) THEN m.motion[Place(m.bodies, b[i])]
        ELSE At(b[i], "home")]

\* What an edit of the session s was asked to change in its copy c.
Spawned(s, c) ==
    Len(s.objects) < MaxObjects
    /\ \E id \in Ids \ s.used : c.objects = Append(s.objects, id) /\ c.used = s.used \union {id}
Removed(s, c) ==
    c.used = s.used
    /\ \E id \in Ids : Contains(s.objects, id) /\ c.objects = RemoveFirst(s.objects, id)
Asked(s, c, kind, put) ==
    /\ kind # "room" => c.revision = s.revision
    /\ kind # "object" => c.objects = s.objects /\ c.used = s.used /\ put = NoPut
    /\ kind = "rebuild" => c.physics # s.physics \/ c.box # s.box
    /\ kind # "rebuild" => c.physics = s.physics /\ c.box = s.box
    /\ kind = "room" => c.revision > s.revision
    /\ kind = "object" =>
         \/ put = NoPut /\ Spawned(s, c)
         \/ put = NoPut /\ Removed(s, c)
         \/ Contains(s.objects, put.id) /\ c.objects = s.objects /\ c.used = s.used

\* How far the copy c of s is: which objects are its own, and what they hold.
Other(s) == 3 - s.ref
Numbered(s, c, stage) ==
    c.generation = s.generation + (IF stage \in {"model", "controller"} THEN 0 ELSE 1)
HasBuilt(s, ms, cs, c, stage) ==
    /\ stage # "model" => c.ref = Other(s) /\ ms[Other(s)].bodies = BodiesOf(c)
    /\ stage \in {"reset", "restore", "commit"} =>
         c.controller = Other(s) /\ c.feedback \in {0, Other(s)} /\ (c.mode # "legacy" => c.feedback # 0)
    /\ stage \in {"restore", "commit"} =>
         /\ cs[Other(s)].target = ms[Other(s)].target /\ ms[Other(s)].solved = "forward"
         /\ c.fresh = FALSE

\* What the new model holds before the session becomes the copy.
Furnished(m, new, kind, put) ==
    IF kind = "rebuild" THEN new.motion = Home(new.bodies)
    ELSE new.motion = PutBack(m, new.bodies, put) /\ new.target = m.target

EditHolds ==
    edit # Idle =>
      /\ phase = "ready" /\ Named(edit.copy)
      /\ Asked(scene, edit.copy, edit.kind, edit.put)
      /\ Numbered(scene, edit.copy, edit.stage)
      /\ HasBuilt(scene, models, controllers, edit.copy, edit.stage)
      /\ edit.stage = "restore" => edit.kind # "rebuild"
      /\ edit.stage = "commit" =>
           Furnished(models[scene.ref], models[Other(scene)], edit.kind, edit.put)

SessionSafe == ObjectsOK /\ SceneHolds /\ EditHolds

\* An element of a sequence that holds it once is found where it is.
LEMMA FoundIs ==
    ASSUME NEW S, NEW s \in Seq(S), IsInjective(s), NEW k \in 1 .. Len(s)
    PROVE  Place(s, s[k]) = k
<1>1. {i \in 1 .. Len(s) : s[i] = s[k]} = {k}
    BY DEF IsInjective
<1>2. Min({k}) = k
    BY DEF Min
<1>q. QED BY <1>1, <1>2 DEF SelectInSeq, Place

\* Taking it out leaves the others in their order.
LEMMA RemovedIs ==
    ASSUME NEW S, NEW s \in Seq(S), IsInjective(s), NEW k \in 1 .. Len(s)
    PROVE  LET r == RemoveFirst(s, s[k]) IN
           /\ r \in Seq(S) /\ Len(r) = Len(s) - 1
           /\ \A i \in 1 .. Len(s) - 1 : r[i] = IF i < k THEN s[i] ELSE s[i + 1]
<1>1. RemoveFirst(s, s[k]) = RemoveAt(s, k)
    <2>1. Place(s, s[k]) = k
        BY FoundIs
    <2>2. \E i \in 1 .. Len(s) : s[i] = s[k]
        OBVIOUS
    <2>q. QED BY <2>1, <2>2 DEF RemoveFirst, Place
<1>2. /\ SubSeq(s, 1, k - 1) \in Seq(S) /\ Len(SubSeq(s, 1, k - 1)) = k - 1
      /\ SubSeq(s, k + 1, Len(s)) \in Seq(S) /\ Len(SubSeq(s, k + 1, Len(s))) = Len(s) - k
      /\ \A i \in 1 .. k - 1 : SubSeq(s, 1, k - 1)[i] = s[i]
      /\ \A i \in 1 .. Len(s) - k : SubSeq(s, k + 1, Len(s))[i] = s[k + i]
    OBVIOUS
<1>3. ASSUME NEW a \in Seq(S), NEW b \in Seq(S), Len(a) = k - 1, Len(b) = Len(s) - k,
             \A i \in 1 .. k - 1 : a[i] = s[i], \A i \in 1 .. Len(s) - k : b[i] = s[k + i]
      PROVE  /\ a \o b \in Seq(S) /\ Len(a \o b) = Len(s) - 1
             /\ \A i \in 1 .. Len(s) - 1 : (a \o b)[i] = IF i < k THEN s[i] ELSE s[i + 1]
    <2>1. Len(s) \in Nat /\ k \in 1 .. Len(s)
        OBVIOUS
    <2>2. a \o b \in Seq(S) /\ Len(a \o b) = Len(a) + Len(b)
        BY ConcatProperties
    <2>3. Len(a \o b) = Len(s) - 1
        BY <1>3, <2>1, <2>2
    <2>4. ASSUME NEW i \in 1 .. Len(s) - 1 PROVE (a \o b)[i] = IF i < k THEN s[i] ELSE s[i + 1]
        <3>1. CASE i < k
            BY <1>3, <2>1, <3>1
        <3>2. CASE ~(i < k)
            <4>1. (a \o b)[i] = b[i - Len(a)] /\ i - Len(a) \in 1 .. Len(s) - k
                BY <1>3, <2>1, <3>2
            <4>2. b[i - Len(a)] = s[k + (i - Len(a))] /\ k + (i - Len(a)) = i + 1
                BY <1>3, <2>1, <4>1
            <4>q. QED BY <3>2, <4>1, <4>2
        <3>q. QED BY <3>1, <3>2
    <2>q. QED BY <2>2, <2>3, <2>4
<1>4. RemoveFirst(s, s[k]) = SubSeq(s, 1, k - 1) \o SubSeq(s, k + 1, Len(s))
    BY <1>1 DEF RemoveAt
<1>5. /\ SubSeq(s, 1, k - 1) \o SubSeq(s, k + 1, Len(s)) \in Seq(S)
      /\ Len(SubSeq(s, 1, k - 1) \o SubSeq(s, k + 1, Len(s))) = Len(s) - 1
      /\ \A i \in 1 .. Len(s) - 1 :
           (SubSeq(s, 1, k - 1) \o SubSeq(s, k + 1, Len(s)))[i] = IF i < k THEN s[i] ELSE s[i + 1]
    BY <1>2, <1>3
<1>q. QED BY <1>4, <1>5

\* What is left when one is taken out, and what is there when another is appended.
LEMMA TakenOut ==
    ASSUME NEW S, NEW s \in Seq(S), IsInjective(s), NEW e, Contains(s, e)
    PROVE  LET r == RemoveFirst(s, e) IN
           r \in Seq(S) /\ IsInjective(r) /\ Range(r) = Range(s) \ {e} /\ e \in Range(s)
<1>1. PICK k \in 1 .. Len(s) : s[k] = e
    BY DEF Contains
<1> DEFINE r == RemoveFirst(s, e)
<1>2. /\ r \in Seq(S) /\ Len(r) = Len(s) - 1
      /\ \A i \in 1 .. Len(s) - 1 : r[i] = IF i < k THEN s[i] ELSE s[i + 1]
    BY <1>1, RemovedIs
<1> HIDE DEF r
<1>3. DOMAIN r = 1 .. Len(s) - 1 /\ DOMAIN s = 1 .. Len(s) /\ Len(s) \in Nat
    BY <1>2
<1>4. IsInjective(r)
    <2>1. SUFFICES ASSUME NEW i \in 1 .. Len(s) - 1, NEW j \in 1 .. Len(s) - 1, r[i] = r[j] PROVE i = j
        BY <1>3 DEF IsInjective
    <2>2. PICK m \in 1 .. Len(s) : r[i] = s[m] /\ m = IF i < k THEN i ELSE i + 1
        BY <1>2, <1>3
    <2>3. PICK n \in 1 .. Len(s) : r[j] = s[n] /\ n = IF j < k THEN j ELSE j + 1
        BY <1>2, <1>3
    <2>4. m = n
        BY <1>3, <2>1, <2>2, <2>3 DEF IsInjective
    <2>q. QED BY <2>2, <2>3, <2>4
<1>5. Range(r) \subseteq Range(s) \ {e}
    <2>1. SUFFICES ASSUME NEW i \in 1 .. Len(s) - 1 PROVE r[i] \in Range(s) /\ r[i] # e
        BY <1>3 DEF Range
    <2>2. PICK m \in 1 .. Len(s) : r[i] = s[m] /\ m # k
        BY <1>1, <1>2, <1>3
    <2>3. s[m] # s[k]
        BY <1>1, <1>3, <2>2 DEF IsInjective
    <2>q. QED BY <1>1, <1>3, <2>2, <2>3 DEF Range
<1>6. Range(s) \ {e} \subseteq Range(r)
    <2>1. SUFFICES ASSUME NEW m \in 1 .. Len(s), m # k PROVE s[m] \in Range(r)
        BY <1>1, <1>3 DEF Range
    <2>2. PICK i \in 1 .. Len(s) - 1 : m = IF i < k THEN i ELSE i + 1
        <3>1. CASE m < k
            BY <1>1, <1>3, <3>1
        <3>2. CASE m > k
            <4>1. m - 1 \in 1 .. Len(s) - 1 /\ ~(m - 1 < k)
                BY <1>1, <1>3, <3>2
            <4>2. m = IF m - 1 < k THEN m - 1 ELSE (m - 1) + 1
                BY <1>3, <4>1
            <4>q. QED BY <4>1, <4>2
        <3>q. QED BY <1>1, <2>1, <3>1, <3>2
    <2>3. r[i] = s[m]
        BY <1>2, <2>2
    <2>q. QED BY <1>3, <2>2, <2>3 DEF Range
<1>7. e \in Range(s)
    BY <1>1, <1>3 DEF Range
<1>q. QED BY <1>2, <1>4, <1>5, <1>6, <1>7 DEF r

\* What is there when another is appended.
LEMMA PutLast ==
    ASSUME NEW S, NEW s \in Seq(S), IsInjective(s), NEW e \in S, e \notin Range(s)
    PROVE  LET r == Append(s, e) IN
           r \in Seq(S) /\ IsInjective(r) /\ Range(r) = Range(s) \union {e}
<1> DEFINE r == Append(s, e)
<1>1. /\ r \in Seq(S) /\ Len(r) = Len(s) + 1 /\ r[Len(s) + 1] = e
      /\ \A i \in 1 .. Len(s) : r[i] = s[i]
    OBVIOUS
<1> HIDE DEF r
<1>2. DOMAIN r = 1 .. Len(s) + 1 /\ DOMAIN s = 1 .. Len(s) /\ Len(s) \in Nat
    BY <1>1
<1>3. \A i \in 1 .. Len(s) : r[i] = s[i] /\ s[i] # e
    BY <1>1, <1>2 DEF Range
<1>4. IsInjective(r)
    <2>1. SUFFICES ASSUME NEW i \in 1 .. Len(s) + 1, NEW j \in 1 .. Len(s) + 1, r[i] = r[j] PROVE i = j
        BY <1>2 DEF IsInjective
    <2>2. CASE i \in 1 .. Len(s) /\ j \in 1 .. Len(s)
        BY <1>2, <1>3, <2>1, <2>2 DEF IsInjective
    <2>3. CASE i = Len(s) + 1 \/ j = Len(s) + 1
        BY <1>1, <1>2, <1>3, <2>1, <2>3
    <2>q. QED BY <1>2, <2>2, <2>3
<1>5. Range(r) = Range(s) \union {e}
    <2>1. \A i \in 1 .. Len(s) + 1 : i \in 1 .. Len(s) \/ i = Len(s) + 1
        BY <1>2
    <2>2. 1 .. Len(s) \subseteq 1 .. Len(s) + 1 /\ Len(s) + 1 \in 1 .. Len(s) + 1
        BY <1>2
    <2>3. \A x : x \in Range(r) <=> x \in Range(s) \/ x = e
        BY <1>1, <1>2, <2>1, <2>2 DEF Range
    <2>q. QED BY <2>3
<1>q. QED BY <1>1, <1>4, <1>5 DEF r

\* The bodies of a session are named once each.
LEMMA BodiesAre ==
    ASSUME NEW s \in Scenes, IsInjective(s.objects)
    PROVE  LET r == BodiesOf(s) IN
           /\ r \in Seq(Labels) /\ IsInjective(r)
           /\ Range(r) = {Robot} \union (IF s.box THEN {Box} ELSE {}) \union Range(s.objects)
<1> DEFINE o == s.objects
<1>0. o \in Seq(Ids) /\ o \in Seq(Labels) /\ s.box \in BOOLEAN /\ {Robot, Box} \subseteq Labels
    <2>1. o \in Seq(Ids) /\ s.box \in BOOLEAN
        BY DEF Scenes
    <2>2. Ids \subseteq Labels /\ {Robot, Box} \subseteq Labels
        BY DEF Labels
    <2>q. QED BY <2>1, <2>2
<1>1. PICK p \in Seq(Labels) :
         /\ BodiesOf(s) = p \o o /\ Range(p) = {Robot} \union (IF s.box THEN {Box} ELSE {})
         /\ IsInjective(p)
    <2>1. BodiesOf(s) = (<<Robot>> \o (IF s.box THEN <<Box>> ELSE <<>>)) \o o
        BY DEF BodiesOf
    <2>2. CASE s.box
        <3>1. PICK q : q = <<Robot>> \o <<Box>>
            OBVIOUS
        <3>2. <<Robot>> \in Seq(Labels) /\ <<Box>> \in Seq(Labels)
            BY <1>0
        <3>3. /\ q \in Seq(Labels) /\ Len(q) = 2
              /\ \A i \in 1 .. 2 : q[i] = IF i <= 1 THEN Robot ELSE Box
            BY <3>1, <3>2, ConcatProperties
        <3>4. DOMAIN q = 1 .. 2 /\ q[1] = Robot /\ q[2] = Box
            BY <3>3
        <3>5. Range(q) = {Robot, Box}
            BY <3>4 DEF Range
        <3>6. IsInjective(q)
            BY <3>4, SessionAssumption DEF IsInjective
        <3>q. QED BY <2>1, <2>2, <3>1, <3>3, <3>5, <3>6
    <2>3. CASE ~s.box
        <3>1. <<Robot>> \o <<>> = <<Robot>> /\ <<Robot>> \in Seq(Labels)
            BY <1>0
        <3>2. Range(<<Robot>>) = {Robot} /\ IsInjective(<<Robot>>)
            BY DEF Range, IsInjective
        <3>q. QED BY <2>1, <2>3, <3>1, <3>2
    <2>q. QED BY <2>2, <2>3
<1>2. Range(o) \subseteq Ids
    BY <1>0 DEF Range
<1>3. Range(p) \intersect Range(o) = {}
    BY <1>1, <1>2, SessionAssumption
<1> HIDE DEF o
<1>4. /\ p \o o \in Seq(Labels) /\ Len(p \o o) = Len(p) + Len(o)
      /\ \A i \in 1 .. Len(p) + Len(o) : (p \o o)[i] = IF i <= Len(p) THEN p[i] ELSE o[i - Len(p)]
    BY <1>0, ConcatProperties
<1>5. /\ Len(p) \in Nat /\ Len(o) \in Nat /\ DOMAIN p = 1 .. Len(p) /\ DOMAIN o = 1 .. Len(o)
      /\ DOMAIN (p \o o) = 1 .. Len(p) + Len(o)
    BY <1>0, <1>4
<1>6. ASSUME NEW i \in 1 .. Len(p) + Len(o)
      PROVE  \/ i \in 1 .. Len(p) /\ (p \o o)[i] = p[i] /\ p[i] \in Range(p)
             \/ i - Len(p) \in 1 .. Len(o) /\ (p \o o)[i] = o[i - Len(p)]
                /\ o[i - Len(p)] \in Range(o)
    <2>1. CASE i <= Len(p)
        BY <1>4, <1>5, <2>1 DEF Range
    <2>2. CASE ~(i <= Len(p))
        <3>1. i - Len(p) \in 1 .. Len(o) /\ (p \o o)[i] = o[i - Len(p)]
            BY <1>4, <1>5, <2>2
        <3>q. QED BY <1>5, <3>1 DEF Range
    <2>q. QED BY <2>1, <2>2
<1>7. IsInjective(p \o o)
    <2>1. SUFFICES ASSUME NEW i \in 1 .. Len(p) + Len(o), NEW j \in 1 .. Len(p) + Len(o),
                          (p \o o)[i] = (p \o o)[j]
                   PROVE  i = j
        BY <1>5 DEF IsInjective
    <2>2. CASE i \in 1 .. Len(p) /\ j \in 1 .. Len(p) /\ p[i] = p[j]
        BY <1>1, <1>5, <2>2 DEF IsInjective
    <2>3. CASE i - Len(p) \in 1 .. Len(o) /\ j - Len(p) \in 1 .. Len(o)
               /\ o[i - Len(p)] = o[j - Len(p)]
        <3>1. i - Len(p) = j - Len(p)
            BY <1>5, <2>3 DEF IsInjective, o
        <3>q. QED BY <1>5, <3>1
    <2>q. QED BY <1>3, <1>6, <2>1, <2>2, <2>3
<1>8. Range(p \o o) = Range(p) \union Range(o)
    <2>1. Range(p \o o) \subseteq Range(p) \union Range(o)
        BY <1>5, <1>6 DEF Range
    <2>2. ASSUME NEW i \in 1 .. Len(p) PROVE p[i] \in Range(p \o o)
        <3>1. i \in 1 .. Len(p) + Len(o) /\ (p \o o)[i] = p[i]
            BY <1>4, <1>5
        <3>q. QED BY <1>5, <3>1 DEF Range
    <2>3. ASSUME NEW i \in 1 .. Len(o) PROVE o[i] \in Range(p \o o)
        <3>1. i + Len(p) \in 1 .. Len(p) + Len(o) /\ (p \o o)[i + Len(p)] = o[i]
            BY <1>4, <1>5
        <3>q. QED BY <1>5, <3>1 DEF Range
    <2>4. Range(p) \union Range(o) \subseteq Range(p \o o)
        BY <1>5, <2>2, <2>3 DEF Range
    <2>q. QED BY <2>1, <2>4
<1>q. QED BY <1>1, <1>4, <1>7, <1>8 DEF o

(***************************************************************************)
(* The scene: its records                                                  *)
(***************************************************************************)
SameScene(s, g) ==
    /\ g.objects = s.objects /\ g.used = s.used /\ g.box = s.box
    /\ g.physics = s.physics /\ g.revision = s.revision
SameParts(s, g) ==
    g.ref = s.ref /\ g.controller = s.controller /\ g.feedback = s.feedback
    /\ g.generation = s.generation

\* What a stage of the build, a reset, a pose, a step and a mode change of a session.
LEMMA BuiltModelIs ==
    ASSUME NEW s \in Scenes, NEW r \in Refs
    PROVE  LET g == [s EXCEPT !.ref = r] IN
           /\ g \in Scenes /\ SameScene(s, g) /\ g.ref = r /\ g.generation = s.generation
           /\ g.mode = s.mode
BY DEF Scenes, SameScene

\* The new controller, the reader and the generation of a copy.
LEMMA BuiltControllerIs ==
    ASSUME NEW s \in Scenes, NEW r \in Refs, NEW f \in Readers, NEW n \in Nat,
           NEW g, g = [s EXCEPT !.controller = r, !.generation = n, !.feedback = f]
    PROVE  /\ g \in Scenes /\ SameScene(s, g) /\ g.ref = s.ref /\ g.controller = r
           /\ g.generation = n /\ g.feedback = f /\ g.mode = s.mode
BY DEF Scenes, SameScene

\* The caches of a session.
LEMMA CachesAre ==
    ASSUME NEW s \in Scenes, NEW c \in BOOLEAN, NEW f \in BOOLEAN
    PROVE  LET g == [s EXCEPT !.contacts = c, !.fresh = f] IN
           /\ g \in Scenes /\ SameScene(s, g) /\ SameParts(s, g)
           /\ g.mode = s.mode /\ g.contacts = c /\ g.fresh = f
BY DEF Scenes, SameScene, SameParts

\* The mode of its gripper.
LEMMA GripperIs ==
    ASSUME NEW s \in Scenes, NEW m \in Modes, NEW f \in Readers, NEW b \in BOOLEAN
    PROVE  LET g == [s EXCEPT !.mode = m, !.feedback = f, !.fresh = b] IN
           /\ g \in Scenes /\ SameScene(s, g) /\ g.ref = s.ref /\ g.controller = s.controller
           /\ g.feedback = f /\ g.mode = m /\ g.contacts = s.contacts /\ g.fresh = b
           /\ g.generation = s.generation
BY DEF Scenes, SameScene

\* The copies that edits begin with: with the box or without it.
LEMMA BoxCopyIs ==
    ASSUME NEW s \in Scenes
    PROVE  LET g == [s EXCEPT !.box = ~@] IN
           /\ g \in Scenes /\ g.box # s.box /\ g.revision = s.revision
           /\ g.objects = s.objects /\ g.used = s.used /\ g.generation = s.generation
<1>1. s.box \in BOOLEAN /\ (~s.box) \in BOOLEAN /\ (~s.box) # s.box
    BY DEF Scenes
<1>2. PICK b \in BOOLEAN : b = ~s.box
    BY <1>1
<1>3. LET g == [s EXCEPT !.box = b] IN
      /\ g \in Scenes /\ g.box = b /\ g.revision = s.revision
      /\ g.objects = s.objects /\ g.used = s.used /\ g.generation = s.generation
    BY DEF Scenes
<1>4. [s EXCEPT !.box = ~@] = [s EXCEPT !.box = b]
    BY <1>2
<1>q. QED BY <1>1, <1>2, <1>3, <1>4

\* With another room.
LEMMA RoomCopyIs ==
    ASSUME NEW s \in Scenes, NEW n \in Nat
    PROVE  LET g == [s EXCEPT !.revision = n] IN
           /\ g \in Scenes /\ g.box = s.box /\ g.physics = s.physics /\ g.revision = n
           /\ g.objects = s.objects /\ g.used = s.used /\ g.generation = s.generation
BY DEF Scenes

\* With fewer cubes.
LEMMA FewerCopyIs ==
    ASSUME NEW s \in Scenes, NEW o \in Seq(Ids)
    PROVE  LET g == [s EXCEPT !.objects = o] IN
           /\ g \in Scenes /\ g.box = s.box /\ g.physics = s.physics /\ g.revision = s.revision
           /\ g.objects = o /\ g.used = s.used /\ g.generation = s.generation
BY DEF Scenes

\* An edit goes on.
LEMMA EditIs ==
    ASSUME NEW e \in EditsOf
    PROVE  e # Idle /\ e.kind \in EditKinds /\ e.stage \in Stages /\ e.copy \in Scenes /\ e.put \in Puts
BY DEF EditsOf, EditKinds, Idle

\* A model is given a motion, a target and dynamics derived anew.
WithMotion(ms, r, mo, ta) ==
    [ms EXCEPT ![r].motion = mo, ![r].target = ta, ![r].solved = "forward"]

\* Only that model changes.
LEMMA WithMotionIs ==
    ASSUME models \in [Refs -> Models], NEW r \in Refs, NEW mo \in Seq(Poses), NEW ta \in Fingers
    PROVE  LET g == WithMotion(models, r, mo, ta) IN
           /\ g \in [Refs -> Models] /\ g[r].bodies = models[r].bodies /\ g[r].motion = mo
           /\ g[r].target = ta /\ g[r].solved = "forward"
           /\ \A q \in Refs : q # r => g[q] = models[q]
<1>1. models[r] \in Models
    OBVIOUS
<1>2. LET m == [models[r] EXCEPT !.motion = mo, !.target = ta, !.solved = "forward"] IN
      /\ m \in Models /\ m.bodies = models[r].bodies /\ m.motion = mo
      /\ m.target = ta /\ m.solved = "forward"
    BY <1>1 DEF Models
<1>3. WithMotion(models, r, mo, ta)
      = [models EXCEPT ![r] = [models[r] EXCEPT !.motion = mo, !.target = ta, !.solved = "forward"]]
    BY DEF WithMotion
<1>q. QED BY <1>2, <1>3

\* The bodies of a model at home.
LEMMA HomeIs ==
    ASSUME NEW b \in Seq(Labels)
    PROVE  /\ Home(b) \in Seq(Poses) /\ Len(Home(b)) = Len(b)
           /\ \A i \in 1 .. Len(b) : Home(b)[i].of = b[i] /\ Home(b)[i].at = "home"
<1>1. \A i \in 1 .. Len(b) : At(b[i], "home") \in Poses
    BY DEF At, Poses
<1>2. Home(b) = [i \in 1 .. Len(b) |-> At(b[i], "home")]
    BY DEF Home
<1>3. Home(b) \in Seq(Poses) /\ Len(Home(b)) = Len(b)
    BY <1>1, <1>2
<1>q. QED BY <1>2, <1>3 DEF At

\* A model with nothing in it, and one that was just built.
LEMMA NoModelIs == NoModel \in Models /\ Labelled(NoModel)
BY SessionAssumption DEF NoModel, Models, Labelled, Fingers

\* A model that was just built.
LEMMA NewModelIs ==
    ASSUME NEW b \in Seq(Labels)
    PROVE  LET m == [bodies |-> b, motion |-> Home(b), target |-> Open, solved |-> "never"] IN
           m \in Models /\ Labelled(m) /\ m.bodies = b
<1>1. Open \in Fingers
    BY SessionAssumption DEF Fingers
<1>q. QED BY <1>1, HomeIs DEF Models, Labelled

\* A controller that was just made or seeded.
LEMMA SeededIs ==
    ASSUME NEW t \in Fingers
    PROVE  Seeded(t) \in Controllers /\ Seeded(t).target = t /\ Seeded(t).acquired = FALSE
BY DEF Seeded, Controllers

\* A controller that was just made.
LEMMA NewControllerIs ==
    NewController \in Controllers /\ NewController.acquired = FALSE
BY SessionAssumption DEF NewController, Controllers, Fingers

\* The two builds.
LEMMA TwoBuilds ==
    ASSUME scene \in Scenes
    PROVE  /\ scene.ref \in Refs /\ Fresh \in Refs /\ Fresh # scene.ref /\ Other(scene) = Fresh
           /\ \A r \in Refs : r = scene.ref \/ r = Fresh
<1>1. scene.ref \in {1, 2}
    BY DEF Scenes, Refs
<1>2. CASE scene.ref = 1
    BY <1>2 DEF Fresh, Refs, Other
<1>3. CASE scene.ref = 2
    BY <1>3 DEF Fresh, Refs, Other
<1>q. QED BY <1>1, <1>2, <1>3

(***************************************************************************)
(* The scene: an edit under construction                                   *)
(***************************************************************************)
\* The bodies of the session's model, each once.
LEMMA SceneBodies ==
    ASSUME ObjectsOK, SceneHolds
    PROVE  LET m == models[scene.ref] IN
           /\ m \in Models /\ Labelled(m) /\ m.bodies = BodiesOf(scene)
           /\ m.bodies \in Seq(Labels) /\ m.motion \in Seq(Poses) /\ Len(m.motion) = Len(m.bodies)
           /\ IsInjective(m.bodies) /\ m.target \in Fingers
           /\ Range(m.bodies) = {Robot} \union (IF scene.box THEN {Box} ELSE {})
                                \union Range(scene.objects)
<1>1. scene \in Scenes /\ models[scene.ref] \in Models
    BY TwoBuilds DEF ObjectsOK
<1>2. Labelled(models[scene.ref]) /\ models[scene.ref].bodies = BodiesOf(scene)
      /\ IsInjective(scene.objects)
    BY <1>1, TwoBuilds DEF SceneHolds, Named
<1>3. /\ models[scene.ref].bodies \in Seq(Labels) /\ models[scene.ref].motion \in Seq(Poses)
      /\ models[scene.ref].target \in Fingers
    BY <1>1 DEF Models
<1>4. /\ IsInjective(BodiesOf(scene))
      /\ Range(BodiesOf(scene)) = {Robot} \union (IF scene.box THEN {Box} ELSE {})
                                  \union Range(scene.objects)
    BY <1>1, <1>2, BodiesAre
<1>q. QED BY <1>1, <1>2, <1>3, <1>4 DEF Labelled

\* restore_object_state as an operator on the old model.
LEMMA RestoredPutsBack ==
    ASSUME NEW b \in Seq(Labels), NEW put
    PROVE  Restored(b, put) = PutBack(models[scene.ref], b, put)
<1>1. DOMAIN b = 1 .. Len(b)
    OBVIOUS
<1>q. QED BY <1>1 DEF Restored, PutBack, Place

\* Every body is put where it was, where the edit puts it, or at home.
LEMMA PutBackIs ==
    ASSUME NEW m \in Models, Labelled(m), IsInjective(m.bodies), NEW b \in Seq(Labels), NEW put \in Puts
    PROVE  LET r == PutBack(m, b, put) IN
           /\ r \in Seq(Poses) /\ Len(r) = Len(b) /\ \A i \in 1 .. Len(b) : r[i].of = b[i]
           /\ \A i \in 1 .. Len(b) :
                /\ put.id = b[i] => r[i].at = put.at
                /\ put.id # b[i] =>
                     /\ \A k \in 1 .. Len(m.bodies) : m.bodies[k] = b[i] => r[i].at = m.motion[k].at
                     /\ ~Contains(m.bodies, b[i]) => r[i].at = "home"
<1>1. /\ m.bodies \in Seq(Labels) /\ m.motion \in Seq(Poses) /\ Len(m.motion) = Len(m.bodies)
    BY DEF Models, Labelled
<1> DEFINE at(i) == IF put.id = b[i] THEN At(b[i], put.at)
                    ELSE IF Contains(m.bodies, b[i]) THEN m.motion[Place(m.bodies, b[i])]
                    ELSE At(b[i], "home")
<1>2. PutBack(m, b, put) = [i \in 1 .. Len(b) |-> at(i)]
    BY DEF PutBack
<1>3. ASSUME NEW i \in 1 .. Len(b), NEW k \in 1 .. Len(m.bodies), m.bodies[k] = b[i]
      PROVE  Contains(m.bodies, b[i]) /\ Place(m.bodies, b[i]) = k
             /\ m.motion[k].of = b[i] /\ m.motion[k] \in Poses
    <2>1. Place(m.bodies, m.bodies[k]) = k
        BY <1>1, FoundIs
    <2>2. m.motion[k].of = m.bodies[k] /\ m.motion[k] \in Poses
        BY <1>1 DEF Labelled
    <2>q. QED BY <1>3, <2>1, <2>2 DEF Contains
<1>4. ASSUME NEW i \in 1 .. Len(b)
      PROVE  /\ at(i) \in Poses /\ at(i).of = b[i]
             /\ put.id = b[i] => at(i).at = put.at
             /\ put.id # b[i] =>
                  /\ \A k \in 1 .. Len(m.bodies) : m.bodies[k] = b[i] => at(i).at = m.motion[k].at
                  /\ ~Contains(m.bodies, b[i]) => at(i).at = "home"
    <2>0. b[i] \in Labels /\ put.at \in {"home", "placed"}
        BY DEF Puts
    <2>1. CASE put.id = b[i]
        BY <2>0, <2>1 DEF At, Poses
    <2>2. CASE put.id # b[i] /\ ~Contains(m.bodies, b[i])
        <3>1. \A k \in 1 .. Len(m.bodies) : m.bodies[k] # b[i]
            BY <2>2 DEF Contains
        <3>q. QED BY <2>0, <2>2, <3>1 DEF At, Poses
    <2>3. CASE put.id # b[i] /\ Contains(m.bodies, b[i])
        <3>1. PICK k \in 1 .. Len(m.bodies) : m.bodies[k] = b[i]
            BY <2>3 DEF Contains
        <3>2. at(i) = m.motion[k] /\ at(i).of = b[i] /\ at(i) \in Poses
            BY <1>3, <2>3, <3>1
        <3>3. ASSUME NEW j \in 1 .. Len(m.bodies), m.bodies[j] = b[i] PROVE at(i).at = m.motion[j].at
            BY <1>3, <2>3, <3>3
        <3>q. QED BY <2>3, <3>2, <3>3
    <2>q. QED BY <2>1, <2>2, <2>3
<1> HIDE DEF at
<1>5. /\ PutBack(m, b, put) \in Seq(Poses) /\ Len(PutBack(m, b, put)) = Len(b)
      /\ \A i \in 1 .. Len(b) : PutBack(m, b, put)[i] = at(i)
    BY <1>2, <1>4
<1>q. QED BY <1>1, <1>4, <1>5

\* While the session's own objects are left alone it is at rest.
LEMMA SceneKept ==
    ASSUME ObjectsOK, SceneHolds, scene' = scene, models'[scene.ref] = models[scene.ref],
           controllers'[scene.ref] = controllers[scene.ref], Labelled(models'[Fresh]),
           controllers'[Fresh].acquired => controllers'[Fresh].hold
    PROVE  SceneHolds'
<1>1. scene \in Scenes /\ \A r \in Refs : r = scene.ref \/ r = Fresh
    BY TwoBuilds DEF ObjectsOK
<1>2. Labelled(models[scene.ref]) /\ (controllers[scene.ref].acquired => controllers[scene.ref].hold)
    BY <1>1, TwoBuilds DEF SceneHolds
<1>3. \A r \in Refs : Labelled(models'[r]) /\ (controllers'[r].acquired => controllers'[r].hold)
    BY <1>1, <1>2
<1>4. ForcesAreOfTheLastStep' /\ SetpointIsCommanded'
    BY DEF SceneHolds, ForcesAreOfTheLastStep, SetpointIsCommanded, Gripper, Held
<1>5. BodiesOf(scene)' = BodiesOf(scene)
    BY DEF BodiesOf
<1>6. (\A r \in Refs : Labelled(models[r]) /\ (controllers[r].acquired => controllers[r].hold))'
    BY <1>3 DEF Labelled
<1>q. QED BY <1>4, <1>5, <1>6 DEF SceneHolds, Named

\* What was asked stays what was asked, as the copy goes on.
LEMMA AskedKept ==
    ASSUME NEW s, NEW c, NEW g, NEW k, NEW p, SameScene(c, g), Asked(s, c, k, p), Named(c)
    PROVE  Asked(s, g, k, p) /\ Named(g) /\ BodiesOf(g) = BodiesOf(c)
<1>1. Named(g) /\ BodiesOf(g) = BodiesOf(c)
    BY DEF SameScene, Named, BodiesOf
<1>2. Asked(s, g, k, p)
    BY DEF Asked, SameScene, Spawned, Removed
<1>q. QED BY <1>1, <1>2

\* The edit goes on to its next stage.
LEMMA EditAdvances ==
    ASSUME edit \in EditsOf, NEW st, st \in Stages, NEW g \in Scenes,
           edit' = [edit EXCEPT !.stage = st, !.copy = g]
    PROVE  /\ edit' \in EditsOf /\ edit'.stage = st /\ edit'.copy = g
           /\ edit'.kind = edit.kind /\ edit'.put = edit.put
BY DEF EditsOf

\* A stage of an edit that leaves alone what the session refers to.
LEMMA EditGoesOn ==
    ASSUME SessionSafe, edit \in EditsOf, NEW st, st \in Stages, NEW g \in Scenes,
           edit' = [edit EXCEPT !.stage = st, !.copy = g],
           SameScene(edit.copy, g), UNCHANGED <<scene, phase>>,
           models' \in [Refs -> Models], controllers' \in [Refs -> Controllers],
           models'[scene.ref] = models[scene.ref], controllers'[scene.ref] = controllers[scene.ref],
           Labelled(models'[Fresh]), controllers'[Fresh].acquired => controllers'[Fresh].hold,
           Numbered(scene, g, st), HasBuilt(scene, models', controllers', g, st),
           st = "restore" => edit.kind # "rebuild",
           st = "commit" => Furnished(models[scene.ref], models'[Other(scene)], edit.kind, edit.put)
    PROVE  SessionSafe'
<1>0. ObjectsOK /\ SceneHolds /\ EditHolds
    BY DEF SessionSafe
<1>1. /\ phase = "ready" /\ Asked(scene, edit.copy, edit.kind, edit.put) /\ Named(edit.copy)
    BY <1>0, EditIs DEF EditHolds
<1>2. /\ edit' \in EditsOf /\ edit'.stage = st /\ edit'.copy = g
      /\ edit'.kind = edit.kind /\ edit'.put = edit.put
    BY EditAdvances
<1>3. ObjectsOK'
    BY <1>0, <1>2 DEF ObjectsOK
<1>4. SceneHolds'
    BY <1>0, SceneKept
<1>5. Asked(scene, g, edit.kind, edit.put) /\ Named(g)
    BY <1>1, AskedKept
<1>6. EditHolds'
    BY <1>1, <1>2, <1>5 DEF EditHolds
<1>q. QED BY <1>3, <1>4, <1>6 DEF SessionSafe

\* What an edit under construction has, to begin a stage with.
LEMMA EditHas ==
    ASSUME SessionSafe, edit # Idle
    PROVE  /\ ObjectsOK /\ SceneHolds /\ scene \in Scenes /\ edit \in EditsOf /\ phase = "ready"
           /\ models \in [Refs -> Models] /\ controllers \in [Refs -> Controllers]
           /\ edit.copy \in Scenes /\ Named(edit.copy) /\ edit.put \in Puts
           /\ Asked(scene, edit.copy, edit.kind, edit.put)
           /\ Numbered(scene, edit.copy, edit.stage)
           /\ HasBuilt(scene, models, controllers, edit.copy, edit.stage)
           /\ edit.stage = "restore" => edit.kind # "rebuild"
           /\ edit.stage = "commit" =>
                Furnished(models[scene.ref], models[Other(scene)], edit.kind, edit.put)
           /\ \A r \in Refs : Labelled(models[r]) /\ (controllers[r].acquired => controllers[r].hold)
<1>1. edit \in EditsOf
    BY DEF SessionSafe, ObjectsOK
<1>2. edit.copy \in Scenes /\ edit.put \in Puts
    BY <1>1, EditIs
<1>q. QED BY <1>1, <1>2 DEF SessionSafe, ObjectsOK, SceneHolds, EditHolds

\* The stages an edit goes through.
LEMMA StagesAre ==
    /\ "model" \in Stages /\ "controller" \in Stages /\ "reset" \in Stages
    /\ "restore" \in Stages /\ "commit" \in Stages
BY DEF Stages

\* A new model for the copy.
LEMMA BuildModelSafe ==
    ASSUME SessionSafe, BuildModel PROVE SessionSafe'
<1>0. edit # Idle /\ edit.stage = "model"
    BY DEF BuildModel
<1>r. /\ Fresh \in Refs /\ scene.ref \in Refs /\ Fresh # scene.ref /\ Other(scene) = Fresh
      /\ models \in [Refs -> Models] /\ controllers \in [Refs -> Controllers]
    BY <1>0, EditHas, TwoBuilds
<1>1. PICK c \in Scenes : c = edit.copy /\ Named(c)
    BY <1>0, EditHas
<1>2. PICK b \in Seq(Labels) : b = BodiesOf(c)
    BY <1>1, BodiesAre DEF Named
<1>3. PICK m \in Models : m = [bodies |-> b, motion |-> Home(b), target |-> Open, solved |-> "never"]
                          /\ Labelled(m) /\ m.bodies = b
    BY NewModelIs
<1>4. PICK g \in Scenes : /\ g = [c EXCEPT !.ref = Fresh] /\ SameScene(c, g) /\ g.ref = Fresh
                          /\ g.generation = c.generation /\ g.mode = c.mode
    BY <1>r, BuiltModelIs
<1>5. /\ models' = [models EXCEPT ![Fresh] = m]
      /\ edit' = [edit EXCEPT !.stage = "controller", !.copy = g]
      /\ UNCHANGED <<scene, controllers, phase>>
    BY <1>1, <1>2, <1>3, <1>4 DEF BuildModel, Advance
<1>6. models' \in [Refs -> Models] /\ models'[Fresh] = m /\ models'[scene.ref] = models[scene.ref]
    BY <1>r, <1>5
<1>7. BodiesOf(g) = b
    BY <1>2, <1>4 DEF SameScene, BodiesOf
<1>8. HasBuilt(scene, models', controllers', g, "controller")
    BY <1>r, <1>3, <1>4, <1>6, <1>7 DEF HasBuilt
<1>9. Numbered(scene, g, "controller")
    <2>1. Numbered(scene, c, "model")
        BY <1>0, <1>1, EditHas
    <2>q. QED BY <1>4, <2>1 DEF Numbered
<1>10. /\ edit \in EditsOf /\ SameScene(edit.copy, g) /\ Labelled(models'[Fresh])
       /\ controllers'[Fresh].acquired => controllers'[Fresh].hold
    BY <1>0, <1>r, <1>1, <1>3, <1>4, <1>5, <1>6, EditHas
<1>q. QED BY <1>r, <1>5, <1>6, <1>8, <1>9, <1>10, EditGoesOn, StagesAre

\* A new controller for the copy, and a reader of the new solver.
LEMMA BuildControllerSafe ==
    ASSUME SessionSafe, BuildController PROVE SessionSafe'
<1>0. edit # Idle /\ edit.stage = "controller"
    BY DEF BuildController
<1>r. /\ Fresh \in Refs /\ scene.ref \in Refs /\ Fresh # scene.ref /\ Other(scene) = Fresh
      /\ models \in [Refs -> Models] /\ controllers \in [Refs -> Controllers]
    BY <1>0, EditHas, TwoBuilds
<1>1. PICK c \in Scenes : c = edit.copy /\ Named(c)
    BY <1>0, EditHas
<1>2. c.ref = Fresh /\ models[Fresh].bodies = BodiesOf(c)
    <2>1. HasBuilt(scene, models, controllers, c, "controller")
        BY <1>0, <1>1, EditHas
    <2>q. QED BY <1>r, <2>1 DEF HasBuilt
<1>3. PICK f \in Readers : f = IF c.mode = "legacy" THEN 0 ELSE Fresh
    BY <1>r DEF Readers
<1>4. PICK g \in Scenes :
        /\ g = [c EXCEPT !.controller = Fresh, !.generation = @ + 1, !.feedback = f]
        /\ SameScene(c, g) /\ g.ref = Fresh /\ g.controller = Fresh
        /\ g.generation = c.generation + 1 /\ g.mode = c.mode /\ g.feedback = f
    <2>1. PICK n \in Nat : n = c.generation + 1
        BY DEF Scenes
    <2>2. PICK g : g = [c EXCEPT !.controller = Fresh, !.generation = n, !.feedback = f]
        OBVIOUS
    <2>4. /\ g \in Scenes /\ SameScene(c, g) /\ g.ref = c.ref /\ g.controller = Fresh
          /\ g.generation = n /\ g.feedback = f /\ g.mode = c.mode
        BY <1>r, <2>2 DEF Scenes, SameScene
    <2>3. [c EXCEPT !.controller = Fresh, !.generation = @ + 1, !.feedback = f]
          = [c EXCEPT !.controller = Fresh, !.generation = n, !.feedback = f]
        BY <2>1
    <2>q. QED BY <1>2, <2>1, <2>2, <2>3, <2>4
<1>5. /\ controllers' = [controllers EXCEPT ![Fresh] = NewController]
      /\ edit' = [edit EXCEPT !.stage = "reset", !.copy = g]
      /\ UNCHANGED <<scene, models, phase>>
    BY <1>1, <1>2, <1>3, <1>4 DEF BuildController, Advance
<1>6. /\ controllers' \in [Refs -> Controllers] /\ controllers'[Fresh] = NewController
      /\ controllers'[scene.ref] = controllers[scene.ref] /\ NewController.acquired = FALSE
    BY <1>r, <1>5, NewControllerIs
<1>7. BodiesOf(g) = BodiesOf(c)
    BY <1>4 DEF SameScene, BodiesOf
<1>8. HasBuilt(scene, models', controllers', g, "reset")
    <2>1. f \in {0, Fresh} /\ (c.mode # "legacy" => f # 0)
        BY <1>r, <1>3 DEF Refs
    <2>q. QED BY <1>r, <1>2, <1>4, <1>5, <1>7, <2>1 DEF HasBuilt
<1>9. Numbered(scene, g, "reset")
    <2>1. Numbered(scene, c, "controller") /\ scene.generation \in Nat
        BY <1>0, <1>1, EditHas DEF Scenes
    <2>q. QED BY <1>4, <2>1 DEF Numbered
<1>10. /\ edit \in EditsOf /\ SameScene(edit.copy, g) /\ Labelled(models'[Fresh])
       /\ controllers'[Fresh].acquired => controllers'[Fresh].hold
       /\ models' \in [Refs -> Models] /\ models'[scene.ref] = models[scene.ref]
    BY <1>0, <1>r, <1>1, <1>4, <1>5, <1>6, EditHas
<1>q. QED BY <1>5, <1>6, <1>8, <1>9, <1>10, EditGoesOn, StagesAre

\* The copy's objects hold a motion and a target, and its controller is seeded with it.
LEMMA FurnishedSafe ==
    ASSUME SessionSafe, edit # Idle, edit.stage \in {"reset", "restore"},
           NEW mo \in Seq(Poses), NEW ta \in Fingers, NEW st \in {"restore", "commit"}, NEW f,
           Len(mo) = Len(models[Fresh].bodies),
           \A i \in 1 .. Len(mo) : mo[i].of = models[Fresh].bodies[i],
           models' = [models EXCEPT ![Fresh].motion = mo, ![Fresh].target = ta,
                                    ![Fresh].solved = "forward"],
           controllers' = [controllers EXCEPT ![Fresh] = Seeded(ta)],
           edit' = [edit EXCEPT !.stage = st, !.copy = [edit.copy EXCEPT !.contacts = TRUE, !.fresh = FALSE]],
           UNCHANGED <<scene, phase>>,
           st = "restore" => edit.kind # "rebuild",
           st = "commit" => IF edit.kind = "rebuild" THEN mo = Home(models[Fresh].bodies)
                            ELSE mo = PutBack(models[scene.ref], models[Fresh].bodies, edit.put)
                                 /\ ta = Held
    PROVE  SessionSafe'
<1>r. /\ Fresh \in Refs /\ scene.ref \in Refs /\ Fresh # scene.ref /\ Other(scene) = Fresh
      /\ models \in [Refs -> Models] /\ controllers \in [Refs -> Controllers]
    BY EditHas, TwoBuilds
<1>1. PICK c \in Scenes : c = edit.copy /\ Named(c)
    BY EditHas
<1>2. PICK g \in Scenes : /\ g = [c EXCEPT !.contacts = TRUE, !.fresh = FALSE] /\ SameScene(c, g)
                          /\ SameParts(c, g) /\ g.mode = c.mode /\ g.fresh = FALSE
    BY CachesAre
<1>3. /\ models' \in [Refs -> Models] /\ models'[Fresh].bodies = models[Fresh].bodies
      /\ models'[Fresh].motion = mo /\ models'[Fresh].target = ta
      /\ models'[Fresh].solved = "forward" /\ models'[scene.ref] = models[scene.ref]
    <2>1. models' = WithMotion(models, Fresh, mo, ta)
        BY DEF WithMotion
    <2>2. PICK r \in Refs : r = Fresh
        BY <1>r
    <2>3. PICK n : n = WithMotion(models, r, mo, ta)
        OBVIOUS
    <2>4. /\ n \in [Refs -> Models] /\ n[r].bodies = models[r].bodies /\ n[r].motion = mo
          /\ n[r].target = ta /\ n[r].solved = "forward"
        BY <1>r, <2>3, WithMotionIs
    <2>5. \A q \in Refs : q # r => n[q] = models[q]
        BY <1>r, <2>3, WithMotionIs
    <2>q. QED BY <1>r, <2>1, <2>2, <2>3, <2>4, <2>5
<1>4. Seeded(ta) \in Controllers /\ Seeded(ta).target = ta /\ Seeded(ta).acquired = FALSE
    BY SeededIs
<1>5. /\ controllers' \in [Refs -> Controllers] /\ controllers'[Fresh] = Seeded(ta)
      /\ controllers'[scene.ref] = controllers[scene.ref]
    BY <1>r, <1>4
<1>6. Labelled(models'[Fresh])
    BY <1>3 DEF Labelled
<1>7. BodiesOf(g) = BodiesOf(c)
    BY <1>2 DEF SameScene, BodiesOf
<1>8. HasBuilt(scene, models', controllers', g, st)
    <2>1. HasBuilt(scene, models, controllers, c, edit.stage)
        BY <1>1, EditHas
    <2>2. /\ c.ref = Fresh /\ models[Fresh].bodies = BodiesOf(c) /\ c.controller = Fresh
          /\ c.feedback \in {0, Fresh} /\ (c.mode # "legacy" => c.feedback # 0)
        BY <1>r, <2>1 DEF HasBuilt
    <2>q. QED BY <1>r, <1>2, <1>3, <1>4, <1>5, <1>7, <2>2 DEF HasBuilt, SameParts
<1>9. Numbered(scene, g, st)
    <2>1. Numbered(scene, c, edit.stage)
        BY <1>1, EditHas
    <2>q. QED BY <1>2, <2>1 DEF Numbered, SameParts
<1>10. st = "commit" => Furnished(models[scene.ref], models'[Other(scene)], edit.kind, edit.put)
    BY <1>r, <1>3 DEF Furnished, Held
<1>11. /\ edit \in EditsOf /\ SameScene(edit.copy, g) /\ st \in Stages
       /\ edit' = [edit EXCEPT !.stage = st, !.copy = g]
       /\ controllers'[Fresh].acquired => controllers'[Fresh].hold
    BY <1>1, <1>2, <1>4, <1>5, EditHas, StagesAre
<1>q. QED BY <1>3, <1>5, <1>6, <1>8, <1>9, <1>10, <1>11, EditGoesOn

\* The reset of the copy: its bodies are at home.
LEMMA BuildResetSafe ==
    ASSUME SessionSafe, BuildReset PROVE SessionSafe'
<1>0. edit # Idle /\ edit.stage = "reset"
    BY DEF BuildReset
<1>r. Other(scene) = Fresh /\ Fresh \in Refs
    BY <1>0, EditHas, TwoBuilds
<1>1. edit.copy.ref = Fresh /\ edit.copy.controller = Fresh
    <2>1. HasBuilt(scene, models, controllers, edit.copy, "reset")
        BY <1>0, EditHas
    <2>q. QED BY <1>r, <2>1 DEF HasBuilt
<1>2. PICK b \in Seq(Labels) : b = models[Fresh].bodies
    BY <1>0, <1>r, EditHas DEF Models
<1>3. /\ Home(b) \in Seq(Poses) /\ Len(Home(b)) = Len(b) /\ Open \in Fingers
      /\ \A i \in 1 .. Len(Home(b)) : Home(b)[i].of = b[i]
    BY HomeIs, SessionAssumption DEF Fingers
<1>4. PICK st \in {"restore", "commit"} : st = IF edit.kind = "rebuild" THEN "commit" ELSE "restore"
    OBVIOUS
<1>5. /\ models' = [models EXCEPT ![Fresh].motion = Home(b), ![Fresh].target = Open,
                                  ![Fresh].solved = "forward"]
      /\ controllers' = [controllers EXCEPT ![Fresh] = Seeded(Open)]
      /\ edit' = [edit EXCEPT !.stage = st, !.copy = [edit.copy EXCEPT !.contacts = TRUE, !.fresh = FALSE]]
      /\ UNCHANGED <<scene, phase>>
    BY <1>1, <1>2, <1>4 DEF BuildReset, ResetObjects, Advance, WasReset
<1>q. QED BY <1>0, <1>2, <1>3, <1>4, <1>5, FurnishedSafe

\* The bodies and the fingers' target are as they were.
LEMMA RestoreSafe ==
    ASSUME SessionSafe, Restore PROVE SessionSafe'
<1>0. edit # Idle /\ edit.stage = "restore" /\ edit.kind # "rebuild"
    BY EditHas DEF Restore
<1>r. /\ Other(scene) = Fresh /\ Fresh \in Refs /\ scene.ref \in Refs /\ edit.put \in Puts
      /\ ObjectsOK /\ SceneHolds /\ models[Fresh] \in Models
    BY <1>0, EditHas, TwoBuilds
<1>1. edit.copy.controller = Fresh
    <2>1. HasBuilt(scene, models, controllers, edit.copy, "restore")
        BY <1>0, EditHas
    <2>q. QED BY <1>r, <2>1 DEF HasBuilt
<1>2. PICK b \in Seq(Labels) : b = models[Fresh].bodies
    BY <1>r DEF Models
<1>3. PICK mo \in Seq(Poses) :
        /\ mo = PutBack(models[scene.ref], b, edit.put) /\ Len(mo) = Len(b)
        /\ \A i \in 1 .. Len(mo) : mo[i].of = b[i]
    <2>1. models[scene.ref] \in Models /\ Labelled(models[scene.ref])
          /\ IsInjective(models[scene.ref].bodies)
        BY <1>r, SceneBodies
    <2>q. QED BY <1>r, <2>1, PutBackIs
<1>4. PICK ta \in Fingers : ta = models[scene.ref].target
    BY <1>r, SceneBodies
<1>5. Restored(b, edit.put) = mo
    BY <1>3, RestoredPutsBack
<1>6. /\ models' = [models EXCEPT ![Fresh].motion = mo, ![Fresh].target = ta,
                                  ![Fresh].solved = "forward"]
      /\ controllers' = [controllers EXCEPT ![Fresh] = Seeded(ta)]
      /\ edit' = [edit EXCEPT !.stage = "commit",
                              !.copy = [edit.copy EXCEPT !.contacts = TRUE, !.fresh = FALSE]]
      /\ UNCHANGED <<scene, phase>>
    BY <1>1, <1>2, <1>4, <1>5 DEF Restore, Advance
<1>q. QED BY <1>0, <1>2, <1>3, <1>4, <1>6, FurnishedSafe DEF Held

\* Who reads the model of a session that is done reads the new one.
LEMMA CommitSafe ==
    ASSUME SessionSafe, Commit PROVE SessionSafe'
<1>0. edit # Idle /\ edit.stage = "commit"
    BY DEF Commit
<1>r. /\ Fresh \in Refs /\ scene.ref \in Refs /\ Fresh # scene.ref /\ Other(scene) = Fresh
      /\ models \in [Refs -> Models] /\ controllers \in [Refs -> Controllers]
      /\ \A r \in Refs : r = scene.ref \/ r = Fresh
    BY <1>0, EditHas, TwoBuilds
<1>1. PICK c \in Scenes : c = edit.copy /\ Named(c) /\ HasBuilt(scene, models, controllers, c, "commit")
    BY <1>0, EditHas
<1>2. /\ c.ref = Fresh /\ models[Fresh].bodies = BodiesOf(c) /\ c.controller = Fresh
      /\ c.feedback \in {0, Fresh} /\ (c.mode # "legacy" => c.feedback # 0)
      /\ controllers[Fresh].target = models[Fresh].target /\ models[Fresh].solved = "forward"
      /\ c.fresh = FALSE
    BY <1>r, <1>1 DEF HasBuilt
<1>3. /\ scene' = c /\ edit' = Idle /\ phase' = phase
      /\ models' = [models EXCEPT ![scene.ref] = NoModel]
      /\ controllers' = [controllers EXCEPT ![scene.ref] = NewController]
    BY <1>1, EditHas DEF Commit, SceneHolds
<1>4. /\ models' \in [Refs -> Models] /\ controllers' \in [Refs -> Controllers]
      /\ models'[Fresh] = models[Fresh] /\ controllers'[Fresh] = controllers[Fresh]
      /\ models'[scene.ref] = NoModel /\ controllers'[scene.ref] = NewController
    BY <1>r, <1>3, NoModelIs, NewControllerIs
<1>5. ObjectsOK'
    <2>1. ObjectsOK
        BY DEF SessionSafe
    <2>q. QED BY <1>3, <1>4, <2>1 DEF ObjectsOK
<1>6. SceneHolds'
    <2>1. ASSUME NEW r \in Refs
          PROVE  Labelled(models'[r]) /\ (controllers'[r].acquired => controllers'[r].hold)
        <3>1. CASE r = scene.ref
            BY <1>4, <3>1, NoModelIs, NewControllerIs
        <3>2. CASE r = Fresh
            BY <1>0, <1>r, <1>4, <3>2, EditHas
        <3>q. QED BY <1>r, <3>1, <3>2
    <2>2. (\A r \in Refs : Labelled(models[r]) /\ (controllers[r].acquired => controllers[r].hold))'
        BY <2>1 DEF Labelled
    <2>3. BodiesOf(scene)' = BodiesOf(c)
        BY <1>3 DEF BodiesOf
    <2>4. ForcesAreOfTheLastStep' /\ SetpointIsCommanded'
        BY <1>2, <1>3, <1>4 DEF ForcesAreOfTheLastStep, SetpointIsCommanded, Gripper, Held
    <2>5. Named(scene)'
        BY <1>1, <1>3 DEF Named
    <2>q. QED BY <1>2, <1>3, <1>4, <2>2, <2>3, <2>4, <2>5 DEF SceneHolds
<1>7. EditHolds'
    BY <1>3 DEF EditHolds
<1>q. QED BY <1>5, <1>6, <1>7 DEF SessionSafe

\* An edit that fails drops what only the copy refers to.
LEMMA EditFailsSafe ==
    ASSUME SessionSafe, EditFails PROVE SessionSafe'
<1>0. edit # Idle
    BY DEF EditFails
<1>r. /\ Fresh \in Refs /\ scene.ref \in Refs /\ Fresh # scene.ref /\ Other(scene) = Fresh
      /\ models \in [Refs -> Models] /\ controllers \in [Refs -> Controllers]
      /\ ObjectsOK /\ SceneHolds
    BY <1>0, EditHas, TwoBuilds
<1>1. /\ models' = [models EXCEPT ![Fresh] = NoModel]
      /\ controllers' = [controllers EXCEPT ![Fresh] = NewController]
      /\ edit' = Idle /\ UNCHANGED <<scene, phase>>
    <2>1. 3 - scene.controller = Fresh
        BY <1>r DEF SceneHolds, Fresh
    <2>q. QED BY <2>1 DEF EditFails
<1>2. /\ models' \in [Refs -> Models] /\ controllers' \in [Refs -> Controllers]
      /\ models'[Fresh] = NoModel /\ controllers'[Fresh] = NewController
      /\ models'[scene.ref] = models[scene.ref] /\ controllers'[scene.ref] = controllers[scene.ref]
    BY <1>r, <1>1, NoModelIs, NewControllerIs
<1>3. SceneHolds'
    <2>1. Labelled(models'[Fresh]) /\ controllers'[Fresh].acquired = FALSE
        BY <1>2, NoModelIs, NewControllerIs
    <2>q. QED BY <1>r, <1>1, <1>2, <2>1, SceneKept
<1>4. ObjectsOK' /\ EditHolds'
    BY <1>r, <1>1, <1>2 DEF ObjectsOK, EditHolds
<1>q. QED BY <1>3, <1>4 DEF SessionSafe

\* An edit begins with a copy of the session that differs as it was asked.
LEMMA BeginSafe ==
    ASSUME SessionSafe, NEW k \in EditKinds, NEW c \in Scenes, NEW put \in Puts,
           BeginEdit(k, c, put), Named(c), Asked(scene, c, k, put),
           c.generation = scene.generation
    PROVE  SessionSafe'
<1>0. ObjectsOK /\ SceneHolds /\ scene \in Scenes
    BY DEF SessionSafe, ObjectsOK
<1>1. /\ phase = "ready" /\ edit' = [kind |-> k, stage |-> "model", copy |-> c, put |-> put]
      /\ UNCHANGED <<scene, models, controllers, phase>>
    BY DEF BeginEdit
<1>2. /\ edit' \in EditsOf /\ edit'.kind = k /\ edit'.stage = "model" /\ edit'.copy = c
      /\ edit'.put = put
    BY <1>1, StagesAre DEF EditsOf
<1>3. ObjectsOK'
    BY <1>0, <1>1, <1>2 DEF ObjectsOK
<1>4. SceneHolds'
    BY <1>0, <1>1, SceneKept, TwoBuilds DEF SceneHolds
<1>5. Numbered(scene, c, "model") /\ HasBuilt(scene, models, controllers, c, "model")
    BY <1>0 DEF Numbered, HasBuilt, Scenes
<1>6. EditHolds'
    BY <1>1, <1>2, <1>5 DEF EditHolds
<1>q. QED BY <1>3, <1>4, <1>6 DEF SessionSafe

\* Every edit asks for what it may.
LEMMA EditsSafe ==
    ASSUME SessionSafe,
           \/ \E physics \in Physics, mode \in Modes : ConfigurePhysics(physics, mode)
           \/ ToggleBox
           \/ \E revision \in 1 .. MaxRevision : SetEnvironment(revision)
           \/ \E id \in Ids : SpawnCube(id) \/ RemoveCube(id)
                              \/ \E where \in {"home", "placed"} : PutCube(id, where)
    PROVE  SessionSafe'
<1>0. ObjectsOK /\ SceneHolds /\ scene \in Scenes
    BY DEF SessionSafe, ObjectsOK
<1>1. PICK s \in Scenes : s = scene /\ Named(s)
    BY <1>0 DEF SceneHolds
<1>2. /\ s.objects \in Seq(Ids) /\ s.used \in SUBSET Ids /\ s.generation \in Nat
      /\ IsInjective(s.objects) /\ Range(s.objects) \subseteq s.used
    BY <1>1 DEF Scenes, Named
<1>3. /\ NoPut \in Puts /\ "rebuild" \in EditKinds /\ "room" \in EditKinds /\ "object" \in EditKinds
    BY DEF NoPut, Puts, EditKinds
<1>4. ASSUME NEW p \in Physics, NEW m \in Modes, ConfigurePhysics(p, m) PROVE SessionSafe'
    <2>1. PICK c : c = [s EXCEPT !.physics = p, !.mode = m]
        OBVIOUS
    <2>2. /\ c \in Scenes /\ c.physics = p /\ c.box = s.box /\ c.revision = s.revision
          /\ c.objects = s.objects /\ c.used = s.used /\ c.generation = s.generation
        BY <2>1 DEF Scenes
    <2>3. p # s.physics /\ BeginEdit("rebuild", c, NoPut)
        BY <1>1, <1>4, <2>1 DEF ConfigurePhysics
    <2>4. Named(c) /\ Asked(s, c, "rebuild", NoPut)
        BY <1>1, <2>2, <2>3 DEF Named, Asked
    <2>q. QED BY <1>1, <1>3, <2>2, <2>3, <2>4, BeginSafe
<1>5. ASSUME ToggleBox PROVE SessionSafe'
    <2>1. PICK c : c = [s EXCEPT !.box = ~@]
        OBVIOUS
    <2>2. /\ c \in Scenes /\ c.box # s.box /\ c.revision = s.revision
          /\ c.objects = s.objects /\ c.used = s.used /\ c.generation = s.generation
        BY <2>1, BoxCopyIs
    <2>3. BeginEdit("rebuild", c, NoPut)
        BY <1>1, <1>5, <2>1 DEF ToggleBox
    <2>4. Named(c) /\ Asked(s, c, "rebuild", NoPut)
        BY <1>1, <2>2 DEF Named, Asked
    <2>q. QED BY <1>1, <1>3, <2>2, <2>3, <2>4, BeginSafe
<1>6. ASSUME NEW n \in 1 .. MaxRevision, SetEnvironment(n) PROVE SessionSafe'
    <2>0. n \in Nat
        BY SessionAssumption
    <2>1. PICK c : c = [s EXCEPT !.revision = n]
        OBVIOUS
    <2>2. /\ c \in Scenes /\ c.box = s.box /\ c.physics = s.physics /\ c.revision = n
          /\ c.objects = s.objects /\ c.used = s.used /\ c.generation = s.generation
        BY <2>0, <2>1, RoomCopyIs
    <2>3. n > s.revision /\ BeginEdit("room", c, NoPut)
        BY <1>1, <1>6, <2>1 DEF SetEnvironment
    <2>4. Named(c) /\ Asked(s, c, "room", NoPut)
        BY <1>1, <2>2, <2>3 DEF Named, Asked
    <2>q. QED BY <1>1, <1>3, <2>2, <2>3, <2>4, BeginSafe
<1>7. ASSUME NEW id \in Ids, SpawnCube(id) PROVE SessionSafe'
    <2>1. PICK o : o = Append(s.objects, id)
        OBVIOUS
    <2>2. PICK u : u = s.used \union {id}
        OBVIOUS
    <2>3. id \notin s.used /\ Len(s.objects) < MaxObjects
        BY <1>1, <1>7 DEF SpawnCube
    <2>4. o \in Seq(Ids) /\ IsInjective(o) /\ Range(o) = Range(s.objects) \union {id}
        BY <1>2, <2>1, <2>3, PutLast
    <2>5. u \in SUBSET Ids
        BY <1>2, <2>2
    <2>6. PICK c : c = [s EXCEPT !.objects = o, !.used = u]
        OBVIOUS
    <2>7. /\ c \in Scenes /\ c.box = s.box /\ c.physics = s.physics /\ c.revision = s.revision
          /\ c.objects = o /\ c.used = u /\ c.generation = s.generation
        BY <2>4, <2>5, <2>6 DEF Scenes
    <2>8. BeginEdit("object", c, NoPut)
        BY <1>1, <1>7, <2>1, <2>2, <2>6 DEF SpawnCube
    <2>9. Named(c)
        BY <1>2, <2>2, <2>4, <2>7 DEF Named
    <2>10. Asked(s, c, "object", NoPut)
        BY <2>1, <2>2, <2>3, <2>7 DEF Asked, Spawned
    <2>q. QED BY <1>1, <1>3, <2>7, <2>8, <2>9, <2>10, BeginSafe
<1>8. ASSUME NEW id \in Ids, RemoveCube(id) PROVE SessionSafe'
    <2>1. PICK o : o = RemoveFirst(s.objects, id)
        OBVIOUS
    <2>2. Contains(s.objects, id)
        BY <1>1, <1>8 DEF RemoveCube
    <2>3. o \in Seq(Ids) /\ IsInjective(o) /\ Range(o) = Range(s.objects) \ {id}
        BY <1>2, <2>1, <2>2, TakenOut
    <2>4. PICK c : c = [s EXCEPT !.objects = o]
        OBVIOUS
    <2>5. /\ c \in Scenes /\ c.box = s.box /\ c.physics = s.physics /\ c.revision = s.revision
          /\ c.objects = o /\ c.used = s.used /\ c.generation = s.generation
        BY <2>3, <2>4, FewerCopyIs
    <2>6. BeginEdit("object", c, NoPut)
        BY <1>1, <1>8, <2>1, <2>4 DEF RemoveCube
    <2>7. Named(c)
        BY <1>2, <2>3, <2>5 DEF Named
    <2>8. Asked(s, c, "object", NoPut)
        BY <2>1, <2>2, <2>5 DEF Asked, Removed
    <2>q. QED BY <1>1, <1>3, <2>5, <2>6, <2>7, <2>8, BeginSafe
<1>9. ASSUME NEW id \in Ids, NEW where \in {"home", "placed"}, PutCube(id, where) PROVE SessionSafe'
    <2>1. PICK put \in Puts : put = [id |-> id, at |-> where] /\ put.id = id
        <3>1. [id |-> id, at |-> where] \in Puts
            BY DEF Puts
        <3>q. QED BY <3>1
    <2>2. Contains(s.objects, id) /\ BeginEdit("object", s, put)
        BY <1>1, <1>9, <2>1 DEF PutCube
    <2>3. Asked(s, s, "object", put)
        BY <2>1, <2>2 DEF Asked
    <2>q. QED BY <1>1, <1>3, <2>1, <2>2, <2>3, BeginSafe
<1>q. QED BY <1>4, <1>5, <1>6, <1>7, <1>8, <1>9

(***************************************************************************)
(* The scene: operations on the session itself                             *)
(***************************************************************************)
\* What an operation on a session at rest must leave.
LeavesAtRest(g) ==
    /\ Ready /\ edit' = edit /\ phase' \in {"ready", "faulted"}
    /\ scene' = g /\ SameScene(scene, g) /\ g.ref = scene.ref /\ g.controller = scene.controller
    /\ models' \in [Refs -> Models] /\ controllers' \in [Refs -> Controllers]
    /\ models'[scene.ref].bodies = models[scene.ref].bodies /\ Labelled(models'[scene.ref])
    /\ controllers'[scene.ref].acquired => controllers'[scene.ref].hold
    /\ models'[Fresh] = models[Fresh] /\ controllers'[Fresh] = controllers[Fresh]
    /\ ForcesAreOfTheLastStep' /\ SetpointIsCommanded'

\* The session is then consistent.
LEMMA RestSafe ==
    ASSUME SessionSafe, NEW g \in Scenes, LeavesAtRest(g)
    PROVE  SessionSafe'
<1>0. ObjectsOK /\ SceneHolds /\ scene \in Scenes /\ edit = Idle
    BY DEF SessionSafe, ObjectsOK, Ready, LeavesAtRest
<1>1. ObjectsOK' /\ EditHolds'
    BY <1>0 DEF ObjectsOK, EditHolds, LeavesAtRest
<1>2. \A r \in Refs : Labelled(models'[r]) /\ (controllers'[r].acquired => controllers'[r].hold)
    BY <1>0, TwoBuilds DEF SceneHolds, LeavesAtRest
<1>3. (\A r \in Refs : Labelled(models[r]) /\ (controllers[r].acquired => controllers[r].hold))'
    BY <1>2 DEF Labelled
<1>4. BodiesOf(scene)' = BodiesOf(scene)
    BY DEF BodiesOf, SameScene, LeavesAtRest
<1>5. Named(scene)'
    BY <1>0 DEF SceneHolds, Named, SameScene, LeavesAtRest
<1>6. SceneHolds'
    BY <1>0, <1>3, <1>4, <1>5 DEF SceneHolds, LeavesAtRest
<1>q. QED BY <1>1, <1>6 DEF SessionSafe

\* What a session at rest has, to begin an operation with.
LEMMA RestHas ==
    ASSUME SessionSafe
    PROVE  /\ scene \in Scenes /\ scene.ref \in Refs /\ Fresh \in Refs /\ Fresh # scene.ref
           /\ scene.controller = scene.ref /\ ForcesAreOfTheLastStep /\ SetpointIsCommanded
           /\ models \in [Refs -> Models] /\ controllers \in [Refs -> Controllers]
           /\ models[scene.ref] \in Models /\ Labelled(models[scene.ref]) /\ Held \in Fingers
           /\ controllers[scene.ref] \in Controllers /\ phase \in {"ready", "faulted"}
           /\ controllers[scene.ref].acquired => controllers[scene.ref].hold
<1>1. ObjectsOK /\ SceneHolds /\ scene \in Scenes
    BY DEF SessionSafe, ObjectsOK
<1>2. scene.ref \in Refs /\ Fresh \in Refs /\ Fresh # scene.ref
    BY <1>1, TwoBuilds
<1>3. /\ models \in [Refs -> Models] /\ controllers \in [Refs -> Controllers]
      /\ models[scene.ref] \in Models /\ controllers[scene.ref] \in Controllers
      /\ phase \in {"ready", "faulted"}
    BY <1>1, <1>2 DEF ObjectsOK
<1>4. Held \in Fingers
    BY <1>3 DEF Held, Models
<1>q. QED BY <1>1, <1>2, <1>3, <1>4 DEF SceneHolds

\* Opening, closing and following keep the fingers in their range.
LEMMA FingersAre ==
    ASSUME NEW t \in Fingers, NEW goal \in Fingers
    PROVE  /\ Opener(t) \in Fingers /\ Opener(t) >= t
           /\ Closer(t) \in Fingers /\ Towards(t, goal) \in Fingers /\ Open \in Fingers
BY SessionAssumption DEF Fingers, Opener, Closer, Towards

\* With force the fingers close only on a reading.
LEMMA RegulatedIs ==
    ASSUME NEW c \in Controllers, NEW force \in BOOLEAN, NEW goal \in Fingers,
           NEW allowed \in BOOLEAN, NEW load \in {"none", "below", "above", "unknown"}
    PROVE  LET r == Regulated(c, force, goal, allowed, load) IN
           /\ r \in Controllers /\ (r.acquired => r.hold)
           /\ force /\ r.target < c.target => load # "unknown"
<1>0. c.target \in Fingers /\ Opener(c.target) \in Fingers /\ Closer(c.target) \in Fingers
      /\ Towards(c.target, goal) \in Fingers /\ Opener(c.target) >= c.target /\ ~(c.target < c.target)
    BY FingersAre DEF Controllers, Fingers
<1>1. CASE ~allowed
    <2>1. Regulated(c, force, goal, allowed, load)
          = [target |-> c.target, acquired |-> FALSE, hold |-> force]
        BY <1>1 DEF Regulated
    <2>q. QED BY <1>0, <2>1 DEF Controllers
<1>2. CASE allowed /\ ~force
    <2>1. Regulated(c, force, goal, allowed, load)
          = [target |-> Towards(c.target, goal), acquired |-> FALSE, hold |-> FALSE]
        BY <1>2 DEF Regulated
    <2>2. PICK t \in Fingers : t = Towards(c.target, goal)
        BY <1>0
    <2>3. Regulated(c, force, goal, allowed, load) = [target |-> t, acquired |-> FALSE, hold |-> FALSE]
        BY <2>1, <2>2
    <2>4. [target |-> t, acquired |-> FALSE, hold |-> FALSE] \in Controllers
        BY DEF Controllers
    <2>5. [target |-> t, acquired |-> FALSE, hold |-> FALSE].acquired = FALSE
        OBVIOUS
    <2>q. QED BY <1>2, <2>3, <2>4, <2>5, Zenon
<1>3. CASE allowed /\ force /\ goal = Open
    <2>1. Regulated(c, force, goal, allowed, load)
          = [target |-> Opener(c.target), acquired |-> FALSE, hold |-> TRUE]
        BY <1>3 DEF Regulated
    <2>2. ~(Opener(c.target) < c.target)
        BY <1>0 DEF Fingers
    <2>q. QED BY <1>0, <2>1, <2>2 DEF Controllers
<1>4. CASE allowed /\ force /\ goal # Open /\ load = "unknown"
    <2>1. Regulated(c, force, goal, allowed, load)
          = [target |-> c.target, acquired |-> FALSE, hold |-> TRUE]
        BY <1>4 DEF Regulated
    <2>q. QED BY <1>0, <2>1 DEF Controllers
<1>5. CASE allowed /\ force /\ goal # Open /\ load # "unknown"
    <2>1. PICK a \in BOOLEAN : a = (load # "none" \/ (c.acquired /\ c.hold = force))
        OBVIOUS
    <2>2. PICK t \in Fingers : t = IF a /\ load = "above" THEN Opener(c.target) ELSE Closer(c.target)
        BY <1>0
    <2>3. Regulated(c, force, goal, allowed, load)
          = [target |-> IF (load # "none" \/ (c.acquired /\ c.hold = force)) /\ load = "above"
                        THEN Opener(c.target) ELSE Closer(c.target),
             acquired |-> load # "none" \/ (c.acquired /\ c.hold = force), hold |-> TRUE]
        BY <1>5, Zenon DEF Regulated
    <2>4. Regulated(c, force, goal, allowed, load) = [target |-> t, acquired |-> a, hold |-> TRUE]
        BY <2>1, <2>2, <2>3, Zenon
    <2>5. [target |-> t, acquired |-> a, hold |-> TRUE] \in Controllers
        BY DEF Controllers
    <2>6. [target |-> t, acquired |-> a, hold |-> TRUE].hold
        OBVIOUS
    <2>q. QED BY <1>5, <2>4, <2>5, <2>6, Zenon
<1>q. QED BY <1>1, <1>2, <1>3, <1>4, <1>5

\* What a step commands: a controller, and a target that is its setpoint.
LEMMA CommandedIs ==
    ASSUME SessionSafe, NEW goal \in Fingers, NEW allowed \in BOOLEAN,
           NEW load \in {"none", "below", "above", "unknown"}
    PROVE  LET d == Commanded(goal, allowed, load) IN
           /\ d.controller \in Controllers /\ d.target \in Fingers
           /\ d.controller.acquired => d.controller.hold
           /\ scene.mode # "legacy" => d.controller.target = d.target
           /\ scene.mode = "force" /\ d.target < Held => models[scene.ref].solved = "step"
<1>1. PICK c \in Controllers : /\ c = controllers[scene.controller] /\ (c.acquired => c.hold)
                               /\ scene.mode # "legacy" => c.target = Held
    BY RestHas DEF SetpointIsCommanded, Gripper
<1>2. Held \in Fingers /\ (scene.fresh => models[scene.ref].solved = "step")
    BY RestHas DEF ForcesAreOfTheLastStep
<1>3. CASE scene.mode = "legacy"
    <2>1. Commanded(goal, allowed, load)
          = [controller |-> c, target |-> IF allowed THEN goal ELSE Held]
        BY <1>1, <1>3 DEF Commanded, Held
    <2>q. QED BY <1>1, <1>2, <1>3, <2>1
<1>4. CASE scene.mode # "legacy"
    <2>1. PICK f \in BOOLEAN : f = (scene.mode = "force")
        OBVIOUS
    <2>2. PICK l \in {"none", "below", "above", "unknown"} :
             l = IF scene.mode = "force" /\ allowed /\ scene.fresh THEN load ELSE "unknown"
        OBVIOUS
    <2>3. PICK r \in Controllers :
             /\ r = Regulated(c, f, goal, allowed, l) /\ (r.acquired => r.hold)
             /\ f /\ r.target < c.target => l # "unknown"
        BY RegulatedIs
    <2>4. Commanded(goal, allowed, load) = [controller |-> r, target |-> r.target]
        BY <1>1, <1>4, <2>1, <2>2, <2>3 DEF Commanded
    <2>5. r.target \in Fingers
        BY DEF Controllers
    <2>6. scene.mode = "force" /\ r.target < Held => models[scene.ref].solved = "step"
        BY <1>1, <1>2, <1>4, <2>1, <2>2, <2>3
    <2>q. QED BY <2>3, <2>4, <2>5, <2>6
<1>q. QED BY <1>3, <1>4

\* The mode of the gripper changes.
LEMMA ConfigureGripperSafe ==
    ASSUME SessionSafe, NEW mode \in Modes, ConfigureGripper(mode) PROVE SessionSafe'
<1>0. /\ Ready /\ mode # scene.mode /\ UNCHANGED <<edit, models, phase>>
    BY DEF ConfigureGripper
<1>1. PICK f \in Readers : f = IF mode # "legacy" /\ scene.feedback = 0 THEN scene.ref ELSE scene.feedback
    BY RestHas DEF Scenes, Readers
<1>2. PICK b \in BOOLEAN : b = (scene.fresh /\ ~(scene.mode = "legacy" /\ mode # "legacy"))
    BY RestHas DEF Scenes
<1>3. scene' = [scene EXCEPT !.mode = mode, !.feedback = f, !.fresh = b]
    BY <1>1, <1>2 DEF ConfigureGripper
<1>4. PICK g \in Scenes :
        /\ g = scene' /\ SameScene(scene, g) /\ g.ref = scene.ref /\ g.controller = scene.controller
        /\ g.feedback = f /\ g.mode = mode /\ g.contacts = scene.contacts /\ g.fresh = b
    <2>1. PICK s \in Scenes : s = scene
        BY RestHas
    <2>2. PICK h : h = [s EXCEPT !.mode = mode, !.feedback = f, !.fresh = b]
        OBVIOUS
    <2>3. /\ h \in Scenes /\ h.objects = s.objects /\ h.used = s.used /\ h.box = s.box
          /\ h.physics = s.physics /\ h.revision = s.revision /\ h.ref = s.ref
          /\ h.controller = s.controller /\ h.feedback = f /\ h.mode = mode
          /\ h.contacts = s.contacts /\ h.fresh = b
        BY <2>2 DEF Scenes
    <2>q. QED BY <1>3, <2>1, <2>2, <2>3 DEF SameScene
<1>5. /\ controllers' \in [Refs -> Controllers] /\ controllers'[Fresh] = controllers[Fresh]
      /\ controllers'[scene.ref].acquired => controllers'[scene.ref].hold
      /\ mode # "legacy" => controllers'[scene.ref].target = Held
    <2>1. CASE scene.mode = "legacy" /\ mode # "legacy"
        <3>1. PICK c \in Controllers : c = Seeded(Held) /\ c.target = Held /\ c.acquired = FALSE
            BY RestHas, SeededIs
        <3>2. controllers' = [controllers EXCEPT ![scene.ref] = c]
            BY <2>1, <3>1, RestHas DEF ConfigureGripper, Held
        <3>q. QED BY <3>1, <3>2, RestHas
    <2>2. CASE ~(scene.mode = "legacy" /\ mode # "legacy")
        <3>1. controllers' = controllers
            BY <2>2 DEF ConfigureGripper
        <3>2. mode # "legacy" => controllers[scene.ref].target = Held
            BY <2>2, RestHas DEF SetpointIsCommanded, Gripper
        <3>q. QED BY <3>1, <3>2, RestHas
    <2>q. QED BY <2>1, <2>2
<1>6. ForcesAreOfTheLastStep'
    <2>1. f \in {0, scene.ref} /\ (mode # "legacy" => f # 0)
        BY <1>1, RestHas DEF ForcesAreOfTheLastStep, Refs
    <2>q. QED BY <1>0, <1>2, <1>4, <2>1, RestHas DEF ForcesAreOfTheLastStep
<1>7. SetpointIsCommanded'
    BY <1>0, <1>4, <1>5, RestHas DEF SetpointIsCommanded, Gripper, Held
<1>8. models' = models /\ LeavesAtRest(g)
    BY <1>0, <1>4, <1>5, <1>6, <1>7, RestHas DEF LeavesAtRest
<1>q. QED BY <1>8, RestSafe

\* The session is reset.
LEMMA ResetSafe ==
    ASSUME SessionSafe, Reset PROVE SessionSafe'
<1>0. Ready /\ UNCHANGED <<edit, phase>>
    BY DEF Reset
<1>1. PICK r \in Refs : r = scene.ref
    BY RestHas
<1>2. PICK b \in Seq(Labels) : b = models[r].bodies
    BY <1>1, RestHas DEF Models
<1>3. /\ Home(b) \in Seq(Poses) /\ Len(Home(b)) = Len(b) /\ Open \in Fingers
      /\ \A i \in 1 .. Len(b) : Home(b)[i].of = b[i]
    BY HomeIs, SessionAssumption DEF Fingers
<1>4. models' = WithMotion(models, r, Home(b), Open)
    BY <1>1, <1>2 DEF Reset, ResetObjects, WithMotion
<1>5. PICK m : m = WithMotion(models, r, Home(b), Open)
    OBVIOUS
<1>6. /\ m \in [Refs -> Models] /\ m[r].bodies = b /\ m[r].motion = Home(b)
      /\ m[r].target = Open /\ m[r].solved = "forward"
    BY <1>2, <1>3, <1>5, RestHas, WithMotionIs
<1>7. \A q \in Refs : q # r => m[q] = models[q]
    BY <1>3, <1>5, RestHas, WithMotionIs
<1>8. PICK c \in Controllers : c = Seeded(Open) /\ c.target = Open /\ c.acquired = FALSE
    BY <1>3, SeededIs
<1>9. controllers' = [controllers EXCEPT ![r] = c]
    BY <1>1, <1>8, RestHas DEF Reset, ResetObjects
<1>10. PICK g \in Scenes :
         /\ g = scene' /\ SameScene(scene, g) /\ g.ref = scene.ref /\ g.controller = scene.controller
         /\ g.feedback = scene.feedback /\ g.mode = scene.mode /\ g.fresh = FALSE
    <2>1. scene' = [scene EXCEPT !.contacts = TRUE, !.fresh = FALSE]
        BY DEF Reset, WasReset
    <2>q. QED BY <2>1, RestHas, CachesAre DEF SameParts
<1>11. /\ models' \in [Refs -> Models] /\ models'[r] = m[r] /\ models'[Fresh] = models[Fresh]
       /\ controllers' \in [Refs -> Controllers] /\ controllers'[r] = c
       /\ controllers'[Fresh] = controllers[Fresh]
    BY <1>1, <1>4, <1>5, <1>6, <1>7, <1>8, <1>9, RestHas
<1>12. Labelled(models'[r]) /\ models'[r].bodies = models[r].bodies
    BY <1>2, <1>3, <1>6, <1>11 DEF Labelled
<1>13. ForcesAreOfTheLastStep' /\ SetpointIsCommanded'
    BY <1>1, <1>6, <1>8, <1>10, <1>11, RestHas
       DEF ForcesAreOfTheLastStep, SetpointIsCommanded, Gripper, Held
<1>14. LeavesAtRest(g)
    BY <1>0, <1>1, <1>8, <1>10, <1>11, <1>12, <1>13, RestHas DEF LeavesAtRest
<1>q. QED BY <1>14, RestSafe

\* The base is moved: nothing that was computed for the old pose is used.
LEMMA SetBasePoseSafe ==
    ASSUME SessionSafe, SetBasePose PROVE SessionSafe'
<1>0. Ready /\ UNCHANGED <<edit, phase>>
    BY DEF SetBasePose
<1>1. PICK r \in Refs : r = scene.ref
    BY RestHas
<1>2. PICK m \in Models : /\ m = [models[r] EXCEPT !.solved = "stale"] /\ m.bodies = models[r].bodies
                          /\ m.motion = models[r].motion /\ m.target = models[r].target
    <2>1. PICK o \in Models : o = models[r]
        BY <1>1, RestHas
    <2>2. LET n == [o EXCEPT !.solved = "stale"] IN
          n \in Models /\ n.bodies = o.bodies /\ n.motion = o.motion /\ n.target = o.target
        BY DEF Models
    <2>q. QED BY <2>1, <2>2
<1>3. models' = [models EXCEPT ![r] = m]
    BY <1>1, <1>2, RestHas DEF SetBasePose
<1>4. PICK c \in Controllers : c = Invalidated(controllers[r]) /\ c.acquired = FALSE
                               /\ c.target = controllers[r].target
    <2>1. PICK d \in Controllers : d = controllers[r]
        BY <1>1, RestHas
    <2>2. LET e == [d EXCEPT !.acquired = FALSE] IN
          e \in Controllers /\ e.acquired = FALSE /\ e.target = d.target
        BY DEF Controllers
    <2>q. QED BY <2>1, <2>2 DEF Invalidated
<1>5. controllers' = [controllers EXCEPT ![r] = c]
    BY <1>1, <1>4, RestHas DEF SetBasePose
<1>6. PICK g \in Scenes :
         /\ g = scene' /\ SameScene(scene, g) /\ g.ref = scene.ref /\ g.controller = scene.controller
         /\ g.feedback = scene.feedback /\ g.mode = scene.mode /\ g.fresh = FALSE /\ g.contacts = FALSE
    <2>1. scene' = [scene EXCEPT !.contacts = FALSE, !.fresh = FALSE]
        BY DEF SetBasePose
    <2>q. QED BY <2>1, RestHas, CachesAre DEF SameParts
<1>7. /\ models' \in [Refs -> Models] /\ models'[r] = m /\ models'[Fresh] = models[Fresh]
      /\ controllers' \in [Refs -> Controllers] /\ controllers'[r] = c
      /\ controllers'[Fresh] = controllers[Fresh]
    BY <1>1, <1>3, <1>5, RestHas
<1>8. Labelled(models'[r]) /\ models'[r].bodies = models[r].bodies
    BY <1>1, <1>2, <1>7, RestHas DEF Labelled
<1>9. ForcesAreOfTheLastStep' /\ SetpointIsCommanded'
    BY <1>1, <1>2, <1>4, <1>6, <1>7, RestHas
       DEF ForcesAreOfTheLastStep, SetpointIsCommanded, Gripper, Held
<1>10. LeavesAtRest(g)
    BY <1>0, <1>1, <1>4, <1>6, <1>7, <1>8, <1>9, RestHas DEF LeavesAtRest
<1>q. QED BY <1>10, RestSafe

\* A step: forces and contacts are of it, or of nothing.
LEMMA StepSafe ==
    ASSUME SessionSafe, NEW goal \in 0 .. Open, NEW allowed \in BOOLEAN, NEW finite \in BOOLEAN,
           NEW load \in {"none", "below", "above", "unknown"}, Step(goal, allowed, load, finite)
    PROVE  /\ SessionSafe' /\ models'[scene.ref].target = Commanded(goal, allowed, load).target
           /\ models'[scene.ref].bodies = models[scene.ref].bodies
           /\ \A i \in 1 .. Len(models[scene.ref].bodies) : models'[scene.ref].motion[i].at = "moved"
<1>0. Ready /\ UNCHANGED edit /\ phase' \in {"ready", "faulted"} /\ goal \in Fingers
    BY RestHas DEF Step, Fingers
<1>1. PICK r \in Refs : r = scene.ref
    BY RestHas
<1>2. PICK c \in Controllers, t \in Fingers :
        /\ c = Commanded(goal, allowed, load).controller /\ t = Commanded(goal, allowed, load).target
        /\ c.acquired => c.hold
        /\ scene.mode # "legacy" => c.target = t
    <2>1. PICK d : d = Commanded(goal, allowed, load)
        OBVIOUS
    <2>2. /\ d.controller \in Controllers /\ d.target \in Fingers
          /\ d.controller.acquired => d.controller.hold
          /\ scene.mode # "legacy" => d.controller.target = d.target
        BY <1>0, <2>1, CommandedIs
    <2>q. QED BY <2>1, <2>2
<1>3. PICK o \in Models : o = models[r] /\ Labelled(o)
    BY <1>1, RestHas
<1>4. PICK mo \in Seq(Poses) :
        /\ mo = [i \in DOMAIN o.motion |-> At(o.motion[i].of, "moved")] /\ Len(mo) = Len(o.motion)
        /\ \A i \in 1 .. Len(o.motion) : mo[i].of = o.motion[i].of /\ mo[i].at = "moved"
    <2>1. o.motion \in Seq(Poses) /\ DOMAIN o.motion = 1 .. Len(o.motion)
        BY DEF Models
    <2>2. ASSUME NEW p \in Poses
          PROVE  At(p.of, "moved") \in Poses /\ At(p.of, "moved").of = p.of /\ At(p.of, "moved").at = "moved"
        BY DEF At, Poses
    <2>3. PICK h : h = [i \in 1 .. Len(o.motion) |-> At(o.motion[i].of, "moved")]
        OBVIOUS
    <2>4. \A i \in 1 .. Len(o.motion) :
            h[i] \in Poses /\ h[i].of = o.motion[i].of /\ h[i].at = "moved"
        BY <2>1, <2>2, <2>3
    <2>5. h \in Seq(Poses) /\ Len(h) = Len(o.motion)
        <3>1. PICK n \in Nat : n = Len(o.motion)
            BY <2>1
        <3>2. h \in [1 .. n -> Poses]
            BY <2>3, <2>4, <3>1
        <3>q. QED BY <3>1, <3>2
    <2>q. QED BY <2>1, <2>3, <2>4, <2>5
<1>5. PICK so \in {"step", "stale"} : so = IF finite THEN "step" ELSE "stale"
    OBVIOUS
<1>6. PICK m \in Models :
        /\ m = [o EXCEPT !.target = t, !.solved = so, !.motion = mo]
        /\ m.bodies = o.bodies /\ m.target = t /\ m.solved = so /\ m.motion = mo
    <2>1. LET m == [o EXCEPT !.target = t, !.solved = so, !.motion = mo] IN
          /\ m \in Models /\ m.bodies = o.bodies /\ m.target = t /\ m.solved = so /\ m.motion = mo
        BY DEF Models
    <2>q. QED BY <2>1
<1>7. models' = [models EXCEPT ![r] = m] /\ controllers' = [controllers EXCEPT ![r] = c]
    <2>1. controllers' = [controllers EXCEPT ![r] = c]
        BY <1>1, <1>2, RestHas DEF Step
    <2>2. models' = [models EXCEPT ![r] =
             Solved(models[r], Commanded(goal, allowed, load).target, IF finite THEN "step" ELSE "stale")]
        BY <1>1 DEF Step
    <2>3. Solved(o, t, so) = m
        BY <1>4, <1>6 DEF Solved
    <2>q. QED BY <1>2, <1>3, <1>5, <2>1, <2>2, <2>3
<1>8. PICK g \in Scenes :
         /\ g = scene' /\ SameScene(scene, g) /\ g.ref = scene.ref /\ g.controller = scene.controller
         /\ g.feedback = scene.feedback /\ g.mode = scene.mode /\ g.fresh = finite
         /\ g.contacts = finite
    <2>1. scene' = [scene EXCEPT !.contacts = finite, !.fresh = finite]
        BY DEF Step
    <2>2. PICK s \in Scenes : s = scene
        BY RestHas
    <2>3. PICK h : h = [s EXCEPT !.contacts = finite, !.fresh = finite]
        OBVIOUS
    <2>4. /\ h \in Scenes /\ SameScene(s, h) /\ h.ref = s.ref /\ h.controller = s.controller
          /\ h.feedback = s.feedback /\ h.mode = s.mode /\ h.fresh = finite /\ h.contacts = finite
        BY <2>3 DEF Scenes, SameScene
    <2>q. QED BY <2>1, <2>2, <2>3, <2>4
<1>9. /\ models' \in [Refs -> Models] /\ models'[r] = m /\ models'[Fresh] = models[Fresh]
      /\ controllers' \in [Refs -> Controllers] /\ controllers'[r] = c
      /\ controllers'[Fresh] = controllers[Fresh]
    BY <1>1, <1>7, RestHas
<1>10. Labelled(m) /\ m.bodies = models[r].bodies
    <2>1. Len(o.motion) = Len(o.bodies) /\ \A i \in 1 .. Len(o.bodies) : o.motion[i].of = o.bodies[i]
        BY <1>3 DEF Labelled
    <2>2. Len(mo) = Len(o.bodies) /\ \A i \in 1 .. Len(o.bodies) : mo[i].of = o.bodies[i]
        BY <1>4, <2>1
    <2>3. m.motion = mo /\ m.bodies = o.bodies
        BY <1>6
    <2>q. QED BY <1>3, <2>2, <2>3 DEF Labelled
<1>11. ForcesAreOfTheLastStep' /\ SetpointIsCommanded'
    BY <1>1, <1>2, <1>5, <1>6, <1>8, <1>9, RestHas
       DEF ForcesAreOfTheLastStep, SetpointIsCommanded, Gripper, Held
<1>12. SessionSafe'
    <2>1. /\ Labelled(models'[scene.ref]) /\ models'[scene.ref].bodies = models[scene.ref].bodies
          /\ controllers'[scene.ref].acquired => controllers'[scene.ref].hold
        BY <1>1, <1>2, <1>9, <1>10
    <2>2. /\ g \in Scenes /\ scene' = g /\ SameScene(scene, g)
          /\ g.ref = scene.ref /\ g.controller = scene.controller
        BY <1>8
    <2>3. /\ models' \in [Refs -> Models] /\ controllers' \in [Refs -> Controllers]
          /\ models'[Fresh] = models[Fresh] /\ controllers'[Fresh] = controllers[Fresh]
        BY <1>9
    <2>4. LeavesAtRest(g)
        BY <1>0, <1>11, <2>1, <2>2, <2>3 DEF LeavesAtRest
    <2>q. QED BY <2>4, RestSafe
<1>13. \A i \in 1 .. Len(models[r].bodies) : m.motion[i].at = "moved"
    <2>1. Len(o.motion) = Len(o.bodies) /\ o = models[r] /\ m.motion = mo
        BY <1>3, <1>6 DEF Labelled
    <2>2. \A i \in 1 .. Len(o.motion) : mo[i].at = "moved"
        BY <1>4
    <2>q. QED BY <2>1, <2>2
<1>q. QED BY <1>1, <1>2, <1>6, <1>9, <1>10, <1>12, <1>13

(***************************************************************************)
(* The scene: its steps and theorems                                       *)
(***************************************************************************)
\* A session begins consistent.
LEMMA SessionBegins == SessionInit => SessionSafe
<1> SUFFICES ASSUME SessionInit PROVE SessionSafe
    OBVIOUS
<1>1. PICK mode \in Modes, physics \in Physics :
        scene = [ref |-> 1, controller |-> 1, feedback |-> IF mode = "legacy" THEN 0 ELSE 1,
                 mode |-> mode, physics |-> physics, box |-> FALSE, objects |-> <<>>,
                 used |-> {}, revision |-> 0, generation |-> 1,
                 contacts |-> TRUE, fresh |-> FALSE]
    BY DEF SessionInit
<1>2. PICK f \in Readers : f = IF mode = "legacy" THEN 0 ELSE 1
    BY DEF Readers, Refs
<1>3. scene = [ref |-> 1, controller |-> 1, feedback |-> f, mode |-> mode, physics |-> physics,
               box |-> FALSE, objects |-> <<>>, used |-> {}, revision |-> 0, generation |-> 1,
               contacts |-> TRUE, fresh |-> FALSE]
    BY <1>1, <1>2
<1>4. PICK s \in Scenes :
        /\ s = scene /\ s.ref = 1 /\ s.controller = 1 /\ s.feedback = f /\ s.mode = mode
        /\ s.box = FALSE /\ s.objects = <<>> /\ s.used = {} /\ s.fresh = FALSE
    <2>1. /\ 1 \in Refs /\ FALSE \in BOOLEAN /\ TRUE \in BOOLEAN /\ <<>> \in Seq(Ids)
          /\ {} \in SUBSET Ids /\ 0 \in Nat /\ 1 \in Nat
        BY DEF Refs
    <2>2. scene \in Scenes
        BY <1>3, <2>1 DEF Scenes
    <2>q. QED BY <1>3, <2>2
<1>5. PICK m \in Models : /\ m = [bodies |-> <<Robot>>, motion |-> Home(<<Robot>>), target |-> Open,
                                  solved |-> "forward"]
                          /\ Labelled(m) /\ m.bodies = <<Robot>> /\ m.target = Open /\ m.solved = "forward"
    <2>1. PICK b \in Seq(Labels) : b = <<Robot>>
        <3>1. Robot \in Labels
            BY DEF Labels
        <3>2. <<Robot>> \in Seq(Labels)
            BY <3>1
        <3>q. QED BY <3>2
    <2>2. /\ Home(b) \in Seq(Poses) /\ Len(Home(b)) = Len(b) /\ Open \in Fingers
          /\ \A i \in 1 .. Len(b) : Home(b)[i].of = b[i]
        BY HomeIs, SessionAssumption DEF Fingers
    <2>3. PICK h \in Seq(Poses) : h = Home(b) /\ Len(h) = Len(b) /\ \A i \in 1 .. Len(b) : h[i].of = b[i]
        BY <2>2
    <2>4. PICK m : m = [bodies |-> b, motion |-> h, target |-> Open, solved |-> "forward"]
        OBVIOUS
    <2>5. /\ m \in Models /\ m.bodies = b /\ m.motion = h /\ m.target = Open /\ m.solved = "forward"
        BY <2>2, <2>4 DEF Models
    <2>q. QED BY <2>1, <2>3, <2>4, <2>5 DEF Labelled
<1>6. /\ phase = "ready" /\ edit = Idle
      /\ models = [r \in Refs |-> IF r = 1 THEN m ELSE NoModel]
      /\ controllers = [r \in Refs |-> NewController]
    BY <1>5 DEF SessionInit
<1>7. /\ models \in [Refs -> Models] /\ models[1] = m /\ models[2] = NoModel
      /\ controllers \in [Refs -> Controllers] /\ 1 \in Refs
      /\ \A r \in Refs : controllers[r] = NewController /\ (models[r] = m \/ models[r] = NoModel)
    BY <1>6, NoModelIs, NewControllerIs DEF Refs
<1>8. ObjectsOK
    BY <1>4, <1>6, <1>7 DEF ObjectsOK
<1>9. Named(s) /\ BodiesOf(s) = <<Robot>>
    <2>1. Named(s)
        BY <1>4 DEF Named, IsInjective, Range
    <2>2. PICK b \in Seq({Robot}) : b = <<Robot>>
        <3>1. <<Robot>> \in Seq({Robot})
            OBVIOUS
        <3>q. QED BY <3>1
    <2>3. b \o <<>> = b
        BY <2>2
    <2>4. BodiesOf(s) = (b \o <<>>) \o <<>>
        BY <1>4, <2>2 DEF BodiesOf
    <2>q. QED BY <2>1, <2>2, <2>3, <2>4
<1>10. ForcesAreOfTheLastStep /\ SetpointIsCommanded
    <2>1. NewController.target = Open
        BY DEF NewController
    <2>2. Held = Open /\ Gripper.target = Open
        BY <1>4, <1>5, <1>7, <2>1 DEF Held, Gripper
    <2>3. ForcesAreOfTheLastStep
        BY <1>2, <1>4, <1>5, <1>7 DEF ForcesAreOfTheLastStep
    <2>q. QED BY <2>2, <2>3 DEF SetpointIsCommanded
<1>11. SceneHolds
    <2>1. \A r \in Refs : Labelled(models[r]) /\ (controllers[r].acquired => controllers[r].hold)
        BY <1>5, <1>7, NoModelIs, NewControllerIs
    <2>q. QED BY <1>4, <1>5, <1>7, <1>9, <1>10, <2>1 DEF SceneHolds
<1>q. QED BY <1>6, <1>8, <1>11 DEF EditHolds, SessionSafe

\* Every step keeps it.
LEMMA SessionStepSafe == SessionSafe /\ [SessionNext]_vars => SessionSafe'
<1> SUFFICES ASSUME SessionSafe, [SessionNext]_vars PROVE SessionSafe'
    OBVIOUS
<1>1. CASE UNCHANGED vars
    <2>1. ObjectsOK' /\ EditHolds' /\ SceneHolds'
        BY <1>1 DEF SessionSafe, ObjectsOK, EditHolds, SceneHolds, vars, ForcesAreOfTheLastStep,
                    SetpointIsCommanded, Gripper, Held, Labelled, BodiesOf
    <2>q. QED BY <2>1 DEF SessionSafe
<1>2. CASE BuildModel \/ BuildController \/ BuildReset \/ Restore \/ Commit \/ EditFails
    BY <1>2, BuildModelSafe, BuildControllerSafe, BuildResetSafe, RestoreSafe, CommitSafe, EditFailsSafe
<1>3. CASE \/ \E physics \in Physics, mode \in Modes : ConfigurePhysics(physics, mode)
           \/ ToggleBox
           \/ \E revision \in 1 .. MaxRevision : SetEnvironment(revision)
           \/ \E id \in Ids : SpawnCube(id) \/ RemoveCube(id)
                              \/ \E where \in {"home", "placed"} : PutCube(id, where)
    BY <1>3, EditsSafe
<1>4. ASSUME NEW mode \in Modes, ConfigureGripper(mode) PROVE SessionSafe'
    BY <1>4, ConfigureGripperSafe
<1>5. CASE Reset \/ SetBasePose
    BY <1>5, ResetSafe, SetBasePoseSafe
<1>6. ASSUME NEW goal \in 0 .. Open, NEW allowed \in BOOLEAN, NEW finite \in BOOLEAN,
             NEW load \in {"none", "below", "above", "unknown"}, Step(goal, allowed, load, finite)
      PROVE  SessionSafe'
    BY <1>6, StepSafe
<1>q. QED BY <1>1, <1>2, <1>3, <1>4, <1>5, <1>6, Zenon DEF SessionNext

\* What the runs check follows.
LEMMA SafeScene == SessionSafe => SceneInv
<1> SUFFICES ASSUME SessionSafe PROVE SceneInv
    OBVIOUS
<1>1. /\ ObjectsOK /\ SceneHolds /\ ForcesAreOfTheLastStep /\ SetpointIsCommanded
      /\ scene.controller = scene.ref /\ Named(scene)
      /\ models[scene.ref].bodies = BodiesOf(scene)
    BY DEF SessionSafe, SceneHolds
<1>2. ASSUME NEW r \in Refs
      PROVE  /\ DOMAIN models[r].motion = DOMAIN models[r].bodies
             /\ \A i \in DOMAIN models[r].bodies : models[r].motion[i].of = models[r].bodies[i]
    <2>1. models[r] \in Models /\ Labelled(models[r])
        BY <1>1 DEF ObjectsOK, SceneHolds
    <2>2. models[r].bodies \in Seq(Labels) /\ models[r].motion \in Seq(Poses)
        BY <2>1 DEF Models
    <2>3. /\ DOMAIN models[r].bodies = 1 .. Len(models[r].bodies)
          /\ DOMAIN models[r].motion = 1 .. Len(models[r].motion)
        BY <2>2
    <2>q. QED BY <2>1, <2>3 DEF Labelled
<1>3. Held \in 0 .. Open /\ Gripper.target \in 0 .. Open /\ (Gripper.acquired => Gripper.hold)
    BY <1>1, RestHas DEF Gripper, Controllers, Fingers
<1>4. SessionTypeOK
    BY <1>1, <1>2, <1>3 DEF SessionTypeOK, Named
<1>q. QED BY <1>1, <1>4 DEF SceneInv

\* A session is always consistent with the build it uses.
THEOREM SessionIsSafe == SessionSpec => []SessionSafe
<1>q. QED BY SessionBegins, SessionStepSafe, PTL DEF SessionSpec

\* The session's caches, forces and setpoint belong to the model it uses, whatever was
\* built, dropped or replaced meanwhile.
THEOREM SceneHoldsTogether == SessionSpec => []SceneInv
<1>q. QED BY SessionIsSafe, SafeScene, PTL

\* What the session refers to stays as it is.
Untouched ==
    models'[scene.ref] = models[scene.ref]
    /\ controllers'[scene.controller] = controllers[scene.controller]

\* A stage of the build works on the new objects.
LEMMA BuildLeavesTheScene ==
    ASSUME SessionSafe, BuildModel \/ BuildController \/ BuildReset \/ Restore \/ EditFails
    PROVE  Untouched /\ scene' = scene
<1>0. edit # Idle
    BY DEF BuildModel, BuildController, BuildReset, Restore, EditFails
<1>1. /\ Fresh \in Refs /\ scene.ref \in Refs /\ Fresh # scene.ref /\ scene.controller = scene.ref
      /\ models \in [Refs -> Models] /\ controllers \in [Refs -> Controllers] /\ Other(scene) = Fresh
    BY RestHas, TwoBuilds
<1>2. HasBuilt(scene, models, controllers, edit.copy, edit.stage)
    BY <1>0, EditHas
<1>3. CASE BuildModel
    BY <1>1, <1>3 DEF BuildModel, Untouched
<1>4. CASE BuildController
    BY <1>1, <1>4 DEF BuildController, Untouched
<1>5. CASE BuildReset
    <2>1. edit.copy.ref = Fresh /\ edit.copy.controller = Fresh
        BY <1>1, <1>2, <1>5 DEF BuildReset, HasBuilt
    <2>q. QED BY <1>1, <1>5, <2>1 DEF BuildReset, ResetObjects, Untouched
<1>6. CASE Restore
    <2>1. edit.copy.controller = Fresh
        BY <1>1, <1>2, <1>6 DEF Restore, HasBuilt
    <2>q. QED BY <1>1, <1>6, <2>1 DEF Restore, Untouched
<1>7. CASE EditFails
    <2>1. 3 - scene.controller = Fresh
        BY <1>1 DEF Fresh
    <2>q. QED BY <1>1, <1>7, <2>1 DEF EditFails, Untouched
<1>q. QED BY <1>3, <1>4, <1>5, <1>6, <1>7

\* An edit that begins touches nothing.
LEMMA BeginLeavesTheScene ==
    ASSUME \/ \E physics \in Physics, mode \in Modes : ConfigurePhysics(physics, mode)
           \/ ToggleBox
           \/ \E revision \in 1 .. MaxRevision : SetEnvironment(revision)
           \/ \E id \in Ids : SpawnCube(id) \/ RemoveCube(id)
                              \/ \E where \in {"home", "placed"} : PutCube(id, where)
    PROVE  Untouched /\ scene' = scene
BY DEF ConfigurePhysics, ToggleBox, SetEnvironment, SpawnCube, RemoveCube, PutCube, BeginEdit, Untouched

\* A commit makes the copy the session: with another number, and, unless the bodies or
\* physics are others, with the setpoint of the old session.
LEMMA CommitReplaces ==
    ASSUME SessionSafe, Commit
    PROVE  /\ scene'.ref = Fresh /\ scene'.generation = scene.generation + 1 /\ scene' # scene
           /\ scene'.physics = scene.physics /\ scene'.box = scene.box => models'[Fresh].target = Held
<1>0. edit # Idle /\ edit.stage = "commit"
    BY DEF Commit
<1>1. /\ Fresh \in Refs /\ scene.ref \in Refs /\ Fresh # scene.ref /\ Other(scene) = Fresh
      /\ models \in [Refs -> Models] /\ scene \in Scenes
    BY <1>0, EditHas, TwoBuilds
<1>2. PICK c \in Scenes : c = edit.copy
    BY <1>0, EditHas
<1>3. PICK k, p : k = edit.kind /\ p = edit.put
    OBVIOUS
<1>4. /\ Asked(scene, c, k, p) /\ Numbered(scene, c, "commit")
      /\ HasBuilt(scene, models, controllers, c, "commit")
      /\ Furnished(models[scene.ref], models[Fresh], k, p)
    BY <1>0, <1>1, <1>2, <1>3, EditHas
<1>5. scene' = c /\ models' = [models EXCEPT ![scene.ref] = NoModel]
    BY <1>2 DEF Commit
<1>6. c.ref = Fresh /\ c.generation = scene.generation + 1 /\ scene.generation \in Nat
    BY <1>1, <1>4 DEF HasBuilt, Numbered, Scenes
<1>7. c # scene
    BY <1>6
<1>8. models'[Fresh] = models[Fresh]
    BY <1>1, <1>5
<1>9. c.physics = scene.physics /\ c.box = scene.box => models[Fresh].target = Held
    <2>1. k = "rebuild" => c.physics # scene.physics \/ c.box # scene.box
        BY <1>4 DEF Asked
    <2>2. k # "rebuild" => models[Fresh].target = Held
        BY <1>4 DEF Furnished, Held
    <2>q. QED BY <2>1, <2>2
<1>q. QED BY <1>5, <1>6, <1>7, <1>8, <1>9

\* What the session does at rest it does to its own objects, and no edit is under way.
LEMMA RestKeeps ==
    ASSUME SessionSafe,
           \/ \E mode \in Modes : ConfigureGripper(mode)
           \/ Reset \/ SetBasePose
           \/ \E goal \in 0 .. Open, allowed, finite \in BOOLEAN,
                 load \in {"none", "below", "above", "unknown"} : Step(goal, allowed, load, finite)
    PROVE  /\ edit = Idle /\ edit' = Idle /\ scene'.ref = scene.ref
           /\ scene.mode = "force" /\ models'[scene.ref].target < Held => models[scene.ref].solved = "step"
<1>0. scene \in Scenes /\ scene.ref \in Refs /\ models \in [Refs -> Models] /\ models[scene.ref] \in Models
      /\ Held \in Fingers
    BY RestHas
<1>1. PICK s \in Scenes : s = scene
    BY <1>0
<1>2. ~(Held < Held) /\ ~(Open < Held)
    BY <1>0, SessionAssumption DEF Fingers
<1>3. ASSUME NEW mode \in Modes, ConfigureGripper(mode)
      PROVE  edit = Idle /\ edit' = Idle /\ scene'.ref = scene.ref /\ models'[scene.ref].target = Held
    BY <1>0, <1>1, <1>3 DEF ConfigureGripper, Ready, Held, Scenes
<1>4. ASSUME Reset
      PROVE  edit = Idle /\ edit' = Idle /\ scene'.ref = scene.ref /\ models'[scene.ref].target = Open
    <2>1. scene'.ref = scene.ref
        BY <1>1, <1>4 DEF Reset, WasReset, Scenes
    <2>2. models' = WithMotion(models, scene.ref, Home(models[scene.ref].bodies), Open)
        BY <1>4 DEF Reset, ResetObjects, WithMotion
    <2>3. PICK b \in Seq(Labels) : b = models[scene.ref].bodies
        BY <1>0 DEF Models
    <2>4. Home(b) \in Seq(Poses) /\ Open \in Fingers
        BY HomeIs, SessionAssumption DEF Fingers
    <2>5. models'[scene.ref].target = Open
        BY <1>0, <2>2, <2>3, <2>4, WithMotionIs
    <2>q. QED BY <1>4, <2>1, <2>5 DEF Reset, Ready
<1>5. ASSUME SetBasePose
      PROVE  edit = Idle /\ edit' = Idle /\ scene'.ref = scene.ref /\ models'[scene.ref].target = Held
    <2>1. scene'.ref = scene.ref
        BY <1>1, <1>5 DEF SetBasePose, Scenes
    <2>2. models'[scene.ref].target = Held
        BY <1>0, <1>5 DEF SetBasePose, Held, Models
    <2>q. QED BY <1>5, <2>1, <2>2 DEF SetBasePose, Ready
<1>6. ASSUME NEW goal \in 0 .. Open, NEW allowed \in BOOLEAN, NEW finite \in BOOLEAN,
             NEW load \in {"none", "below", "above", "unknown"}, Step(goal, allowed, load, finite)
      PROVE  /\ edit = Idle /\ edit' = Idle /\ scene'.ref = scene.ref
             /\ scene.mode = "force" /\ models'[scene.ref].target < Held => models[scene.ref].solved = "step"
    <2>1. models'[scene.ref].target = Commanded(goal, allowed, load).target
        BY <1>6, StepSafe
    <2>2. scene.mode = "force" /\ Commanded(goal, allowed, load).target < Held
            => models[scene.ref].solved = "step"
        <3>1. goal \in Fingers
            BY DEF Fingers
        <3>q. QED BY <3>1, CommandedIs
    <2>3. scene'.ref = scene.ref
        BY <1>1, <1>6 DEF Step, Scenes
    <2>q. QED BY <1>6, <2>1, <2>2, <2>3 DEF Step, Ready
<1>q. QED BY <1>2, <1>3, <1>4, <1>5, <1>6

\* As long as an edit is not committed, and when it fails, everything the session refers
\* to is as it was: a failed edit leaves no trace in the scene.
THEOREM FailedEditsLeaveTheScene == SessionSpec => UnfinishedEditLeavesTheScene
<1>1. SessionSafe /\ [SessionNext]_vars =>
        [scene' = scene /\ (edit # Idle \/ edit' # Idle) =>
           models'[scene.ref] = models[scene.ref]
           /\ controllers'[scene.controller] = controllers[scene.controller]]_vars
    <2>1. SUFFICES ASSUME SessionSafe, SessionNext, scene' = scene, edit # Idle \/ edit' # Idle
                   PROVE  Untouched
        BY DEF Untouched
    <2>q. QED BY <2>1, BuildLeavesTheScene, BeginLeavesTheScene, CommitReplaces, RestKeeps DEF SessionNext
<1>q. QED BY <1>1, SessionIsSafe, PTL DEF SessionSpec, UnfinishedEditLeavesTheScene

\* With force holding the fingers close only on the reading of the step before, and an
\* edit of the room or the cubes keeps the setpoint.
THEOREM ForceClosesOnReadings == SessionSpec => ClosesOnlyOnFreshForces
<1>1. SessionSafe /\ [SessionNext]_vars =>
        [LET same == scene'.physics = scene.physics /\ scene'.box = scene.box IN
         /\ same /\ scene.mode = "force" /\ models'[scene'.ref].target < Held =>
              models[scene.ref].solved = "step"
         /\ scene'.ref # scene.ref /\ same => models'[scene'.ref].target = Held]_vars
    <2>1. SUFFICES ASSUME SessionSafe, SessionNext, scene'.physics = scene.physics, scene'.box = scene.box
                   PROVE  /\ scene.mode = "force" /\ models'[scene'.ref].target < Held =>
                               models[scene.ref].solved = "step"
                          /\ scene'.ref # scene.ref => models'[scene'.ref].target = Held
        OBVIOUS
    <2>0. ~(Held < Held)
        <3>1. Held \in Fingers
            BY <2>1, RestHas
        <3>q. QED BY <3>1, SessionAssumption DEF Fingers
    <2>2. CASE Untouched /\ scene' = scene
        BY <2>0, <2>2 DEF Untouched, Held
    <2>3. CASE Commit
        BY <2>0, <2>1, <2>3, CommitReplaces
    <2>4. CASE \/ \E mode \in Modes : ConfigureGripper(mode)
               \/ Reset \/ SetBasePose
               \/ \E goal \in 0 .. Open, allowed, finite \in BOOLEAN,
                     load \in {"none", "below", "above", "unknown"} : Step(goal, allowed, load, finite)
        BY <2>1, <2>4, RestKeeps
    <2>q. QED BY <2>1, <2>2, <2>3, <2>4, BuildLeavesTheScene, BeginLeavesTheScene DEF SessionNext
<1>q. QED BY <1>1, SessionIsSafe, PTL DEF SessionSpec, ClosesOnlyOnFreshForces

(***************************************************************************)
(* The scene as one that is edited at once                                 *)
(***************************************************************************)
\* Where the bodies of a model are.
PlaceIn(m) ==
    [b \in Range(m.bodies) |-> m.motion[CHOOSE i \in DOMAIN m.bodies : m.bodies[i] = b].at]

\* Each body is where its motion says.
LEMMA PlaceIs ==
    ASSUME NEW m \in Models, Labelled(m), IsInjective(m.bodies)
    PROVE  /\ DOMAIN PlaceIn(m) = Range(m.bodies) /\ PlaceIn(m) = [x \in Range(m.bodies) |-> PlaceIn(m)[x]]
           /\ \A i \in 1 .. Len(m.bodies) :
                m.bodies[i] \in Range(m.bodies) /\ PlaceIn(m)[m.bodies[i]] = m.motion[i].at
           /\ \A x \in Range(m.bodies) : \E i \in 1 .. Len(m.bodies) : m.bodies[i] = x
<1>1. PICK b \in Seq(Labels) : b = m.bodies
    BY DEF Models
<1>2. DOMAIN b = 1 .. Len(b)
    OBVIOUS
<1>3. ASSUME NEW i \in 1 .. Len(b)
      PROVE  b[i] \in Range(b) /\ (CHOOSE j \in DOMAIN b : b[j] = b[i]) = i
    BY <1>1, <1>2 DEF IsInjective, Range
<1>4. \A x \in Range(b) : \E i \in 1 .. Len(b) : b[i] = x
    BY <1>2 DEF Range
<1>5. PlaceIn(m) = [x \in Range(b) |-> m.motion[CHOOSE i \in DOMAIN b : b[i] = x].at]
    BY <1>1 DEF PlaceIn
<1>6. \A i \in 1 .. Len(b) : PlaceIn(m)[b[i]] = m.motion[i].at
    BY <1>3, <1>5
<1>q. QED BY <1>1, <1>3, <1>4, <1>5, <1>6

\* The bodies are where they were in p, unless the edit puts them elsewhere or they are new.
PutIn(p, bodies, put) ==
    [x \in bodies |-> IF put.id = x THEN put.at ELSE IF x \in DOMAIN p THEN p[x] ELSE "home"]

\* Bodies that are put back are where they were, unless the edit puts them elsewhere or
\* they are new.
LEMMA PlaceAfterPut ==
    ASSUME NEW m \in Models, Labelled(m), IsInjective(m.bodies),
           NEW n \in Models, Labelled(n), IsInjective(n.bodies),
           NEW put \in Puts, n.motion = PutBack(m, n.bodies, put)
    PROVE  PlaceIn(n) = PutIn(PlaceIn(m), Range(n.bodies), put)
<1>1. PICK b \in Seq(Labels) : b = n.bodies
    BY DEF Models
<1>2. PICK d \in Seq(Labels) : d = m.bodies
    BY DEF Models
<1>3. PICK r : r = PutBack(m, b, put)
    OBVIOUS
<1>4. \A i \in 1 .. Len(b) :
         /\ put.id = b[i] => r[i].at = put.at
         /\ put.id # b[i] =>
              /\ \A k \in 1 .. Len(d) : d[k] = b[i] => r[i].at = m.motion[k].at
              /\ ~Contains(d, b[i]) => r[i].at = "home"
    BY <1>2, <1>3, PutBackIs
<1>5. ASSUME NEW x \in Range(b)
      PROVE  PlaceIn(n)[x] = IF put.id = x THEN put.at
                             ELSE IF x \in Range(d) THEN PlaceIn(m)[x] ELSE "home"
    <2>1. PICK i \in 1 .. Len(b) : b[i] = x
        BY <1>1, PlaceIs
    <2>2. PlaceIn(n)[x] = r[i].at
        BY <1>1, <1>3, <2>1, PlaceIs
    <2>3. CASE put.id = x
        BY <1>4, <2>1, <2>2, <2>3
    <2>4. CASE put.id # x /\ x \in Range(d)
        <3>1. PICK k \in 1 .. Len(d) : d[k] = x
            BY <1>2, <2>4, PlaceIs
        <3>2. PlaceIn(m)[x] = m.motion[k].at
            BY <1>2, <3>1, PlaceIs
        <3>q. QED BY <1>4, <2>1, <2>2, <2>4, <3>1, <3>2
    <2>5. CASE put.id # x /\ x \notin Range(d)
        <3>1. ~Contains(d, x)
            <4>1. DOMAIN d = 1 .. Len(d)
                OBVIOUS
            <4>q. QED BY <2>5, <4>1 DEF Contains, Range
        <3>q. QED BY <1>4, <2>1, <2>2, <2>5, <3>1
    <2>q. QED BY <2>3, <2>4, <2>5
<1>6. PlaceIn(n) = [x \in Range(b) |-> PlaceIn(n)[x]]
    BY <1>1, PlaceIs
<1>7. DOMAIN PlaceIn(m) = Range(d)
    BY <1>2, PlaceIs
<1>q. QED BY <1>1, <1>5, <1>6, <1>7 DEF PutIn

\* A sequence has no more elements than it is long.
LEMMA SizeIs ==
    ASSUME NEW S, NEW s \in Seq(S)
    PROVE  Cardinality(Range(s)) \in Nat /\ Cardinality(Range(s)) <= Len(s)
<1>1. DOMAIN s = 1 .. Len(s) /\ Len(s) \in Nat
    OBVIOUS
<1>2. s \in Surjection(1 .. Len(s), Range(s))
    <2>1. s \in [1 .. Len(s) -> Range(s)]
        BY <1>1 DEF Range
    <2>q. QED BY <1>1, <2>1 DEF Range, Surjection
<1>3. IsFiniteSet(1 .. Len(s)) /\ Cardinality(1 .. Len(s)) = Len(s)
    BY <1>1, FS_Interval
<1>4. IsFiniteSet(Range(s)) /\ Cardinality(Range(s)) <= Cardinality(1 .. Len(s))
    BY <1>2, <1>3, FS_Surjection
<1>q. QED BY <1>3, <1>4, FS_CardinalityType

\* The places of the abstract scene, and the debug box of a session.
ScenePlace == PlaceIn(models[scene.ref])
BoxOf(s) == IF s.box THEN {Box} ELSE {}

\* Every body is at one place.
AllOver(p, at) == [x \in DOMAIN p |-> at]

\* All the bodies of a model are at one place when their motions say so.
LEMMA AllAt ==
    ASSUME NEW m \in Models, Labelled(m), IsInjective(m.bodies),
           NEW n \in Models, Labelled(n), n.bodies = m.bodies, NEW at,
           \A i \in 1 .. Len(m.bodies) : n.motion[i].at = at
    PROVE  PlaceIn(n) = AllOver(PlaceIn(m), at)
<1>1. ASSUME NEW x \in Range(m.bodies) PROVE PlaceIn(n)[x] = at
    <2>1. PICK i \in 1 .. Len(m.bodies) : m.bodies[i] = x
        BY PlaceIs
    <2>2. PlaceIn(n)[n.bodies[i]] = n.motion[i].at
        BY PlaceIs
    <2>q. QED BY <2>1, <2>2
<1>2. PlaceIn(n) = [x \in Range(m.bodies) |-> PlaceIn(n)[x]] /\ DOMAIN PlaceIn(m) = Range(m.bodies)
    BY PlaceIs
<1>q. QED BY <1>1, <1>2 DEF AllOver

\* What an operation at rest leaves alone.
SameCounts ==
    scene'.used = scene.used /\ scene'.generation = scene.generation
    /\ scene'.revision = scene.revision

\* An operation at rest moves every body, none, or all of them home.
LEMMA RestMoves ==
    ASSUME SessionSafe,
           \/ \E mode \in Modes : ConfigureGripper(mode)
           \/ Reset \/ SetBasePose
           \/ \E goal \in 0 .. Open, allowed, finite \in BOOLEAN,
                 load \in {"none", "below", "above", "unknown"} : Step(goal, allowed, load, finite)
    PROVE  /\ SameCounts
           /\ \/ ScenePlace' = ScenePlace
              \/ ScenePlace' = AllOver(ScenePlace, "home")
              \/ ScenePlace' = AllOver(ScenePlace, "moved")
<1>0. /\ scene \in Scenes /\ scene.ref \in Refs /\ models \in [Refs -> Models]
      /\ models[scene.ref] \in Models /\ ObjectsOK /\ SceneHolds
    BY RestHas DEF SessionSafe
<1>1. PICK m \in Models : m = models[scene.ref] /\ Labelled(m) /\ IsInjective(m.bodies)
    BY <1>0, SceneBodies
<1>2. PICK s \in Scenes : s = scene
    BY <1>0
<1>3. SessionSafe'
    BY ConfigureGripperSafe, ResetSafe, SetBasePoseSafe, StepSafe
<1>4. scene'.ref = scene.ref
    BY RestKeeps
<1>5. PICK n \in Models : n = models'[scene.ref] /\ Labelled(n)
    <2>1. (models[scene.ref] \in Models /\ Labelled(models[scene.ref]))'
        BY <1>3, RestHas, PTL
    <2>q. QED BY <1>4, <2>1 DEF Labelled
<1>6. ScenePlace = PlaceIn(m) /\ ScenePlace' = PlaceIn(n)
    BY <1>1, <1>4, <1>5 DEF ScenePlace
<1>7. ASSUME NEW mode \in Modes, ConfigureGripper(mode) PROVE SameCounts /\ n = m
    BY <1>1, <1>2, <1>5, <1>7 DEF ConfigureGripper, Scenes, SameCounts
<1>8. ASSUME Reset
      PROVE  /\ SameCounts /\ n.bodies = m.bodies
             /\ \A i \in 1 .. Len(m.bodies) : n.motion[i].at = "home"
    <2>1. SameCounts
        BY <1>2, <1>8 DEF Reset, WasReset, Scenes, SameCounts
    <2>2. PICK b \in Seq(Labels) : b = m.bodies
        BY DEF Models
    <2>3. /\ Home(b) \in Seq(Poses) /\ Open \in Fingers
          /\ \A i \in 1 .. Len(b) : Home(b)[i].at = "home"
        BY HomeIs, SessionAssumption DEF Fingers
    <2>4. models' = WithMotion(models, scene.ref, Home(b), Open)
        BY <1>1, <1>8, <2>2 DEF Reset, ResetObjects, WithMotion
    <2>5. PICK r \in Refs : r = scene.ref
        BY <1>0
    <2>6. LET w == WithMotion(models, r, Home(b), Open) IN
          w[r].bodies = models[r].bodies /\ w[r].motion = Home(b)
        BY <1>0, <2>3, WithMotionIs
    <2>7. n.bodies = m.bodies /\ n.motion = Home(b)
        BY <1>1, <1>5, <2>4, <2>5, <2>6
    <2>q. QED BY <2>1, <2>2, <2>3, <2>7
<1>9. ASSUME SetBasePose PROVE SameCounts /\ n.bodies = m.bodies /\ n.motion = m.motion
    <2>1. SameCounts
        BY <1>2, <1>9 DEF SetBasePose, Scenes, SameCounts
    <2>2. PICK h : h = [m EXCEPT !.solved = "stale"]
        OBVIOUS
    <2>3. h.bodies = m.bodies /\ h.motion = m.motion
        BY <2>2 DEF Models
    <2>4. models'[scene.ref] = h
        BY <1>0, <1>1, <1>9, <2>2 DEF SetBasePose
    <2>q. QED BY <1>5, <2>1, <2>3, <2>4
<1>10. ASSUME NEW goal \in 0 .. Open, NEW allowed \in BOOLEAN, NEW finite \in BOOLEAN,
              NEW load \in {"none", "below", "above", "unknown"}, Step(goal, allowed, load, finite)
       PROVE  /\ SameCounts /\ n.bodies = m.bodies
              /\ \A i \in 1 .. Len(m.bodies) : n.motion[i].at = "moved"
    <2>1. SameCounts
        BY <1>2, <1>10 DEF Step, Scenes, SameCounts
    <2>2. /\ models'[scene.ref].bodies = m.bodies
          /\ \A i \in 1 .. Len(m.bodies) : models'[scene.ref].motion[i].at = "moved"
        BY <1>1, <1>10, StepSafe
    <2>q. QED BY <1>5, <2>1, <2>2
<1>11. n.bodies = m.bodies /\ n.motion = m.motion => PlaceIn(n) = PlaceIn(m)
    BY DEF PlaceIn
<1>12. ASSUME NEW at, n.bodies = m.bodies, \A i \in 1 .. Len(m.bodies) : n.motion[i].at = at
       PROVE  PlaceIn(n) = AllOver(PlaceIn(m), at)
    <2>1. Labelled(m) /\ IsInjective(m.bodies) /\ Labelled(n)
        BY <1>1, <1>5
    <2>q. QED BY <1>12, <2>1, AllAt
<1>q. QED BY <1>6, <1>7, <1>8, <1>9, <1>10, <1>11, <1>12

\* What an edit makes of the places of the bodies: the bodies start over, or a cube is
\* spawned, removed or put somewhere.
StartedOver(p, q) ==
    \E box \in {{}, {Box}} : q = [x \in (DOMAIN p \ {Box}) \union box |-> "home"]
SpawnedAt(p, q, id) ==
    id \notin DOMAIN p /\ q = [x \in DOMAIN p \union {id} |-> IF x = id THEN "home" ELSE p[x]]
RemovedFrom(p, q, id) ==
    id \in DOMAIN p /\ q = [x \in DOMAIN p \ {id} |-> p[x]]
PutAt(p, q, id, where) == id \in DOMAIN p /\ q = [p EXCEPT ![id] = where]

\* Putting all the bodies back moves none; with a new one, that spawns it.
LEMMA PuttingBack ==
    ASSUME NEW p, p = [x \in DOMAIN p |-> p[x]], "nobody" \notin DOMAIN p
    PROVE  /\ PutIn(p, DOMAIN p, NoPut) = p
           /\ \A id \in Ids : id \notin DOMAIN p =>
                SpawnedAt(p, PutIn(p, DOMAIN p \union {id}, NoPut), id)
<1>1. NoPut.id = "nobody"
    BY DEF NoPut
<1>2. PutIn(p, DOMAIN p, NoPut) = p
    BY <1>1 DEF PutIn
<1>3. ASSUME NEW id \in Ids, id \notin DOMAIN p
      PROVE  SpawnedAt(p, PutIn(p, DOMAIN p \union {id}, NoPut), id)
    <2>1. "nobody" # id
        BY SessionAssumption
    <2>q. QED BY <1>1, <1>3, <2>1 DEF PutIn, SpawnedAt
<1>q. QED BY <1>2, <1>3

\* Without one, that removes it.
LEMMA PuttingFewerBack ==
    ASSUME NEW p, "nobody" \notin DOMAIN p, NEW id \in DOMAIN p
    PROVE  RemovedFrom(p, PutIn(p, DOMAIN p \ {id}, NoPut), id)
<1>1. NoPut.id = "nobody"
    BY DEF NoPut
<1>q. QED BY <1>1 DEF PutIn, RemovedFrom

\* With one put elsewhere, that puts it there.
LEMMA PuttingElsewhere ==
    ASSUME NEW p, p = [x \in DOMAIN p |-> p[x]], NEW put, put.id \in DOMAIN p
    PROVE  PutAt(p, PutIn(p, DOMAIN p, put), put.id, put.at)
BY DEF PutIn, PutAt

\* Who commits has started over, or has put the bodies back as the edit was asked.
LEMMA CommitMoves ==
    ASSUME SessionSafe, Commit
    PROVE  /\ scene'.generation = scene.generation + 1
           /\ \/ /\ StartedOver(ScenePlace, ScenePlace')
                 /\ scene'.used = scene.used /\ scene'.revision = scene.revision
              \/ /\ ScenePlace' = ScenePlace
                 /\ scene'.used = scene.used /\ scene'.revision > scene.revision
              \/ /\ scene'.revision = scene.revision
                 /\ \E id \in Ids \ scene.used :
                      /\ Cardinality(DOMAIN ScenePlace \intersect Ids) < MaxObjects
                      /\ SpawnedAt(ScenePlace, ScenePlace', id)
                      /\ scene'.used = scene.used \union {id}
              \/ /\ scene'.used = scene.used /\ scene'.revision = scene.revision
                 /\ \E id \in DOMAIN ScenePlace \intersect Ids :
                      \/ RemovedFrom(ScenePlace, ScenePlace', id)
                      \/ \E where \in {"home", "placed"} : PutAt(ScenePlace, ScenePlace', id, where)
<1>0. edit # Idle /\ edit.stage = "commit"
    BY DEF Commit
<1>1. PICK s \in Scenes : s = scene /\ Named(s)
    BY <1>0, EditHas DEF SceneHolds
<1>2. PICK c \in Scenes : c = edit.copy /\ Named(c)
    BY <1>0, EditHas
<1>3. PICK k \in EditKinds, put \in Puts : k = edit.kind /\ put = edit.put
    BY <1>0, EditHas, EditIs
<1>4. /\ Fresh \in Refs /\ scene.ref \in Refs /\ Fresh # scene.ref /\ Other(scene) = Fresh
      /\ models \in [Refs -> Models] /\ ObjectsOK /\ SceneHolds
    BY <1>0, EditHas, TwoBuilds
<1>5. PICK m \in Models : /\ m = models[scene.ref] /\ Labelled(m) /\ m.bodies = BodiesOf(s)
                          /\ IsInjective(m.bodies)
                          /\ Range(m.bodies) = {Robot} \union BoxOf(s) \union Range(s.objects)
    BY <1>1, <1>4, SceneBodies DEF BoxOf
<1>6. PICK n \in Models : n = models[Fresh] /\ Labelled(n) /\ n.bodies = BodiesOf(c)
    <2>1. HasBuilt(s, models, controllers, c, "commit")
        BY <1>0, <1>1, <1>2, EditHas
    <2>2. models[Fresh].bodies = BodiesOf(c)
        BY <1>1, <1>4, <2>1 DEF HasBuilt
    <2>3. Labelled(models[Fresh])
        BY <1>0, <1>4, EditHas
    <2>q. QED BY <1>4, <2>2, <2>3
<1>7. /\ IsInjective(n.bodies) /\ n.bodies \in Seq(Labels)
      /\ Range(n.bodies) = {Robot} \union BoxOf(c) \union Range(c.objects)
    BY <1>2, <1>6, BodiesAre DEF Named, BoxOf
<1>8. Asked(s, c, k, put) /\ Furnished(m, n, k, put)
    BY <1>0, <1>1, <1>2, <1>3, <1>4, <1>5, <1>6, EditHas
<1>9. scene' = c /\ models'[Fresh] = n /\ c.ref = Fresh /\ c.generation = s.generation + 1
    BY <1>1, <1>2, <1>4, <1>6, CommitReplaces DEF Commit
<1>10. PICK p : p = PlaceIn(m) /\ DOMAIN p = Range(m.bodies) /\ p = [x \in DOMAIN p |-> p[x]]
    BY <1>5, PlaceIs
<1>11. PICK q : q = PlaceIn(n) /\ DOMAIN q = Range(n.bodies) /\ q = [x \in DOMAIN q |-> q[x]]
    BY <1>6, <1>7, PlaceIs
<1>12. ScenePlace = p /\ ScenePlace' = q
    BY <1>5, <1>9, <1>10, <1>11 DEF ScenePlace
<1>13. /\ Range(s.objects) \subseteq s.used /\ s.used \subseteq Ids /\ s.objects \in Seq(Ids)
       /\ IsInjective(s.objects) /\ {Robot, Box, "nobody"} \intersect Ids = {} /\ Robot # Box
       /\ "nobody" \notin DOMAIN p
    <2>1. s.used \in SUBSET Ids /\ s.objects \in Seq(Ids)
        BY DEF Scenes
    <2>q. QED BY <1>1, <1>5, <1>10, <2>1, SessionAssumption DEF Named, BoxOf
<1>14. DOMAIN p \intersect Ids = Range(s.objects)
    BY <1>5, <1>10, <1>13 DEF BoxOf
<1>15. k = "rebuild" \/ k = "room" \/ k = "object"
    BY DEF EditKinds
<1>16. CASE k = "rebuild"
    <2>1. n.motion = Home(n.bodies)
        BY <1>8, <1>16 DEF Furnished
    <2>2. c.objects = s.objects /\ c.used = s.used /\ c.revision = s.revision
        BY <1>8, <1>16 DEF Asked
    <2>3. Range(n.bodies) = (DOMAIN p \ {Box}) \union BoxOf(c)
        BY <1>5, <1>7, <1>10, <1>13, <2>2 DEF BoxOf
    <2>4. ASSUME NEW x \in Range(n.bodies) PROVE q[x] = "home"
        <3>1. PICK i \in 1 .. Len(n.bodies) : n.bodies[i] = x
            BY <1>6, <1>7, PlaceIs
        <3>2. q[n.bodies[i]] = n.motion[i].at
            BY <1>6, <1>7, <1>11, PlaceIs
        <3>q. QED BY <1>7, <2>1, <3>1, <3>2, HomeIs
    <2>5. q = [x \in (DOMAIN p \ {Box}) \union BoxOf(c) |-> "home"]
        BY <1>11, <2>3, <2>4
    <2>6. BoxOf(c) \in {{}, {Box}}
        BY DEF BoxOf
    <2>7. StartedOver(p, q)
        BY <2>5, <2>6 DEF StartedOver
    <2>q. QED BY <1>1, <1>9, <1>12, <2>2, <2>7
<1>17. CASE k # "rebuild"
    <2>1. q = PutIn(p, Range(n.bodies), put)
        <3>1. n.motion = PutBack(m, n.bodies, put)
            BY <1>8, <1>17 DEF Furnished
        <3>q. QED BY <1>5, <1>6, <1>7, <1>10, <1>11, <3>1, PlaceAfterPut
    <2>2. BoxOf(c) = BoxOf(s)
        BY <1>8, <1>17 DEF Asked, BoxOf
    <2>3. CASE k = "room"
        <3>1. put = NoPut /\ c.objects = s.objects /\ c.used = s.used /\ c.revision > s.revision
            BY <1>8, <2>3 DEF Asked
        <3>2. Range(n.bodies) = DOMAIN p
            BY <1>5, <1>7, <1>10, <2>2, <3>1
        <3>3. q = p
            BY <1>10, <1>13, <2>1, <3>1, <3>2, PuttingBack
        <3>q. QED BY <1>1, <1>9, <1>12, <3>1, <3>3
    <2>4. CASE k = "object"
        <3>1. /\ c.revision = s.revision
              /\ \/ put = NoPut /\ Spawned(s, c)
                 \/ put = NoPut /\ Removed(s, c)
                 \/ Contains(s.objects, put.id) /\ c.objects = s.objects /\ c.used = s.used
            BY <1>8, <2>4 DEF Asked
        <3>2. CASE put = NoPut /\ Spawned(s, c)
            <4>1. PICK id \in Ids \ s.used : c.objects = Append(s.objects, id) /\ c.used = s.used \union {id}
                BY <3>2 DEF Spawned
            <4>2. Range(c.objects) = Range(s.objects) \union {id} /\ id \notin Range(s.objects)
                BY <1>13, <4>1, PutLast
            <4>3. Range(n.bodies) = DOMAIN p \union {id} /\ id \notin DOMAIN p
                BY <1>5, <1>7, <1>10, <1>13, <1>14, <2>2, <4>2
            <4>4. SpawnedAt(p, q, id)
                BY <1>10, <1>13, <2>1, <3>2, <4>3, PuttingBack
            <4>5. Cardinality(DOMAIN p \intersect Ids) < MaxObjects
                <5>1. Len(s.objects) < MaxObjects /\ Len(s.objects) \in Nat
                    BY <1>13, <3>2 DEF Spawned
                <5>2. PICK size \in Nat : size = Cardinality(Range(s.objects)) /\ size <= Len(s.objects)
                    BY <1>13, SizeIs
                <5>3. size < MaxObjects
                    BY <5>1, <5>2, SessionAssumption
                <5>q. QED BY <1>14, <5>2, <5>3
            <4>q. QED BY <1>1, <1>9, <1>12, <3>1, <4>1, <4>4, <4>5
        <3>3. CASE put = NoPut /\ Removed(s, c)
            <4>1. PICK id \in Ids : /\ Contains(s.objects, id)
                                    /\ c.objects = RemoveFirst(s.objects, id) /\ c.used = s.used
                BY <3>3 DEF Removed
            <4>2. Range(c.objects) = Range(s.objects) \ {id} /\ id \in Range(s.objects)
                BY <1>13, <4>1, TakenOut
            <4>3. Range(n.bodies) = DOMAIN p \ {id} /\ id \in DOMAIN p \intersect Ids
                BY <1>5, <1>7, <1>10, <1>13, <2>2, <4>2 DEF BoxOf
            <4>4. RemovedFrom(p, q, id)
                BY <1>10, <1>13, <2>1, <3>3, <4>3, PuttingFewerBack
            <4>q. QED BY <1>1, <1>9, <1>12, <3>1, <4>1, <4>3, <4>4
        <3>4. CASE Contains(s.objects, put.id) /\ c.objects = s.objects /\ c.used = s.used
            <4>1. put.id \in Range(s.objects)
                <5>1. DOMAIN s.objects = 1 .. Len(s.objects)
                    BY <1>13
                <5>q. QED BY <3>4, <5>1 DEF Contains, Range
            <4>2. Range(n.bodies) = DOMAIN p /\ put.id \in DOMAIN p \intersect Ids
                BY <1>5, <1>7, <1>10, <1>14, <2>2, <3>4, <4>1
            <4>3. PutAt(p, q, put.id, put.at) /\ put.at \in {"home", "placed"}
                BY <1>10, <1>13, <2>1, <4>2, PuttingElsewhere DEF Puts
            <4>q. QED BY <1>1, <1>9, <1>12, <3>1, <3>4, <4>2, <4>3
        <3>q. QED BY <3>1, <3>2, <3>3, <3>4
    <2>q. QED BY <1>15, <1>17, <2>3, <2>4
<1>q. QED BY <1>16, <1>17

\* The mapping: the places of the abstract scene are those of the model in use.
LEMMA MappedPlace ==
    /\ [b \in Range(models[scene.ref].bodies) |-> PlaceOf(b)] = ScenePlace
    /\ [b \in Range(models[scene.ref].bodies) |-> PlaceOf(b)]' = ScenePlace'
BY DEF ScenePlace, PlaceIn, PlaceOf

\* The abstract specification counts as this one does.
LEMMA SameCardinality ==
    ASSUME NEW S PROVE Scene!Cardinality(S) = Cardinality(S)
BY DEF Scene!Cardinality, Cardinality

\* A session begins as an abstract scene.
LEMMA SceneBegins == SessionInit => Scene!SceneInit
<1> SUFFICES ASSUME SessionInit PROVE Scene!SceneInit
    OBVIOUS
<1>1. scene.ref = 1 /\ scene.used = {} /\ scene.generation = 1 /\ scene.revision = 0
    BY DEF SessionInit
<1>2. PICK b \in Seq(Labels) : b = <<Robot>> /\ Len(b) = 1 /\ b[1] = Robot
    <2>1. Robot \in Labels
        BY DEF Labels
    <2>2. <<Robot>> \in Seq(Labels)
        BY <2>1
    <2>q. QED BY <2>2
<1>3. PICK m : m = [bodies |-> b, motion |-> Home(b), target |-> Open, solved |-> "forward"]
    OBVIOUS
<1>4. models[scene.ref] = m
    BY <1>1, <1>2, <1>3 DEF SessionInit, Refs
<1>5. /\ Home(b) \in Seq(Poses) /\ Len(Home(b)) = Len(b) /\ Open \in Fingers
      /\ \A i \in 1 .. Len(b) : Home(b)[i].of = b[i] /\ Home(b)[i].at = "home"
    BY HomeIs, SessionAssumption DEF Fingers
<1>6. m \in Models /\ m.bodies = b /\ m.motion = Home(b)
    BY <1>3, <1>5 DEF Models
<1>7. Labelled(m) /\ IsInjective(m.bodies) /\ Range(m.bodies) = {Robot}
    BY <1>2, <1>5, <1>6 DEF Labelled, IsInjective, Range
<1>8. PlaceIn(m) = [x \in {Robot} |-> "home"]
    <2>1. PlaceIn(m)[Robot] = "home"
        BY <1>2, <1>5, <1>6, <1>7, PlaceIs
    <2>2. PlaceIn(m) = [x \in {Robot} |-> PlaceIn(m)[x]]
        BY <1>6, <1>7, PlaceIs
    <2>q. QED BY <2>1, <2>2
<1>9. ScenePlace = [x \in {Robot} |-> "home"]
    BY <1>4, <1>8 DEF ScenePlace
<1>q. QED BY <1>1, <1>9, MappedPlace DEF Scene!SceneInit, Scene!AllAtHome

\* Every step of a session is one of the abstract scene, or none.
LEMMA SceneSteps == SessionSafe /\ [SessionNext]_vars => [Scene!SceneNext]_(Scene!sceneVars)
<1> SUFFICES ASSUME SessionSafe, [SessionNext]_vars
             PROVE  Scene!SceneNext \/ UNCHANGED Scene!sceneVars
    OBVIOUS
<1>1. PICK p : p = [b \in Range(models[scene.ref].bodies) |-> PlaceOf(b)] /\ p = ScenePlace
    BY MappedPlace
<1>2. PICK q : q = [b \in Range(models[scene.ref].bodies) |-> PlaceOf(b)]' /\ q = ScenePlace'
    BY MappedPlace
<1>3. ASSUME p = q, SameCounts PROVE UNCHANGED Scene!sceneVars
    BY <1>1, <1>2, <1>3 DEF Scene!sceneVars, SameCounts
<1>4. CASE UNCHANGED vars \/ (Untouched /\ scene' = scene)
    <2>1. models'[scene'.ref] = models[scene.ref] /\ SameCounts
        BY <1>4 DEF vars, Untouched, SameCounts
    <2>2. p = q
        BY <1>1, <1>2, <2>1 DEF ScenePlace
    <2>q. QED BY <1>3, <2>1, <2>2
<1>5. CASE \/ \E mode \in Modes : ConfigureGripper(mode)
           \/ Reset \/ SetBasePose
           \/ \E goal \in 0 .. Open, allowed, finite \in BOOLEAN,
                 load \in {"none", "below", "above", "unknown"} : Step(goal, allowed, load, finite)
    <2>1. SameCounts /\ (q = p \/ q = AllOver(p, "home") \/ q = AllOver(p, "moved"))
        BY <1>1, <1>2, <1>5, RestMoves
    <2>2. CASE q = p
        BY <1>3, <2>1, <2>2
    <2>3. CASE q = AllOver(p, "home")
        <3>1. Scene!GoesHome
            BY <1>1, <1>2, <2>1, <2>3 DEF AllOver, SameCounts, Scene!GoesHome, Scene!AllAtHome
        <3>q. QED BY <3>1 DEF Scene!SceneNext
    <2>4. CASE q = AllOver(p, "moved")
        <3>1. Scene!Moves
            BY <1>1, <1>2, <2>1, <2>4 DEF AllOver, SameCounts, Scene!Moves
        <3>q. QED BY <3>1 DEF Scene!SceneNext
    <2>q. QED BY <2>1, <2>2, <2>3, <2>4
<1>6. CASE Commit
    <2>0. Scene!Edits
        BY <1>6, CommitMoves DEF Scene!Edits
    <2>1. ASSUME StartedOver(p, q), scene'.used = scene.used, scene'.revision = scene.revision
          PROVE  Scene!SceneNext
        <3>1. PICK box \in {{}, {Box}} : q = [x \in (DOMAIN p \ {Box}) \union box |-> "home"]
            BY <2>1 DEF StartedOver
        <3>2. Scene!StartsOver((DOMAIN p \ {Box}) \union box)
            BY <1>1, <1>2, <2>0, <2>1, <3>1 DEF Scene!StartsOver, Scene!AllAtHome
        <3>q. QED BY <1>1, <3>2 DEF Scene!SceneNext
    <2>2. ASSUME q = p, scene'.used = scene.used, scene'.revision > scene.revision
          PROVE  Scene!SceneNext
        <3>1. Scene!Refurnishes
            BY <1>1, <1>2, <2>0, <2>2 DEF Scene!Refurnishes
        <3>q. QED BY <3>1 DEF Scene!SceneNext
    <2>3. ASSUME scene'.revision = scene.revision, NEW id \in Ids \ scene.used,
                 Cardinality(DOMAIN p \intersect Ids) < MaxObjects, SpawnedAt(p, q, id),
                 scene'.used = scene.used \union {id}
          PROVE  Scene!SceneNext
        <3>1. Scene!Spawns(id)
            <4>1. id \notin scene.used /\ Scene!Cardinality(Scene!Cubes) < MaxObjects
                BY <1>1, <2>3, SameCardinality DEF Scene!Cubes
            <4>2. q = [x \in DOMAIN p \union {id} |-> IF x = id THEN "home" ELSE p[x]]
                BY <2>3 DEF SpawnedAt
            <4>q. QED BY <1>1, <1>2, <2>0, <2>3, <4>1, <4>2 DEF Scene!Spawns
        <3>q. QED BY <3>1 DEF Scene!SceneNext
    <2>4. ASSUME scene'.used = scene.used, scene'.revision = scene.revision,
                 NEW id \in DOMAIN p \intersect Ids, RemovedFrom(p, q, id)
          PROVE  Scene!SceneNext
        <3>1. Scene!Removes(id)
            BY <1>1, <1>2, <2>0, <2>4 DEF Scene!Removes, RemovedFrom
        <3>2. id \in Scene!Cubes
            BY <1>1 DEF Scene!Cubes
        <3>q. QED BY <3>1, <3>2 DEF Scene!SceneNext
    <2>5. ASSUME scene'.used = scene.used, scene'.revision = scene.revision,
                 NEW id \in DOMAIN p \intersect Ids, NEW where \in {"home", "placed"},
                 PutAt(p, q, id, where)
          PROVE  Scene!SceneNext
        <3>1. Scene!Puts(id, where)
            BY <1>1, <1>2, <2>0, <2>5 DEF Scene!Puts, PutAt
        <3>2. id \in Scene!Cubes
            BY <1>1 DEF Scene!Cubes
        <3>q. QED BY <3>1, <3>2 DEF Scene!SceneNext
    <2>q. QED BY <1>1, <1>2, <1>6, <2>1, <2>2, <2>3, <2>4, <2>5, CommitMoves
<1>q. QED BY <1>4, <1>5, <1>6, BuildLeavesTheScene, BeginLeavesTheScene DEF SessionNext

\* A session is a scene whose edits happen at once or not at all: the stages of a build,
\* and an edit that fails at any of them, change nothing that is seen of it.
THEOREM SessionIsScene == SessionSpec => SessionImplementsScene
<1>q. QED BY SceneBegins, SceneSteps, SessionIsSafe, PTL
          DEF SessionSpec, SessionImplementsScene, Scene!SceneSpec
==============================================================================
