----------------------------- MODULE GraphBundle -----------------------------
(***************************************************************************)
(* build_android_artifacts.py: the robot's physics is captured as graphs,  *)
(* the native libraries are compiled, everything is listed in a manifest   *)
(* and verified by verify_bundle.py.                                       *)
(*                                                                         *)
(* The graphs carry the description they were captured from and the        *)
(* checkout they were captured with; the manifest has the hash of the      *)
(* description, which is read a second time for it. The libraries are      *)
(* compiled from a clone of the pinned commit, whatever the checkout is by *)
(* then. The replay tests compare where the links are, not how they move:  *)
(* the second and the third version of the description differ in masses.   *)
(***************************************************************************)
EXTENDS BuildTools

VARIABLE artifact      \* the output directory

\* A graph as it is saved has the addresses of the run that captured it.
NoGraphs == [model |-> 0, source |-> 0, addresses |-> FALSE]
Captured(description, checkout) == [model |-> description, source |-> checkout, addresses |-> TRUE]
Canonical(graph) == [graph EXCEPT !.addresses = FALSE]

NoFiles == [graphs |-> NoGraphs, libraries |-> {}]
EmptyArtifact == [files |-> NoFiles, listed |-> NoFiles, urdf |-> 0,
                  report |-> FALSE, built |-> FALSE, edits |-> NoEdits]

GraphInit == artifact = EmptyArtifact

\* The checkouts are clean and the output directory is empty: a new one.
BeginGraphs ==
    /\ Pinned(inputs.checkout) /\ Begins("graphs", "capture")
    /\ artifact' = EmptyArtifact
    /\ UNCHANGED <<inputs, changes>>

\* capture: the model is built, both graphs are saved, and written once more without
\* their addresses.
SaveGraphs ==
    /\ Runs("graphs", "capture") /\ Continue("canonical")
    /\ artifact' = [artifact EXCEPT !.files.graphs = Captured(inputs.description, inputs.checkout)]
    /\ UNCHANGED <<inputs, changes>>

CanonicalizeGraphs ==
    /\ Runs("graphs", "canonical") /\ Continue("metadata")
    /\ artifact' = [artifact EXCEPT !.files.graphs = Canonical(@)]
    /\ UNCHANGED <<inputs, changes>>

WriteMetadata ==
    /\ Runs("graphs", "metadata")
    /\ tool' = [tool EXCEPT !.step = "compile", !.urdf = inputs.description]
    /\ UNCHANGED <<inputs, changes, artifact>>

\* The runtime, the kernels of the graphs and the C++ library. A toolchain may make a
\* kernel library that needs more.
Libraries(more) == {[name |-> "kernels", needed |-> {"warp", "cxx"} \cup more],
                    [name |-> "warp", needed |-> {"cxx", "libc"}], [name |-> "cxx", needed |-> {"libc"}]}

CompileLibraries ==
    /\ Runs("graphs", "compile") /\ Continue("list")
    /\ \E more \in {{}, {"omp"}} : artifact' = [artifact EXCEPT !.files.libraries = Libraries(more)]
    /\ UNCHANGED <<inputs, changes>>

\* write_manifest.
ListArtifacts ==
    /\ Runs("graphs", "list") /\ Continue("verify")
    /\ artifact' = [artifact EXCEPT !.listed = artifact.files, !.urdf = tool.urdf]
    /\ UNCHANGED <<inputs, changes>>

\* verify_artifacts: every listed file is as listed.
Intact == artifact.files = artifact.listed

\* What a library needs is in the bundle or on the headset.
Closed(libraries) ==
    \A library \in libraries : library.needed \subseteq {l.name : l \in libraries} \cup {"libc"}

\* verify_bundle, up to the tests.
VerifyArtifacts ==
    /\ Runs("graphs", "verify") /\ Continue("tests")
    /\ Intact /\ Canonical(artifact.files.graphs) = artifact.files.graphs
    /\ Closed(artifact.files.libraries)
    /\ UNCHANGED <<inputs, changes, artifact>>

\* Where the links of a description are.
LinkPoses(description) == description \div 2

\* Mutant: the tests only ask that the graphs can be replayed.
ReplayAnything ==
    /\ Runs("graphs", "tests") /\ Continue("report")
    /\ UNCHANGED <<inputs, changes, artifact>>

\* The tests replay the graphs and compare the poses of the links with those of a model
\* of the present description.
ReplayGraphs ==
    /\ Runs("graphs", "tests")
    /\ LinkPoses(artifact.files.graphs.model) = LinkPoses(inputs.description)
    /\ Continue("report")
    /\ UNCHANGED <<inputs, changes, artifact>>

WriteReport ==
    /\ Runs("graphs", "report") /\ Intact /\ Continue("recheck")
    /\ artifact' = [artifact EXCEPT !.report = TRUE]
    /\ UNCHANGED <<inputs, changes>>

\* Mutant: the checkouts are not looked at again.
FinishUnchecked ==
    /\ Runs("graphs", "recheck") /\ Ends
    /\ artifact' = [artifact EXCEPT !.built = TRUE, !.edits = tool.edits]
    /\ UNCHANGED <<inputs, changes>>

\* The build returns if the checkouts are clean at the end, too.
FinishGraphs ==
    /\ Runs("graphs", "recheck") /\ Pinned(inputs.checkout) /\ Ends
    /\ artifact' = [artifact EXCEPT !.built = TRUE, !.edits = tool.edits]
    /\ UNCHANGED <<inputs, changes>>

Built == artifact.built

GraphNext ==
    \/ BeginGraphs \/ SaveGraphs \/ CanonicalizeGraphs \/ WriteMetadata \/ CompileLibraries \/ ListArtifacts
    \/ VerifyArtifacts \/ ReplayGraphs \/ WriteReport \/ FinishGraphs
==============================================================================
