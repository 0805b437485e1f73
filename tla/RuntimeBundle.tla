---------------------------- MODULE RuntimeBundle ----------------------------
(***************************************************************************)
(* The two bundles of the Python runtime: stage_warp_android.py collects   *)
(* what the Warp build made, again and again in one directory, and         *)
(* stage_python_runtime.py puts it together with everything else, in a new *)
(* directory each time. The last thing each writes is a manifest with the  *)
(* hashes of what is there.                                                *)
(*                                                                         *)
(* Of the files the model has a native library, a Python package and the   *)
(* robot's description. A library is also told by whether its symbols were *)
(* stripped, which changes its hash.                                       *)
(***************************************************************************)
EXTENDS BuildTools

VARIABLES warp, runtime    \* the two directories

NoLibrary == [build |-> 0, stripped |-> FALSE]
Stripped(library) == [library EXCEPT !.stripped = TRUE]

NoWarp == [library |-> NoLibrary, python |-> 0]
NoRuntime == [library |-> NoLibrary, python |-> 0, urdf |-> 0, provenance |-> NoWarp]
EmptyRuntime == [files |-> NoRuntime, listed |-> NoRuntime]

BundlesInit ==
    /\ warp = [files |-> NoWarp, listed |-> NoWarp] /\ runtime = EmptyRuntime

\* What the library needs is packaged.
Resolved(library) == library.build # 3

(***************************************************************************)
(* stage_bundle                                                            *)
(***************************************************************************)
\* The old manifest goes first, the old files are overwritten.
BeginWarp ==
    /\ Begins("warp", "libraries")
    /\ warp' = [warp EXCEPT !.listed = NoWarp]
    /\ UNCHANGED <<inputs, changes, runtime>>

CopyLibraries ==
    /\ Runs("warp", "libraries") /\ Continue("strip")
    /\ warp' = [warp EXCEPT !.files.library = [build |-> inputs.warp, stripped |-> FALSE]]
    /\ UNCHANGED <<inputs, changes, runtime>>

StripLibraries ==
    /\ Runs("warp", "strip") /\ Continue("python")
    /\ warp' = [warp EXCEPT !.files.library = Stripped(@)]
    /\ UNCHANGED <<inputs, changes, runtime>>

CopyPython ==
    /\ Runs("warp", "python") /\ Continue("list")
    /\ warp' = [warp EXCEPT !.files.python = inputs.warp]
    /\ UNCHANGED <<inputs, changes, runtime>>

ListWarp ==
    /\ Runs("warp", "list") /\ Resolved(warp.files.library) /\ Ends
    /\ warp' = [warp EXCEPT !.listed = warp.files]
    /\ UNCHANGED <<inputs, changes, runtime>>

(***************************************************************************)
(* stage_python_runtime.main                                               *)
(***************************************************************************)
\* An empty directory, sources at their pins, a Warp bundle as it is listed.
BeginRuntime ==
    /\ Begins("runtime", "packages") /\ Pinned(inputs.checkout)
    /\ warp.listed # NoWarp /\ warp.files = warp.listed
    /\ runtime' = EmptyRuntime
    /\ UNCHANGED <<inputs, changes, warp>>

CopyPackages ==
    /\ Runs("runtime", "packages") /\ Continue("robot")
    /\ runtime' = [runtime EXCEPT !.files.library = warp.files.library,
                                  !.files.python = warp.files.python]
    /\ UNCHANGED <<inputs, changes, warp>>

\* After the wheels, which are downloaded and must have their hashes.
CopyRobot ==
    /\ Runs("runtime", "robot") /\ Continue("provenance")
    /\ runtime' = [runtime EXCEPT !.files.urdf = inputs.description]
    /\ UNCHANGED <<inputs, changes, warp>>

CopyProvenance ==
    /\ Runs("runtime", "provenance") /\ Continue("list")
    /\ runtime' = [runtime EXCEPT !.files.provenance = warp.listed]
    /\ UNCHANGED <<inputs, changes, warp>>

\* verify_elf: no library lacks a dependency.
ElfVerified == Resolved(runtime.files.library)

ListRuntime ==
    /\ Runs("runtime", "list") /\ ElfVerified /\ Ends
    /\ runtime' = [runtime EXCEPT !.listed = runtime.files]
    /\ UNCHANGED <<inputs, changes, warp>>

BundlesNext ==
    \/ BeginWarp \/ CopyLibraries \/ StripLibraries \/ CopyPython \/ ListWarp
    \/ BeginRuntime \/ CopyPackages \/ CopyRobot \/ CopyProvenance \/ ListRuntime
==============================================================================
