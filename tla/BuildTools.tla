------------------------------ MODULE BuildTools ------------------------------
(***************************************************************************)
(* What the tools that build the headset's package have in common. They    *)
(* read the robot's description, a source checkout and the outputs of the  *)
(* Warp build, and all of these may change at any time, also while a tool  *)
(* reads them, and be put back. One tool runs at a time, and it may raise  *)
(* or be stopped between any two of its steps: what it wrote until then    *)
(* stays.                                                                  *)
(*                                                                         *)
(* A version stands for the contents of a file: two files hash alike iff   *)
(* their versions are equal. A checkout is at the pinned commit, and clean,*)
(* in its first version. The third Warp build needs a library that nobody  *)
(* packages.                                                               *)
(***************************************************************************)
EXTENDS Naturals

CONSTANTS MaxChanges,   \* bound: changes of inputs, and of bundles by hand
          MaxVersion    \* bound: contents an input may have

ASSUME BuildAssumption == MaxChanges \in Nat /\ MaxVersion \in Nat \ {0}

VARIABLES inputs,      \* description, visual meshes, checkout and Warp build, by version
          changes,     \* changes so far
          tool         \* the running tool: its name, its step, what it remembers

toolVars == <<inputs, changes, tool>>

Versions == 1 .. MaxVersion
Pinned(checkout) == checkout = 1

\* History: how often an input was changed while the graphs are built.
NoEdits == [description |-> 0, checkout |-> 0]
Nobody == [name |-> "none", step |-> "none", urdf |-> 0, visuals |-> 0, edits |-> NoEdits]

Noticed(input) ==
    IF tool.name = "graphs" /\ input \in DOMAIN NoEdits
    THEN [tool EXCEPT !.edits[input] = @ + 1] ELSE tool

ToolsInit ==
    /\ inputs = [description |-> 1, visuals |-> 1, checkout |-> 1, warp |-> 1]
    /\ changes = 0 /\ tool = Nobody

\* An edit of the description or a mesh, another commit or a dirty tree, a new Warp
\* build; or what was there before.
InputChanges ==
    /\ changes < MaxChanges /\ changes' = changes + 1
    /\ \E input \in DOMAIN inputs : \E version \in Versions \ {inputs[input]} :
         inputs' = [inputs EXCEPT ![input] = version] /\ tool' = Noticed(input)

\* A step of a tool, and the step after it.
Runs(name, step) == tool.name = name /\ tool.step = step
Begins(name, step) == tool = Nobody /\ tool' = [Nobody EXCEPT !.name = name, !.step = step]
Continue(step) == tool' = [tool EXCEPT !.step = step]
Ends == tool' = Nobody

ToolFails == tool # Nobody /\ Ends /\ UNCHANGED <<inputs, changes>>
==============================================================================
