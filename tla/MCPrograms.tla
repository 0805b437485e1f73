------------------------------ MODULE MCPrograms ------------------------------
(***************************************************************************)
(* Three programs that know nothing of one another, each from its own      *)
(* initial states while the others rest in one of theirs: the Newton scene *)
(* on the headset, the rate sweep on the host and the tools that build the *)
(* package.                                                                *)
(***************************************************************************)
EXTENDS SimulationSession, RateSweep, ApkBuild

VARIABLE program

programVars == <<vars, sweepVars, buildVars, program>>

ProgramInit ==
    /\ program \in {"scene", "sweep", "build"}
    /\ SessionInit /\ SweepInit /\ BuildInit
    /\ program # "scene" => scene.mode = "legacy" /\ scene.physics = CHOOSE p \in Physics : TRUE
    /\ program # "sweep" => proximity = "off" /\ app = NoApp

ProgramNext ==
    \/ program = "scene" /\ SessionNext /\ UNCHANGED <<sweepVars, buildVars, program>>
    \/ program = "sweep" /\ SweepNext /\ UNCHANGED <<vars, buildVars, program>>
    \/ program = "build" /\ BuildNext /\ UNCHANGED <<vars, sweepVars, program>>

ProgramSpec == ProgramInit /\ [][ProgramNext]_programVars
==============================================================================
