-------------------------- MODULE SimulationSession --------------------------
(***************************************************************************)
(* The Newton scene of runtime.py and the edits of scene_objects.py. Every *)
(* edit builds a shallow copy of the session and replaces the session by   *)
(* it at the end, so an edit that fails anywhere must have left alone the  *)
(* objects the two still share. A reference names the objects of one build:*)
(* solver, model, state and control (models) and the gripper's controller. *)
(* One thread runs it all.                                                 *)
(*                                                                         *)
(* The joints and poses of a body are one token, [of, at]: whose they are  *)
(* and whether they are the home ones, a placed pose or what physics made. *)
(***************************************************************************)
EXTENDS Naturals, Sequences, SequencesExt, FiniteSets

CONSTANTS Ids,            \* user cubes
          Robot, Box,     \* labels of the other bodies
          MaxObjects,
          Open,           \* finger position of an open gripper, in speed steps
          Physics,        \* gravity, floating base and contact profile
          MaxRevision, MaxGeneration

ASSUME SessionAssumption ==
    /\ Robot # Box /\ {Robot, Box, "nobody"} \intersect Ids = {}
    /\ "nobody" \notin {Robot, Box}
    /\ MaxObjects \in Nat /\ Open \in Nat \ {0} /\ MaxRevision \in Nat /\ Physics # {}

VARIABLES scene,         \* the session's own attributes
    edit,                \* the copy under construction, and how far it is
    models, controllers, \* the objects behind the references
    phase                \* "ready", or "faulted" when the worker drops the session

vars == <<scene, edit, models, controllers, phase>>

Refs == {1, 2}
Modes == {"legacy", "position", "force"}
Idle == [kind |-> "none"]
NoModel == [bodies |-> <<>>, motion |-> <<>>, target |-> Open, solved |-> "never"]
NewController == [target |-> Open, acquired |-> FALSE, hold |-> FALSE]
At(label, where) == [of |-> label, at |-> where]

(***************************************************************************)
(* The gripper controller (gripper_control.py, gripper_feedback.py)        *)
(***************************************************************************)
\* reset: the setpoint is the one control holds; acquisition is forgotten.
Seeded(target) == [target |-> target, acquired |-> FALSE, hold |-> FALSE]
Invalidated(controller) == [controller EXCEPT !.acquired = FALSE]

Opener(target) == IF target < Open THEN target + 1 ELSE Open
Closer(target) == IF target > 0 THEN target - 1 ELSE 0
Towards(target, goal) == IF target < goal THEN target + 1
                         ELSE IF target > goal THEN target - 1 ELSE target

\* Mutant: without a load reading the fingers go on closing.
RegulatedBlindly(c, force, goal, allowed, load) ==
    IF ~allowed THEN [target |-> c.target, acquired |-> FALSE, hold |-> force]
    ELSE IF ~force THEN [target |-> Towards(c.target, goal), acquired |-> FALSE, hold |-> FALSE]
    ELSE IF goal = Open
         THEN [target |-> Opener(c.target), acquired |-> FALSE, hold |-> TRUE]
    ELSE [target |-> IF load = "above" THEN Opener(c.target) ELSE Closer(c.target),
          acquired |-> TRUE, hold |-> TRUE]

\* step: load compares the fingers' contact force with the wanted one, "none"
\* without contact and "unknown" without a fresh reading.
Regulated(c, force, goal, allowed, load) ==
    LET acquired == load # "none" \/ (c.acquired /\ c.hold = force) IN
    IF ~allowed THEN [target |-> c.target, acquired |-> FALSE, hold |-> force]
    ELSE IF ~force THEN [target |-> Towards(c.target, goal), acquired |-> FALSE, hold |-> FALSE]
    ELSE IF goal = Open
         THEN [target |-> Opener(c.target), acquired |-> FALSE, hold |-> TRUE]
    ELSE IF load = "unknown" THEN [target |-> c.target, acquired |-> FALSE, hold |-> TRUE]
    ELSE [target |-> IF acquired /\ load = "above" THEN Opener(c.target)
                     ELSE Closer(c.target),
          acquired |-> acquired, hold |-> TRUE]

(***************************************************************************)
(* Building a copy                                                         *)
(***************************************************************************)
BodiesOf(s) == <<Robot>> \o (IF s.box THEN <<Box>> ELSE <<>>) \o s.objects
Home(bodies) == [i \in DOMAIN bodies |-> At(bodies[i], "home")]
Fresh == 3 - scene.ref

SessionInit ==
    /\ phase = "ready" /\ edit = Idle
    /\ \E mode \in Modes, physics \in Physics :
         scene = [ref |-> 1, controller |-> 1, feedback |-> IF mode = "legacy" THEN 0 ELSE 1,
                  mode |-> mode, physics |-> physics, box |-> FALSE, objects |-> <<>>,
                  used |-> {}, revision |-> 0, generation |-> 1,
                  contacts |-> TRUE, fresh |-> FALSE]
    /\ models = [r \in Refs |-> IF r = 1 THEN
         [bodies |-> <<Robot>>, motion |-> Home(<<Robot>>), target |-> Open,
          solved |-> "forward"] ELSE NoModel]
    /\ controllers = [r \in Refs |-> NewController]

\* The copy shares everything until the build replaces it.
BeginEdit(kind, copy, put) ==
    /\ phase = "ready" /\ edit = Idle /\ scene.generation < MaxGeneration
    /\ edit' = [kind |-> kind, stage |-> "model", copy |-> copy, put |-> put]
    /\ UNCHANGED <<scene, models, controllers, phase>>

Advance(stage, copy) == edit' = [edit EXCEPT !.stage = stage, !.copy = copy]

\* _build: a new model, solver, state and control.
BuildModel ==
    /\ edit # Idle /\ edit.stage = "model"
    /\ models' = [models EXCEPT ![Fresh] =
         [bodies |-> BodiesOf(edit.copy), motion |-> Home(BodiesOf(edit.copy)),
          target |-> Open, solved |-> "never"]]
    /\ Advance("controller", [edit.copy EXCEPT !.ref = Fresh])
    /\ UNCHANGED <<scene, controllers, phase>>

\* Mutant: the copy goes on with the controller it shares.
BuildControllerShared ==
    /\ edit # Idle /\ edit.stage = "controller"
    /\ Advance("reset", [edit.copy EXCEPT !.generation = @ + 1,
         !.feedback = IF edit.copy.mode = "legacy" THEN 0 ELSE edit.copy.ref])
    /\ UNCHANGED <<scene, models, controllers, phase>>

\* _build: a new controller, a load reader of the new solver, a new generation.
BuildController ==
    /\ edit # Idle /\ edit.stage = "controller"
    /\ controllers' = [controllers EXCEPT ![Fresh] = NewController]
    /\ Advance("reset", [edit.copy EXCEPT !.controller = Fresh, !.generation = @ + 1,
         !.feedback = IF edit.copy.mode = "legacy" THEN 0 ELSE edit.copy.ref])
    /\ UNCHANGED <<scene, models, phase>>

\* reset, of the copy or of the session.
ResetObjects(s) ==
    /\ models' = [models EXCEPT ![s.ref].motion = Home(models[s.ref].bodies),
                                ![s.ref].target = Open, ![s.ref].solved = "forward"]
    /\ controllers' = [controllers EXCEPT ![s.controller] = Seeded(Open)]
WasReset(s) == [s EXCEPT !.contacts = TRUE, !.fresh = FALSE]

BuildReset ==
    /\ edit # Idle /\ edit.stage = "reset"
    /\ ResetObjects(edit.copy)
    /\ Advance(IF edit.kind = "rebuild" THEN "commit" ELSE "restore", WasReset(edit.copy))
    /\ UNCHANGED <<scene, phase>>

\* Mutant: the bodies are copied by their index.
RestoredByIndex(bodies, put) ==
    LET old == models[scene.ref].motion IN
    [i \in DOMAIN bodies |-> IF i \in DOMAIN old THEN old[i] ELSE At(bodies[i], "home")]

\* restore_object_state, _restore_environment_state: survivors keep their motion by
\* label, whatever their index; a cube that is put somewhere has a new pose.
Restored(bodies, put) ==
    LET old == models[scene.ref] IN
    [i \in DOMAIN bodies |->
        IF put.id = bodies[i] THEN At(bodies[i], put.at)
        ELSE IF Contains(old.bodies, bodies[i])
             THEN old.motion[SelectInSeq(old.bodies, LAMBDA b : b = bodies[i])]
        ELSE At(bodies[i], "home")]

\* The rest of both: control arrays are copied, dynamics are derived anew, and
\* _reset_gripper_control seeds the new controller.
Restore ==
    /\ edit # Idle /\ edit.stage = "restore"
    /\ models' = [models EXCEPT
         ![Fresh].motion = Restored(models[Fresh].bodies, edit.put),
         ![Fresh].target = models[scene.ref].target, ![Fresh].solved = "forward"]
    /\ controllers' = [controllers EXCEPT ![edit.copy.controller] =
                      Seeded(models[scene.ref].target)]
    /\ Advance("commit", [edit.copy EXCEPT !.contacts = TRUE, !.fresh = FALSE])
    /\ UNCHANGED <<scene, phase>>

\* The snapshot of the copy was valid: the session becomes it.
Commit ==
    /\ edit # Idle /\ edit.stage = "commit"
    /\ scene' = edit.copy /\ edit' = Idle
    /\ models' = [models EXCEPT ![scene.ref] = NoModel]
    /\ controllers' = [controllers EXCEPT ![scene.controller] = NewController]
    /\ UNCHANGED phase

\* Any stage raises: the copy is dropped, with the objects only it refers to.
EditFails ==
    /\ edit # Idle /\ edit' = Idle
    /\ models' = [models EXCEPT ![Fresh] = NoModel]
    /\ controllers' = [controllers EXCEPT ![3 - scene.controller] = NewController]
    /\ UNCHANGED <<scene, phase>>

(***************************************************************************)
(* Edits that build a copy                                                 *)
(***************************************************************************)
NoPut == [id |-> "nobody", at |-> "home"]
Ready == phase = "ready" /\ edit = Idle

\* configure with another gravity, base or contact profile; spawn_box, remove_box.
ConfigurePhysics(physics, mode) ==
    /\ physics # scene.physics
    /\ BeginEdit("rebuild", [scene EXCEPT !.physics = physics, !.mode = mode], NoPut)

ToggleBox == BeginEdit("rebuild", [scene EXCEPT !.box = ~@], NoPut)

\* set_environment: the same room again is no change, an older one is refused.
SetEnvironment(revision) ==
    /\ revision > scene.revision
    /\ BeginEdit("room", [scene EXCEPT !.revision = revision], NoPut)

\* Mutant: an id is free again once its cube is gone.
SpawnAgain(id) ==
    /\ ~Contains(scene.objects, id) /\ Len(scene.objects) < MaxObjects
    /\ BeginEdit("object", [scene EXCEPT !.objects = Append(@, id), !.used = @ \union {id}],
                 NoPut)

\* apply_object_command.
SpawnCube(id) ==
    /\ id \notin scene.used /\ Len(scene.objects) < MaxObjects
    /\ BeginEdit("object", [scene EXCEPT !.objects = Append(@, id), !.used = @ \union {id}],
                 NoPut)

\* An id names one cube at most.
RemoveCube(id) ==
    /\ Contains(scene.objects, id)
    /\ BeginEdit("object", [scene EXCEPT !.objects = RemoveFirst(@, id)], NoPut)

PutCube(id, where) ==
    /\ Contains(scene.objects, id)
    /\ BeginEdit("object", scene, [id |-> id, at |-> where])

(***************************************************************************)
(* Operations on the session itself                                        *)
(***************************************************************************)
\* configure without a new model: the gripper's mode. Leaving the legacy mode
\* seeds the controller, which has not followed the targets meanwhile.
ConfigureGripper(mode) ==
    LET started == scene.mode = "legacy" /\ mode # "legacy" IN
    /\ Ready /\ mode # scene.mode
    /\ scene' = [scene EXCEPT !.mode = mode,
         !.feedback = IF mode # "legacy" /\ @ = 0 THEN scene.ref ELSE @,
         !.fresh = @ /\ ~started]
    /\ controllers' = IF started
         THEN [controllers EXCEPT ![scene.controller] = Seeded(models[scene.ref].target)]
         ELSE controllers
    /\ UNCHANGED <<edit, models, phase>>

Reset == /\ Ready /\ ResetObjects(scene) /\ scene' = WasReset(scene)
         /\ UNCHANGED <<edit, phase>>

\* Mutant: the contact forces seem as fresh as before.
SetBasePoseQuietly ==
    /\ Ready
    /\ models' = [models EXCEPT ![scene.ref].solved = "stale"]
    /\ UNCHANGED <<scene, edit, controllers, phase>>

\* set_base_pose: contacts and forces are of the old pose until the next step.
SetBasePose ==
    /\ Ready
    /\ scene' = [scene EXCEPT !.contacts = FALSE, !.fresh = FALSE]
    /\ models' = [models EXCEPT ![scene.ref].solved = "stale"]
    /\ controllers' = [controllers EXCEPT ![scene.controller] = Invalidated(@)]
    /\ UNCHANGED <<edit, phase>>

\* What step commands the fingers: the controller's target, or the requested one
\* in legacy mode; an unusable reading counts as unknown.
Commanded(goal, allowed, load) ==
    LET old == controllers[scene.controller] IN
    IF scene.mode = "legacy"
    THEN [controller |-> old, target |-> IF allowed THEN goal ELSE models[scene.ref].target]
    ELSE LET new == Regulated(old, scene.mode = "force", goal, allowed,
                      IF scene.mode = "force" /\ allowed /\ scene.fresh THEN load ELSE "unknown")
         IN [controller |-> new, target |-> new.target]

\* What physics makes of the bodies, with the fingers commanded.
Solved(m, target, solved) ==
    [m EXCEPT !.target = target, !.solved = solved,
              !.motion = [i \in DOMAIN m.motion |-> At(m.motion[i].of, "moved")]]

\* The solve may yield a scene that is not finite: step raises after it.
Step(goal, allowed, load, finite) ==
    LET command == Commanded(goal, allowed, load) IN
    /\ Ready
    /\ controllers' = [controllers EXCEPT ![scene.controller] = command.controller]
    /\ models' = [models EXCEPT ![scene.ref] =
                    Solved(@, command.target, IF finite THEN "step" ELSE "stale")]
    /\ scene' = [scene EXCEPT !.contacts = finite, !.fresh = finite]
    /\ phase' = IF finite THEN phase ELSE "faulted"
    /\ UNCHANGED edit

SessionNext ==
    \/ BuildModel \/ BuildController \/ BuildReset \/ Restore \/ Commit \/ EditFails
    \/ \E physics \in Physics, mode \in Modes : ConfigurePhysics(physics, mode)
    \/ ToggleBox
    \/ \E revision \in 1 .. MaxRevision : SetEnvironment(revision)
    \/ \E id \in Ids : SpawnCube(id) \/ RemoveCube(id) \/ \E where \in {"home", "placed"} : PutCube(id, where)
    \/ \E mode \in Modes : ConfigureGripper(mode)
    \/ Reset \/ SetBasePose
    \/ \E goal \in 0 .. Open, allowed, finite \in BOOLEAN,
          load \in {"none", "below", "above", "unknown"} : Step(goal, allowed, load, finite)

SessionSpec == SessionInit /\ [][SessionNext]_vars

(***************************************************************************)
(* Properties                                                              *)
(***************************************************************************)
Held == models[scene.ref].target
Gripper == controllers[scene.controller]

\* A model describes the bodies its session names, in their order, and every body
\* carries its own motion (restore_object_state copies by label).
SessionTypeOK ==
    /\ models[scene.ref].bodies = BodiesOf(scene)
    /\ \A r \in Refs : LET m == models[r] IN
         /\ DOMAIN m.motion = DOMAIN m.bodies
         /\ \A i \in DOMAIN m.bodies : m.motion[i].of = m.bodies[i]
    /\ Held \in 0 .. Open /\ Gripper.target \in 0 .. Open
    /\ IsInjective(scene.objects) /\ Range(scene.objects) \subseteq scene.used
    /\ Gripper.acquired => Gripper.hold

\* As long as an edit is not committed, and when it fails, everything the session
\* refers to is as it was (_rebuild, set_environment, apply_object_command).
UnfinishedEditLeavesTheScene ==
    [][scene' = scene /\ (edit # Idle \/ edit' # Idle) =>
         models'[scene.ref] = models[scene.ref]
         /\ controllers'[scene.controller] = controllers[scene.controller]]_vars

\* Forces are read only from the solver in use, and only when its last solve was a
\* completed step; contacts are shown only when they are of the present pose.
ForcesAreOfTheLastStep ==
    /\ scene.fresh => models[scene.ref].solved = "step"
    /\ scene.contacts => models[scene.ref].solved \in {"step", "forward"}
    /\ scene.feedback \in {0, scene.ref} /\ (scene.mode # "legacy" => scene.feedback # 0)

\* The controller always goes on from the finger target that is commanded, through
\* every edit, reset and change of mode: what the gripper holds it keeps holding.
SetpointIsCommanded == scene.mode # "legacy" => Gripper.target = Held

\* The session's caches, forces and setpoint belong to the model it uses.
SceneInv == SessionTypeOK /\ ForcesAreOfTheLastStep /\ SetpointIsCommanded

\* With force holding the fingers close only on the reading of the step before, and
\* nothing but a step, a reset or another physics moves the setpoint.
ClosesOnlyOnFreshForces ==
    [][LET same == scene'.physics = scene.physics /\ scene'.box = scene.box IN
       /\ same /\ scene.mode = "force" /\ models'[scene'.ref].target < Held =>
            models[scene.ref].solved = "step"
       /\ scene'.ref # scene.ref /\ same => models'[scene'.ref].target = Held]_vars

\* A session is a scene that is edited at once.
PlaceOf(label) == LET m == models[scene.ref] IN
    m.motion[CHOOSE i \in DOMAIN m.bodies : m.bodies[i] = label].at
Scene == INSTANCE EditableScene WITH
    place <- [b \in Range(models[scene.ref].bodies) |-> PlaceOf(b)],
    used <- scene.used, generation <- scene.generation, room <- scene.revision
SessionImplementsScene == Scene!SceneSpec
==============================================================================
