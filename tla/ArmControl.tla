----------------------------- MODULE ArmControl -----------------------------
(***************************************************************************)
(* FullControlMachine (full_control.cpp) with the RegisteredInputMapper     *)
(* below it (registered_input.cpp), as operators on their joint record: the *)
(* arm follows the hand only while it is engaged.  Poses, joints and angles *)
(* are left out; what can be computed from them is an input.                *)
(***************************************************************************)

\* trigger below .2, up to .5, and above
Triggers == {"low", "mid", "high"}

\* Do the poses normalise, and does the inverse kinematics find valid joints?
Poses == {"unusable", "unreachable", "solved"}

Arms ==
  [calibrated: BOOLEAN, engaged: BOOLEAN, released: BOOLEAN,   \* the mapper
   allowed: BOOLEAN, rearmed: BOOLEAN]                         \* input_allowed_, gripper_rearmed_

ResetArm ==
  [calibrated |-> FALSE, engaged |-> FALSE, released |-> FALSE,
   allowed |-> FALSE, rearmed |-> FALSE]

Disengage(a) == [a EXCEPT !.engaged = FALSE, !.released = FALSE]

Barred(a) == [a EXCEPT !.allowed = FALSE, !.rearmed = FALSE]

Suppress(a) == Barred(Disengage(a))

Invalidate(a) == Barred(Disengage([a EXCEPT !.calibrated = FALSE]))

\* The captured sample is tracked and its trigger low; only its poses may be bad.
Calibrate(a, pose) ==
  IF pose = "unusable" THEN Disengage(a)
  ELSE [a EXCEPT !.calibrated = TRUE, !.engaged = FALSE, !.released = TRUE]

\* RegisteredInputMapper::Update without a calibration press.
MapInput(a, tracked, trigger, pose) ==
  CASE ~tracked \/ pose = "unusable" -> Disengage(a)
    [] tracked /\ pose # "unusable" /\ ~a.calibrated -> [a EXCEPT !.engaged = FALSE]
    [] tracked /\ pose # "unusable" /\ a.calibrated /\ trigger = "low" ->
         [a EXCEPT !.engaged = FALSE, !.released = TRUE]
    [] tracked /\ pose # "unusable" /\ a.calibrated /\ trigger # "low"
         /\ ~a.engaged /\ ~(a.released /\ trigger = "high") -> a
    [] OTHER -> IF pose = "solved" THEN [a EXCEPT !.engaged = TRUE] ELSE Disengage(a)

\* One control tick.
Control(a, tracked, trigger, allowed, pose) ==
  LET lost   == ~allowed /\ a.allowed
      mapped == MapInput(IF lost THEN Suppress(a) ELSE a, tracked /\ allowed, trigger, pose)
  IN  [mapped EXCEPT !.allowed = allowed,
                     !.rearmed = @ \/ (allowed /\ trigger = "low")]
=============================================================================
