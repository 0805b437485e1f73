------------------------- MODULE SimulatedPanTilt -------------------------
(***************************************************************************)
(* The simulated pan/tilt driver of tools/remote_scene/gimbal.py, as        *)
(* operators on the driver's record.  Angles are counted in the distance    *)
(* the axis travels at its rate limit in one unit of time, so the rate is 1;*)
(* the tilt axis obeys the same formulas as the pan axis and is left out.   *)
(***************************************************************************)
EXTENDS Integers

CONSTANTS
  PanMin, PanMax,    \* the advertised angle limits
  CommandTimeout     \* the driver's own watchdog: PanTiltLimits.command_timeout_ns

ASSUME LimitsAssumption ==
  PanMin \in Int /\ PanMax \in Int /\ PanMin <= 0 /\ 0 <= PanMax

ASSUME TimeoutAssumption == CommandTimeout \in Nat \ {0}

NoCommand == 0       \* stamps start at 1

Drivers ==
  [time: Nat, pan: PanMin..PanMax, target: PanMin..PanMax, command: Nat,
   tracked: BOOLEAN]

InitialDriver(t) ==
  [time |-> t, pan |-> 0, target |-> 0, command |-> NoCommand, tracked |-> TRUE]

Earlier(a, b) == IF a <= b THEN a ELSE b

\* One bounded step of an axis at angle p towards goal, in dt units of time.
Toward(p, goal, dt) ==
  IF goal >= p THEN Earlier(p + dt, goal)
  ELSE IF goal >= p - dt THEN goal ELSE p - dt

\* How long the command drives the axis before stamp: never past its timeout.
DriveTime(d, stamp) ==
  LET end == Earlier(stamp, d.command + CommandTimeout)
  IN  IF d.tracked /\ d.command # NoCommand /\ end > d.time
      THEN end - d.time ELSE 0

\* Whether _advance raises "simulation time reversed".
Reversed(d, stamp) == stamp < d.time

Advance(d, stamp) ==
  [d EXCEPT !.time = stamp, !.pan = Toward(d.pan, d.target, DriveTime(d, stamp))]

Hold(d, stamp) ==
  LET a == Advance(d, stamp)
  IN  [a EXCEPT !.target = a.pan, !.command = NoCommand]

InLimits(p) == PanMin <= p /\ p <= PanMax

\* Whether target raises before it changes anything.
Refused(d, p, stamp) == ~d.tracked \/ ~InLimits(p) \/ Reversed(d, stamp)

Target(d, p, stamp) ==
  [Advance(d, stamp) EXCEPT !.target = p, !.command = stamp]

SetTracking(d, tracked, stamp) ==
  IF tracked = d.tracked THEN Advance(d, stamp)
  ELSE [Hold(d, stamp) EXCEPT !.tracked = tracked]
===========================================================================
