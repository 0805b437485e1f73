---------------------------- MODULE MotionLease ----------------------------
(***************************************************************************)
(* What simulated gimbal control promises: a dead man's switch.  The axis   *)
(* moves only on time that a lease has paid for, a lease is granted or      *)
(* renewed only while the switch is released or live, and once it is locked *)
(* (at start, by expiry, by a fault, by a disconnect, by a map reset) only  *)
(* an explicit release unlocks it.                                          *)
(***************************************************************************)
EXTENDS Integers

CONSTANT MaxLease   \* the longest lease one grant may give

VARIABLES
  pan,     \* the measured angle
  time,    \* the stamp of that measurement
  phase,   \* "locked", "released" or "live"
  until    \* when live, the end of the lease

leaseVars == <<pan, time, phase, until>>

\* The part of the interval up to t that the lease covers.
Paid(t) ==
  LET end == IF t <= until THEN t ELSE until
  IN  IF phase = "live" /\ end > time THEN end - time ELSE 0

Moved == time' >= time /\ pan' - pan <= Paid(time') /\ pan - pan' <= Paid(time')

LeaseInit == phase = "locked" /\ until = 0 /\ pan \in Int /\ time \in Nat

\* Time passes under the current lease, if any.
Coast == Moved /\ UNCHANGED <<phase, until>>

Lock == Moved /\ phase' = "locked" /\ until' = 0

Release == Moved /\ phase' = "released" /\ until' = 0

Grant ==
  /\ phase \in {"released", "live"}
  /\ phase = "live" => time' < until
  /\ Moved
  /\ phase' = "live"
  /\ until' > time'
  /\ until' <= time' + MaxLease

LeaseNext == Coast \/ Lock \/ Release \/ Grant

LeaseSpec == LeaseInit /\ [][LeaseNext]_leaseVars
===========================================================================
