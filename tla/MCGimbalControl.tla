-------------------------- MODULE MCGimbalControl --------------------------
(***************************************************************************)
(* A small instance of GimbalControl: age limits, leases and deadlines of   *)
(* at most one unit, so that each can run out, at its limit or beyond it,   *)
(* at every step of the protocol; the driver's own timeout is two units.    *)
(* Two bounded scenarios are checked in one run. "lease": one connection    *)
(* for three units of time. "restart": a second connection, in two units,   *)
(* with what the first has left behind on both sides.                       *)
(***************************************************************************)
EXTENDS GimbalControl

NoInputs == {}       \* the only commands are the client's

VARIABLE scenario

MCInit == ControlInit /\ scenario \in {"lease", "restart"}

MCNext ==
  /\ ControlNext
  /\ UNCHANGED scenario
  /\ scenario = "lease" => starts' <= 1 /\ sessions' <= 1
  /\ scenario = "restart" => now' <= 2

MCSpec == MCInit /\ [][MCNext]_<<controlVars, scenario>>
=============================================================================
