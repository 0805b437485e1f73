------------------------ MODULE MCSimulationBoundary ------------------------
(***************************************************************************)
(* Instances of SimulationBoundary for TLC: the frames of a tracked hand,   *)
(* those that interrupt it, and three bounded scenarios. "drive": a hand    *)
(* drives the arm and pauses, in one reference space under one set of       *)
(* settings. "calibrate": a low trigger calibrates, with the head pose lost *)
(* for a while, against resets, rebuilt models, new settings and            *)
(* recentring, one substep at a time. "live": no menu opens, since what it  *)
(* commands is in the other two.                                            *)
(***************************************************************************)
EXTENDS SimulationBoundary

VARIABLE scenario

Hand(trigger, button) ==
  [tracked |-> TRUE, stage |-> TRUE, head |-> TRUE, trigger |-> trigger,
   button |-> button, menu |-> FALSE]

LostHand == [Hand("high", "inactive") EXCEPT !.tracked = FALSE]
NoHead   == [Hand("low", "up") EXCEPT !.head = FALSE]
OpenMenu == [Hand("high", "up") EXCEPT !.menu = TRUE]

\* The button pressed while the trigger is low, and the menu to pause with.
HandFrames ==
  {Hand("low", "up"), Hand("low", "down"), Hand("high", "up"), NoHead, OpenMenu}

\* A hand that pulls the trigger half or fully and gets lost.
LosingFrames ==
  {Hand("low", "up"), Hand("low", "down"), Hand("high", "up"), Hand("mid", "up"), LostHand}

Driving ==
  /\ settings' = 1 /\ epoch'.reference = 0
  /\ commands' \in {<<>>, <<"togglePause">>}
  /\ \A p \in pending' : p.head

Calibrating ==
  /\ left' <= 1
  /\ commands' \notin {<<"togglePause">>}
  /\ \A p \in pending' : ~p.head \/ p.menu \/ p.press

MCInit == BoundaryInit /\ scenario \in {"drive", "calibrate"}

LiveInit == BoundaryInit /\ scenario = "live"

MCNext ==
  /\ BoundaryNext
  /\ UNCHANGED scenario
  /\ scenario = "drive" => Driving
  /\ scenario = "calibrate" => Calibrating
  /\ scenario = "live" => xr' # "menu"

scenarioVars == <<boundaryVars, scenario>>

MCSpec == MCInit /\ [][MCNext]_scenarioVars

LiveSpec == LiveInit /\ [][MCNext]_scenarioVars /\ BoundaryFairness
=============================================================================
