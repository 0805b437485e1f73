--------------------------- MODULE SimulationLoss ---------------------------
(***************************************************************************)
(* SimulationBoundary watched by an observer of every published loss, also  *)
(* of those that the XR thread did not count as an interruption.  Its       *)
(* frames are those of a hand that engages, is lost for one frame, and      *)
(* pauses from the menu.                                                    *)
(***************************************************************************)
EXTENDS SimulationBoundary

VARIABLE
  letGoSinceLoss    \* a usable frame with a low trigger since the last frame
                    \* with the menu open or the hand not tracked

Seen(trigger, button) ==
  [tracked |-> TRUE, stage |-> TRUE, head |-> TRUE, trigger |-> trigger,
   button |-> button, menu |-> FALSE]

PausingFrames ==
  {Seen("low", "up"), Seen("low", "down"), Seen("high", "up"),
   [Seen("high", "up") EXCEPT !.menu = TRUE], [Seen("high", "up") EXCEPT !.tracked = FALSE]}

lossVars == <<boundaryVars, letGoSinceLoss>>

LossInit == BoundaryInit /\ letGoSinceLoss = FALSE

LossNext ==
  /\ BoundaryNext
  /\ letGoSinceLoss' = /\ input'.tracked /\ ~input'.menu
                       /\ \/ letGoSinceLoss
                          \/ ValidFullInput(input') /\ input'.trigger = "low"

LossSpec == LossInit /\ [][LossNext]_lossVars

\* "Preserve calibrated targets, but consume any intervening menu/focus/tracking
\* loss even if it lasted one XR frame" (full_runtime_app.cpp:825): a physics step
\* follows the hand only if the trigger was released after the last such frame.
EveryLossNeedsRelease ==
  worker = "step" /\ arm.engaged /\ ~SubstepBoundaryChanged => letGoSinceLoss
=============================================================================
