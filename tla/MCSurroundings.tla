--------------------------- MODULE MCSurroundings ---------------------------
(***************************************************************************)
(* What the viewer is shown of the surroundings, from two programs that    *)
(* know nothing of one another: the cameras' retained map on the host and  *)
(* the room's surfaces on the headset, each from its own initial states    *)
(* while the other rests in one of its own.                                *)
(***************************************************************************)
EXTENDS RetainedScene, RoomScene

VARIABLE part

surroundingsVars == <<vars, roomVars, part>>

SurroundingsInit ==
  /\ part \in {"map", "room"}
  /\ RetainedInit /\ RoomInit
  /\ part # "map" => consumer = "stream" /\ retention
  /\ part # "room" => ~wanted /\ ~room.supported

SurroundingsNext ==
  \/ part = "map" /\ RetainedNext /\ UNCHANGED <<roomVars, part>>
  \/ part = "room" /\ RoomNext /\ UNCHANGED <<vars, part>>

SurroundingsSpec == SurroundingsInit /\ [][SurroundingsNext]_surroundingsVars
=============================================================================
