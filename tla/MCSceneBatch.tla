---------------------------- MODULE MCSceneBatch ----------------------------
(***************************************************************************)
(* Rigs of one to six cameras with the image sizes of a RealSense profile, *)
(* and tiny ones, one of them a single line of pixels, and one that has a  *)
(* calibration too fine for the wire.                                      *)
(***************************************************************************)
EXTENDS SceneBatch, TLC

Size(w, h, iw, ih, channels) ==
    [w |-> w, h |-> h, iw |-> iw, ih |-> ih, channels |-> channels, single |-> TRUE]
MCVga == Size(640, 480, 640, 480, 1)
MCTiny == Size(3, 2, 3, 2, 1)
MCTall == Size(2, 5, 2, 400, 1)
MCColor == Size(640, 480, 1280, 720, 3)
MCFullColor == Size(640, 480, 256, 192, 3)
MCLine == Size(640, 1, 640, 480, 1)
MCCoarse == [MCTiny EXCEPT !.single = FALSE]
MCProfiles == {MCVga, MCTiny, MCTall, MCColor, MCFullColor, MCLine, MCCoarse}

MCRigs == {0 :> MCTiny @@ 1 :> MCTall,
           0 :> MCTall,
           0 :> MCLine @@ 1 :> MCTiny,
           0 :> MCCoarse @@ 5 :> MCColor,
           [c \in 0 .. 4 |-> MCVga],
           [c \in 0 .. 5 |-> IF c = 5 THEN MCColor ELSE IF c = 4 THEN MCTiny ELSE MCVga],
           [c \in 0 .. 5 |-> IF c = 5 THEN MCFullColor ELSE MCVga],
           5 :> MCColor}

\* Wall: one plane. Edge: a near half before a far one. Slab: the far half is
\* shown by the pixels of the near one. Void: nothing is measured.
MCDepth(scene, x, y) ==
    CASE scene = "wall" -> 5
      [] scene = "edge" -> IF x % 2 = 0 THEN 3 ELSE IF y = 0 THEN 9 ELSE 4
      [] scene = "slab" -> IF x = 0 THEN 3 ELSE 4
      [] scene = "void" -> 0
MCPixel(scene, x, y) ==
    IF scene = "slab" /\ x < 2 THEN <<0, y>>
    ELSE IF scene = "edge" /\ x = 0 /\ y = 1 THEN Outside ELSE <<x, y>>
=============================================================================
