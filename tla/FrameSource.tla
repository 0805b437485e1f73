----------------------------- MODULE FrameSource -----------------------------
(***************************************************************************)
(* What every user of a capture relies on, with cameras, clocks and poses  *)
(* left out: a camera's exposures come in strictly increasing order and    *)
(* never ahead of the batch that delivers them, and a usable image belongs *)
(* to its depth.                                                           *)
(***************************************************************************)
EXTENDS Naturals, FiniteSets

CONSTANTS Cameras, MaxTime, MaxSkew

VARIABLES now, shown, batch
sourceVars == <<now, shown, batch>>

NoFrame == [depth |-> 0, image |-> 0, usable |-> FALSE]
NoFrames == [c \in Cameras |-> NoFrame]
Shot(frames) == {c \in Cameras : frames[c] # NoFrame}

SourceInit ==
    /\ now = 1 /\ shown = [c \in Cameras |-> 0]
    /\ batch = [frames |-> NoFrames, tracking |-> TRUE, produced |-> 0]

Passes == /\ now < MaxTime /\ now' = now + 1
          /\ UNCHANGED <<shown, batch>>

\* The frames a camera may contribute at time t.
FramesOf(c, t) ==
    {NoFrame} \union
    {f \in [depth : shown[c] + 1 .. t, image : 1 .. t, usable : BOOLEAN] :
       f.usable => f.depth <= f.image + MaxSkew /\ f.image <= f.depth + MaxSkew}

Delivers(frames, tracked) ==
    /\ now > batch.produced
    /\ \A c \in Cameras : frames[c] \in FramesOf(c, now)
    /\ batch' = [frames |-> frames, tracking |-> tracked, produced |-> now]
    /\ shown' = [c \in Cameras |-> IF c \in Shot(frames) THEN frames[c].depth ELSE shown[c]]
    /\ UNCHANGED now

\* The frame of every camera is any it may contribute. (That the batch changes
\* follows from Delivers; first, it spares TLC the frames in every other step.)
SourceNext ==
    \/ Passes
    \/ /\ batch' # batch
       /\ \E frames \in [Cameras -> UNION {FramesOf(c, now) : c \in Cameras}] :
            \E tracked \in BOOLEAN : Delivers(frames, tracked)

SourceSpec == SourceInit /\ [][SourceNext]_sourceVars
==============================================================================
