----------------------------- MODULE GimbalAim -----------------------------
(***************************************************************************)
(* GimbalAim (quest/app/src/main/cpp/gimbal_control.cpp), the XR frame's    *)
(* side of the dead man's switch, as operators on its record.  Angles are   *)
(* left out; a pose jump is an input.                                       *)
(***************************************************************************)
EXTENDS Integers

CONSTANT FrameGap     \* 150 ms: a longer gap between frames resets the aim

NoTime == 0           \* GimbalTime{}; clocks start at 1

\* clutch <= .1, below .7, and above
Triggers == {"low", "mid", "high"}

HoldAt(t) == [operation |-> "hold", clutch |-> FALSE, sampled |-> t]
AimAt(t)  == [operation |-> "aim", clutch |-> TRUE, sampled |-> t]
NoIntent  == HoldAt(NoTime)

InitialAim == [epoch |-> 0, last |-> NoTime, needsRelease |-> TRUE, clutched |-> FALSE]

\* Mutant: a reset leaves the release in force.
ResetClutch(a) == [a EXCEPT !.clutched = FALSE]

ResetAim(a) == [a EXCEPT !.needsRelease = TRUE, !.clutched = FALSE]

\* What a frame at time t finds before it looks at the clutch.  Of the epoch only
\* the control session is kept: another part that changes has the effect of an
\* ineligible frame just before this one.
Refreshed(a, epoch, t) ==
  LET stale == epoch # a.epoch \/ (a.last # NoTime /\ t - a.last > FrameGap)
  IN  [(IF stale THEN ResetAim(a) ELSE a) EXCEPT !.epoch = epoch, !.last = t]

Update(a, i) ==
  LET b == Refreshed(a, i.epoch, i.now)
      Hold(x) == [aim |-> x, intent |-> HoldAt(i.now)]
  IN  CASE ~i.eligible -> Hold(ResetAim(b))
        [] i.eligible /\ i.trigger = "low" ->
             Hold([b EXCEPT !.needsRelease = FALSE, !.clutched = FALSE])
        [] i.eligible /\ i.trigger # "low" /\ b.needsRelease -> Hold(b)
        [] i.eligible /\ i.trigger = "mid" /\ ~b.needsRelease ->
             Hold([b EXCEPT !.clutched = FALSE])
        [] i.eligible /\ i.trigger = "high" /\ ~b.needsRelease /\ b.clutched /\ i.jump ->
             Hold(ResetAim(b))
        [] OTHER -> [aim |-> [b EXCEPT !.clutched = TRUE], intent |-> AimAt(i.now)]
=============================================================================
