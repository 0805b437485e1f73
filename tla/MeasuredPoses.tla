---------------------------- MODULE MeasuredPoses ----------------------------
(***************************************************************************)
(* pose_history.py: what a bounded history of measured poses can answer.   *)
(* A history is a sequence of samples [stamp, tracked]; a lost sample      *)
(* carries no pose. The pose of an answer is named by the stamps of the    *)
(* samples it is interpolated from, so nothing is said of its numbers.     *)
(***************************************************************************)
EXTENDS Naturals, Sequences, SequencesExt

CONSTANTS Capacity,      \* samples kept
          MaxGap,        \* longest interval a pose is interpolated over
          GimbalCamera   \* the camera carried by the pan/tilt unit

ASSUME HistorySizeAssumption == Capacity \in Nat /\ Capacity >= 2 /\ MaxGap \in Nat \ {0}

\* What _append lets into a history.
InOrder(history) ==
    /\ history \in Seq([stamp : Nat, tracked : BOOLEAN])
    /\ \A i, j \in 1 .. Len(history) : i < j => history[i].stamp < history[j].stamp

\* _append accepts strictly increasing stamps only.
Appends(history, stamp) == history # <<>> => Last(history).stamp < stamp

\* Mutant: the sample before the newest is dropped instead of the oldest.
ExtendedHole(history, stamp, tracked) ==
    LET grown == Append(history, [stamp |-> stamp, tracked |-> tracked]) IN
    IF Len(grown) > Capacity THEN RemoveAt(grown, Len(grown) - 1) ELSE grown

\* _append: a full history forgets its oldest sample.
Extended(history, stamp, tracked) ==
    LET grown == Append(history, [stamp |-> stamp, tracked |-> tracked]) IN
    IF Len(grown) > Capacity THEN Tail(grown) ELSE grown

\* _at: the indices of the samples that bracket a time; one, when it was sampled.
Around(history, t) ==
    {i \in DOMAIN history :
        \/ history[i].stamp = t
        \/ /\ \A j \in DOMAIN history : history[j].stamp # t
           /\ \/ i < Len(history) /\ history[i].stamp < t /\ t < history[i + 1].stamp
              \/ i > 1 /\ history[i - 1].stamp < t /\ t < history[i].stamp}

Stamps(history, indices) == {history[i].stamp : i \in indices}

\* _at: the samples the pose of a time is computed from, none when it is refused:
\* outside the history, at or next to a loss, or across too long a gap.
Support(history, t) ==
    LET around == Around(history, t) IN
    IF /\ \A i \in around : history[i].tracked
       /\ \A i, j \in around : history[j].stamp - history[i].stamp <= MaxGap
    THEN Stamps(history, around) ELSE {}

Measured(history, t) == Support(history, t) # {}

\* _window: both ends and every sample between them are measured, and no two
\* neighbours are further apart than a pose may be interpolated over.
WindowMeasured(history, start, end) ==
    LET knots == {start, end} \union
                 {t \in Stamps(history, DOMAIN history) : start < t /\ t < end} IN
    /\ \A t \in knots : Measured(history, t)
    /\ \A a, b \in knots :
         a < b /\ ~(\E t \in knots : a < t /\ t < b) => b - a <= MaxGap

\* RigPoseProvider: every camera rides on the robot, one of them on the gimbal
\* too. A window must be covered by both as a single exposure must.
Posed(robot, gimbal, camera, t) ==
    Measured(robot, t) /\ (camera = GimbalCamera => Measured(gimbal, t))

MotionMeasured(robot, gimbal, camera, start, end) ==
    /\ WindowMeasured(robot, start, end)
    /\ camera = GimbalCamera => WindowMeasured(gimbal, start, end)
==============================================================================
