---------------------------- MODULE GimbalControl ----------------------------
(***************************************************************************)
(* Simulated gimbal control from the clutch to the axis: the XR thread and  *)
(* the worker of the headset, one connection, and the session with its      *)
(* watchdog on the host.  Messages may be delayed without bound, a          *)
(* connection may break at any point and take the message with it, and the  *)
(* two sides notice that independently.  Both clocks run at the same rate;  *)
(* no stamp of one is compared with a stamp of the other.                   *)
(***************************************************************************)
EXTENDS GimbalSession

CONSTANTS FrameGap, IntentAge, SendPeriod, RpcDeadline, MaxStarts,
  ClientLease      \* the lease_ms of every command of this client, 100

ASSUME ClientAssumption ==
  /\ ClientLease \in 1..MaxLease
  /\ FrameGap \in Nat /\ IntentAge \in Nat /\ SendPeriod \in Nat \ {0}
  /\ RpcDeadline \in Nat /\ MaxStarts \in Nat

VARIABLES
  aim, xr, starts, state, latest, resetRequested, stop, worker, taken, nextSend,
  waiting, policy, link, request, reply,
  granted,         \* history: when armed, the sample time of the intent behind the lease
  letGo,           \* history: a hold was submitted after the worker's last copy
  regrip,          \* history: a hold was submitted after the intent behind the last lease
  pulled,          \* history: the trigger was seen released in this session
  flagged          \* history: when stop was raised last, if it still is

INSTANCE GimbalClient

historyVars == <<granted, letGo, regrip, pulled, flagged>>
headsetVars == <<aim, xr, starts, state, latest, resetRequested, stop, worker, taken,
                 nextSend, waiting, policy>>
controlVars == <<sessionVars, headsetVars, link, request, reply, historyVars>>

ControlInit ==
  /\ SessionInit /\ ClientInit
  /\ granted = 0 /\ letGo = FALSE /\ regrip = TRUE /\ pulled = FALSE
  /\ flagged = NoTime

-----------------------------------------------------------------------------
\* The headset's steps.
HoldSubmitted == latest' # latest /\ latest'.operation = "hold"

\* Frames and menus count while there is a connection: without one the worker
\* cannot send, and Start resets what they would have left behind.
Headset ==
  /\ \/ link \in {"opening", "open"} /\ XrStep
     \/ link \in {"none", "shut"} /\ (Start \/ StopBegin \/ StopNotify \/ StopClose \/ StopEnd)
     \/ WorkerStep
  /\ UNCHANGED now

ClientStep ==
  /\ Headset
  /\ letGo' = (~(worker = "wait" /\ worker' = "send") /\ (letGo \/ HoldSubmitted))
  /\ regrip' = (regrip \/ HoldSubmitted)
  /\ pulled' = (pulled \/ (aim.needsRelease /\ ~aim'.needsRelease))
  /\ flagged' = IF ~stop' THEN NoTime ELSE IF stop THEN flagged ELSE now
  /\ UNCHANGED <<sessionVars, granted>>

\* The host's steps.
FeedbackOf(d, s, t) ==
  [session |-> s.nonce, challenge |-> s.challenge, ack |-> s.sequence,
   serverNs |-> t, armed |-> s.armed, tracked |-> d.tracked, received |-> NoTime]

\* The accepted connection gets a session and its first feedback.
Admit ==
  /\ worker = "open" /\ link = "opening"
  /\ OpenSession
  /\ link' = "open"
  /\ reply' = FeedbackOf(driver', session', now)
  /\ pulled' = FALSE
  /\ UNCHANGED <<headsetVars, request, granted, letGo, regrip, flagged>>

\* The slot still belongs to a connection that the host has not given up.
Refuse ==
  /\ worker = "open" /\ link = "opening" /\ session.live
  /\ link' = "shut"
  /\ UNCHANGED <<sessionVars, headsetVars, request, reply, historyVars>>

ToCommand(m) ==
  [wellFormed |-> TRUE, session |-> m.session, challenge |-> m.challenge,
   sequence |-> m.sequence, clientNs |-> m.clientNs, kind |-> m.kind,
   clutch |-> m.kind = "aim", pan |-> PanMax, lease |-> ClientLease]

\* The command may also be one that a broken connection had still delivered.
Serve ==
  /\ request # None
  /\ LET c == ToCommand(request)
         r == HandleResult(c)
     IN  /\ HandleCommand(c)
         /\ link' = IF r.raised THEN "shut" ELSE link
         /\ reply' = IF r.raised \/ link # "open" THEN None
                     ELSE FeedbackOf(r.driver, r.session, now)
         /\ granted' = IF r.session.armed THEN request.sampled ELSE 0
         /\ regrip' = IF r.session.armed THEN letGo ELSE regrip
  /\ request' = None
  /\ UNCHANGED <<headsetVars, letGo, pulled, flagged>>

\* The session's thread reads the end of a stream that is no longer open.
Drop ==
  /\ session.live /\ link # "open"
  /\ EndSession
  /\ request' = None
  /\ granted' = 0
  /\ UNCHANGED <<headsetVars, link, reply, letGo, regrip, pulled, flagged>>

LoseLink ==
  /\ link = "open"
  /\ link' = "shut" /\ reply' = None
  /\ request' \in {request, None}
  /\ UNCHANGED <<sessionVars, headsetVars, historyVars>>

Watchdog ==
  /\ Sample
  /\ granted' = IF session'.armed THEN granted ELSE 0
  /\ UNCHANGED <<headsetVars, link, request, reply, letGo, regrip, pulled, flagged>>

Passing ==
  /\ Elapse
  /\ UNCHANGED <<headsetVars, link, request, reply, historyVars>>

HostStep == Admit \/ Refuse \/ Serve \/ Drop \/ LoseLink \/ Watchdog \/ Passing

ControlNext == ClientStep \/ HostStep

ControlSpec == ControlInit /\ [][ControlNext]_controlVars

-----------------------------------------------------------------------------
(***************************************************************************)
(* Once the hand lets go the axis stops in bounded time, whatever the       *)
(* network does: a lease ends at most IntentAge + ChallengeAge + the lease  *)
(* after the frame whose intent it came from (the age checks of             *)
(* GimbalClientPolicy::Command and of GimbalSession.handle together).       *)
(***************************************************************************)
LeaseBoundedByHand ==
  session.armed => session.expiry <= granted + IntentAge + ChallengeAge + ClientLease

(***************************************************************************)
(* The two protocol machines agree: the client never turns down an answer   *)
(* of this server, and the server never refuses a command of this client,   *)
(* through every delay, broken connection, map reset and restart.           *)
(***************************************************************************)
NoFalseRejection ==
  /\ state.error # "protocol"
  /\ request # None /\ session.live => ~HandleResult(ToCommand(request)).raised

(***************************************************************************)
(* While no command is under way and the client believes that it must       *)
(* release first, the axis is not driven.                                   *)
(***************************************************************************)
LockedClientIsIdle ==
  worker \in {"wait", "send"} /\ link = "open" /\ policy.needsRelease => ~session.armed

(***************************************************************************)
(* A session drives the axis only if the trigger was let go and pulled      *)
(* again since that session began: a hand that stays closed through a       *)
(* disconnect, a restart or a menu never resumes by itself.                 *)
(***************************************************************************)
EverySessionNeedsTheHand == session.armed => pulled

(***************************************************************************)
(* A lease that has run out, or was lost to a fault or a reset, is followed *)
(* by another only after the headset submitted a hold later than the intent *)
(* behind the last lease.                                                   *)
(***************************************************************************)
RearmNeedsLettingGo ==
  [][~session.armed /\ session'.armed => regrip]_controlVars

(***************************************************************************)
(* The XR thread's join in Stop waits for nothing the host does: a worker   *)
(* in a call of the network finds its connection closed, also one opened,   *)
(* or an exchange begun, between the flag and the close.  A worker that     *)
(* missed the notify is blocked for one send period at most, counted from   *)
(* the flag, and finds it then.                                             *)
(***************************************************************************)
StopNeverWaits ==
  /\ xr = "join" /\ worker \in {"open", "exchange"} => link = "shut"
  /\ worker = "wait" /\ stop => nextSend <= flagged + SendPeriod

\* The headset's two threads and the host's session agree in every state.
ControlInv ==
  /\ ClientTypeOK
  /\ NoFalseRejection
  /\ LockedClientIsIdle
  /\ StopNeverWaits
=============================================================================
