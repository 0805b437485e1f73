---------------------------- MODULE GimbalClient ----------------------------
(***************************************************************************)
(* The headset's side of simulated gimbal control: GimbalClientPolicy and   *)
(* the worker of GimbalControlClient (gimbal_client.cpp), the XR thread     *)
(* that submits intents and starts and stops it (remote_scene_app.cpp), and *)
(* the connection object below it (GimbalControlConnection.java).  Whoever  *)
(* answers takes request and sets reply.                                    *)
(***************************************************************************)
EXTENDS GimbalAim

CONSTANTS
  IntentAge,     \* 100 ms: the age of a fresh intent, feedback or reset request
  SendPeriod,    \* 50 ms between two commands
  RpcDeadline,   \* 250 ms for one exchange
  MaxStarts      \* bound: connections

VARIABLES
  now,             \* steady_clock
  aim,             \* full_->gimbal_aim
  xr,              \* the XR thread: "frame", or where it is inside Stop
  starts,
  state,           \* GimbalClientSnapshot, under the mutex
  latest,          \* the intent submitted last, under the mutex
  resetRequested,  \* under the mutex
  stop,
  worker,          \* where Run is
  taken,           \* what the worker copied under the mutex
  nextSend,
  waiting,         \* inside wait_until: "no", "tested" (the flag), or "blocked"
  policy,
  link,            \* "none", "opening", "open", "shut"
  request, reply   \* the message under way, or None

workerVars == <<worker, taken, nextSend, waiting, policy>>
wireVars   == <<link, request, reply>>
clientVars == <<aim, xr, starts, state, latest, resetRequested, stop, workerVars, wireVars>>

None == [none |-> TRUE]

NoFeedback ==
  [session |-> 0, challenge |-> 0, ack |-> 0, serverNs |-> 0, armed |-> FALSE,
   tracked |-> FALSE, received |-> NoTime]

NoState == [running |-> FALSE, connected |-> FALSE, feedback |-> NoFeedback, error |-> "none"]

InitialPolicy ==
  [feedback |-> NoFeedback, initialized |-> FALSE, pending |-> FALSE,
   needsRelease |-> TRUE, pendingRelease |-> FALSE, pendingOperation |-> "hold",
   sequence |-> 0, clientNs |-> 0]

NothingTaken == [intent |-> NoIntent, reset |-> FALSE]

ClientInit ==
  /\ aim = InitialAim /\ xr = "frame" /\ starts = 0
  /\ state = NoState /\ latest = NoIntent /\ resetRequested = NoTime
  /\ stop = TRUE /\ worker = "none"
  /\ taken = NothingTaken /\ nextSend = NoTime /\ waiting = "no"
  /\ policy = InitialPolicy
  /\ link = "none" /\ request = None /\ reply = None

Within100(stamp, t) == stamp # NoTime /\ t - stamp <= IntentAge

-----------------------------------------------------------------------------
\* GimbalClientPolicy.

\* The replies Accept turns down; the exception then ends the worker.
Rejects(p, f, received) ==
  \/ f.armed /\ ~f.tracked
  \/ ~p.initialized /\ (f.ack # 0 \/ f.armed)
  \/ p.initialized /\
       \/ ~p.pending \/ f.ack # p.sequence
       \/ f.session # p.feedback.session
       \/ f.challenge = p.feedback.challenge
       \/ f.serverNs < p.feedback.serverNs
       \/ received < p.feedback.received
       \/ p.pendingOperation # "aim" /\ f.armed

\* Mutant: any answered aim asks for a release.
AcceptLocks(p, f, received) ==
  LET released == p.initialized /\ p.pendingRelease
  IN  [p EXCEPT !.feedback = [f EXCEPT !.received = received],
                !.initialized = TRUE, !.pending = FALSE,
                !.needsRelease = ~released /\ (@ \/ (p.initialized /\ p.pendingOperation = "aim"))]

Accept(p, f, received) ==
  LET unarmed  == p.pendingOperation = "aim" /\ ~f.armed
      released == p.initialized /\ p.pendingRelease
  IN  [p EXCEPT !.feedback = [f EXCEPT !.received = received],
                !.initialized = TRUE, !.pending = FALSE,
                !.needsRelease = ~released /\ (@ \/ (p.initialized /\ unarmed))]

\* Whether Command throws.
OutOfSequence(p, t) == ~p.initialized \/ p.pending \/ t <= p.clientNs

\* Mutant: an intent never grows old.
OperationAnyAge(p, x, t) ==
  LET answerable == Within100(p.feedback.received, t)
  IN  IF x.reset /\ answerable THEN "resetMap"
      ELSE IF x.intent.operation = "aim" /\ answerable /\ ~p.needsRelease
                /\ p.feedback.tracked THEN "aim"
      ELSE "hold"

\* The operation that goes out for the copied intent and reset request.
Operation(p, x, t) ==
  LET answerable == Within100(p.feedback.received, t)
      aims == x.intent.operation = "aim" /\ Within100(x.intent.sampled, t)
  IN  IF x.reset /\ answerable THEN "resetMap"
      ELSE IF aims /\ answerable /\ ~p.needsRelease /\ p.feedback.tracked THEN "aim"
      ELSE "hold"

Command(p, x, t) ==
  LET kind    == Operation(p, x, t)
      release == Within100(x.intent.sampled, t) /\ x.intent.operation = "hold"
  IN  [p EXCEPT !.needsRelease = @ \/ kind = "resetMap" \/ (kind = "hold" /\ ~release),
                !.pendingRelease = kind = "hold" /\ release /\ Within100(p.feedback.received, t),
                !.pendingOperation = kind,
                !.clientNs = t, !.pending = TRUE, !.sequence = @ + 1]

\* The frame on the wire; sampled is not sent, it dates the intent behind it.
Encoded(p, x, t) ==
  [session |-> p.feedback.session, challenge |-> p.feedback.challenge,
   sequence |-> p.sequence + 1, clientNs |-> t, kind |-> Operation(p, x, t),
   sampled |-> x.intent.sampled]

-----------------------------------------------------------------------------
\* The XR thread.
Submit(intent) == latest' = IF state.running THEN intent ELSE latest

\* UpdateGimbalControl: ready is the part of eligibility the client does not know.
Frame(ready, trigger, jump) ==
  /\ xr = "frame"
  /\ LET fresh == /\ state.connected /\ state.feedback.received # NoTime
                  /\ now - state.feedback.received <= FrameGap
         r == Update(aim, [now |-> now, epoch |-> state.feedback.session,
                           eligible |-> ready /\ fresh /\ state.feedback.tracked,
                           trigger |-> trigger, jump |-> jump])
     IN  aim' = r.aim /\ Submit(r.intent)
  /\ UNCHANGED <<xr, starts, state, resetRequested, stop, workerVars, wireVars>>

\* Any menu command for the camera or the scene first holds.
MenuHold == aim' = ResetAim(aim) /\ Submit(HoldAt(now))

MenuMode ==
  /\ xr = "frame"
  /\ MenuHold
  /\ UNCHANGED <<xr, starts, state, resetRequested, stop, workerVars, wireVars>>

Start ==
  /\ xr = "frame" /\ ~state.running /\ worker \in {"none", "done"}
  /\ starts < MaxStarts
  /\ starts' = starts + 1
  /\ aim' = ResetAim(aim)
  /\ state' = [NoState EXCEPT !.running = TRUE]
  /\ latest' = NoIntent /\ resetRequested' = NoTime /\ stop' = FALSE
  /\ worker' = "open" /\ policy' = InitialPolicy /\ link' = "opening" /\ reply' = None
  /\ UNCHANGED <<xr, taken, nextSend, waiting, request>>

\* Stop raises the flag, notifies, closes the Java connection and joins the worker,
\* and holds the mutex for none of it.  Bound: the Stop that no Start follows is
\* left out.
StopBegin ==
  /\ xr = "frame" /\ starts < MaxStarts
  /\ MenuHold
  /\ xr' = "notify" /\ stop' = TRUE
  /\ UNCHANGED <<starts, state, resetRequested, workerVars, wireVars>>

\* A notify reaches a worker that is blocked, and no other.
StopNotify ==
  /\ xr = "notify"
  /\ xr' = "close"
  /\ waiting' = IF waiting = "blocked" THEN "no" ELSE waiting
  /\ UNCHANGED <<aim, starts, state, latest, resetRequested, stop, worker, taken,
                 nextSend, policy, wireVars>>

\* Mutant: the connection is left to the worker.
StopJoinsAtOnce ==
  /\ xr = "close"
  /\ xr' = "join"
  /\ UNCHANGED <<aim, starts, state, latest, resetRequested, stop, workerVars, wireVars>>

StopClose ==
  /\ xr = "close"
  /\ xr' = "join"
  /\ link' = IF link = "none" THEN link ELSE "shut"
  /\ UNCHANGED <<aim, starts, state, latest, resetRequested, stop, workerVars, request,
                 reply>>

StopEnd ==
  /\ xr = "join" /\ worker \in {"none", "done"}
  /\ xr' = "frame" /\ worker' = "none"
  /\ state' = NoState /\ latest' = NoIntent /\ resetRequested' = NoTime
  /\ UNCHANGED <<aim, starts, stop, taken, nextSend, waiting, policy, wireVars>>

RequestMapReset ==
  /\ xr = "frame"
  /\ state.connected /\ Within100(state.feedback.received, now)
  /\ aim' = ResetAim(aim)
  /\ resetRequested' = now /\ latest' = NoIntent
  /\ UNCHANGED <<xr, starts, state, stop, workerVars, wireVars>>

-----------------------------------------------------------------------------
\* The worker, Run.

xrVars == <<aim, xr, starts, stop>>

\* The end of the try block, with its locals.
Leave(error) ==
  /\ worker' = "exit"
  /\ state' = IF stop THEN state ELSE [state EXCEPT !.error = error]
  /\ taken' = NothingTaken /\ nextSend' = NoTime /\ waiting' = "no"
  /\ policy' = InitialPolicy

\* open() has returned the first feedback.
Opened ==
  /\ worker = "open" /\ reply # None /\ link = "open"
  /\ reply' = None
  /\ IF Rejects(policy, reply, now) \/ stop THEN Leave("protocol")
     ELSE /\ policy' = Accept(policy, reply, now)
          /\ state' = [state EXCEPT !.connected = TRUE, !.error = "none",
                                    !.feedback = policy'.feedback]
          /\ worker' = "wait" /\ nextSend' = now
          /\ UNCHANGED <<taken, waiting>>
  /\ UNCHANGED <<xrVars, latest, resetRequested, link, request>>

\* open() may fail at any time: configuration, network, TLS, token, deadline.
OpenFails ==
  /\ worker = "open"
  /\ Leave("transport")
  /\ link' = "shut"
  /\ UNCHANGED <<xrVars, latest, resetRequested, request, reply>>

\* wait_until tests the flag before it blocks, under a mutex that Stop does not
\* take: a notify between the two is lost.
TestFlag ==
  /\ worker = "wait" /\ waiting = "no" /\ ~stop
  /\ waiting' = "tested"
  /\ UNCHANGED <<xrVars, state, latest, resetRequested, worker, taken, nextSend, policy,
                 wireVars>>

Block ==
  /\ waiting = "tested"
  /\ waiting' = "blocked"
  /\ UNCHANGED <<xrVars, state, latest, resetRequested, worker, taken, nextSend, policy,
                 wireVars>>

\* A wakeup without a notify only leads to another test.
WakeSpuriously ==
  /\ waiting = "blocked"
  /\ waiting' = "no"
  /\ UNCHANGED <<xrVars, state, latest, resetRequested, worker, taken, nextSend, policy,
                 wireVars>>

\* At nextSend wait_until tests the flag again.  The copy under the mutex takes the
\* reset request, stale or not.
Take ==
  /\ worker = "wait" /\ waiting = "blocked" /\ ~stop /\ now >= nextSend
  /\ taken' = [intent |-> latest, reset |-> Within100(resetRequested, now)]
  /\ resetRequested' = NoTime
  /\ worker' = "send" /\ waiting' = "no"
  /\ UNCHANGED <<xrVars, state, latest, nextSend, policy, wireVars>>

\* A blocked worker sees the flag at nextSend, any other at its next test.
Cancelled ==
  /\ worker \in {"wait", "send"} /\ stop
  /\ waiting = "no" \/ (waiting = "blocked" /\ now >= nextSend)
  /\ Leave("none")
  /\ UNCHANGED <<xrVars, latest, resetRequested, wireVars>>

Send ==
  /\ worker = "send" /\ ~stop
  /\ IF OutOfSequence(policy, now) THEN Leave("protocol") /\ UNCHANGED request
     ELSE /\ policy' = Command(policy, taken, now)
          /\ request' = IF link = "open" THEN Encoded(policy, taken, now) ELSE request
          /\ worker' = "exchange" /\ nextSend' = now + SendPeriod
          /\ taken' = NothingTaken
          /\ UNCHANGED <<state, waiting>>
  /\ UNCHANGED <<xrVars, latest, resetRequested, link, reply>>

\* exchange() returns in time and the connection was not closed meanwhile.
Receive ==
  /\ worker = "exchange" /\ reply # None
  /\ link = "open" /\ now - policy.clientNs <= RpcDeadline
  /\ reply' = None
  /\ IF Rejects(policy, reply, now) \/ stop THEN Leave("protocol")
     ELSE /\ policy' = Accept(policy, reply, now)
          /\ state' = [state EXCEPT !.feedback = policy'.feedback]
          /\ worker' = "wait"
          /\ UNCHANGED <<taken, nextSend, waiting>>
  /\ UNCHANGED <<xrVars, latest, resetRequested, link, request>>

ExchangeFails ==
  /\ worker = "exchange"
  /\ link # "open" \/ now - policy.clientNs >= RpcDeadline
  /\ Leave("transport")
  /\ link' = "shut"
  /\ UNCHANGED <<xrVars, latest, resetRequested, request, reply>>

Exit ==
  /\ worker = "exit"
  /\ worker' = "done" /\ link' = "shut"
  /\ state' = [state EXCEPT !.running = FALSE, !.connected = FALSE]
  /\ latest' = NoIntent /\ resetRequested' = NoTime
  /\ UNCHANGED <<xrVars, taken, nextSend, waiting, policy, request, reply>>

WorkerStep ==
  \/ Opened \/ OpenFails \/ TestFlag \/ Block \/ WakeSpuriously \/ Take \/ Cancelled
  \/ Send \/ Receive \/ ExchangeFails \/ Exit

\* A frame that is not ready ignores the trigger, and only a pulled one jumps.
XrStep ==
  \/ Frame(FALSE, "low", FALSE) \/ Frame(TRUE, "high", TRUE)
  \/ \E trigger \in Triggers : Frame(TRUE, trigger, FALSE)
  \/ MenuMode \/ Start \/ StopBegin \/ StopNotify \/ StopClose \/ StopEnd
  \/ RequestMapReset
-----------------------------------------------------------------------------
Intents == [operation: {"hold", "aim"}, clutch: BOOLEAN, sampled: 0..now]

Feedbacks ==
  [session: Nat, challenge: Nat, ack: Nat, serverNs: Nat, armed: BOOLEAN,
   tracked: BOOLEAN, received: 0..now]

\* Every variable has its type, and no stamp is ahead of the clock.
ClientTypeOK ==
  /\ aim \in [epoch: Nat, last: 0..now, needsRelease: BOOLEAN, clutched: BOOLEAN]
  /\ xr \in {"frame", "notify", "close", "join"} /\ starts \in 0..MaxStarts
  /\ state \in [running: BOOLEAN, connected: BOOLEAN, feedback: Feedbacks,
                error: {"none", "transport", "protocol"}]
  /\ latest \in Intents /\ resetRequested \in 0..now /\ stop \in BOOLEAN
  /\ worker \in {"none", "open", "wait", "send", "exchange", "exit", "done"}
  /\ taken \in [intent: Intents, reset: BOOLEAN] /\ nextSend \in Nat
  /\ waiting \in {"no", "tested", "blocked"} /\ (waiting # "no" => worker = "wait")
  /\ policy \in [feedback: Feedbacks, initialized: BOOLEAN, pending: BOOLEAN,
                 needsRelease: BOOLEAN, pendingRelease: BOOLEAN,
                 pendingOperation: {"hold", "aim", "resetMap"}, sequence: Nat,
                 clientNs: 0..now]
  /\ link \in {"none", "opening", "open", "shut"}
  /\ request # None => request.clientNs \in 1..now
  /\ reply # None => reply \in Feedbacks
=============================================================================
