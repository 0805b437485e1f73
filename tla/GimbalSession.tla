--------------------------- MODULE GimbalSession ---------------------------
(***************************************************************************)
(* One owner of a GimbalSession (tools/remote_scene/gimbal_control.py) and  *)
(* the driver below it.  Every operation reads the clock and runs to its    *)
(* end under the service lock, so each is one step; an operation that the   *)
(* code leaves by an exception keeps the changes made before the raise.     *)
(***************************************************************************)
EXTENDS SimulatedPanTilt

CONSTANTS
  MaxLease,        \* MAX_LEASE_MS
  ChallengeAge,    \* CHALLENGE_NS
  TrackingLoss,    \* whether the driver's set_tracking is ever called
  Inputs,          \* the frames a client may send, a set of Commands
  MaxTime,         \* bound: the clock stops here
  MaxSessions      \* bound: connections

ASSUME SessionAssumption ==
  /\ MaxLease \in Nat \ {0} /\ ChallengeAge \in Nat /\ TrackingLoss \in BOOLEAN
  /\ MaxTime \in Nat \ {0} /\ MaxSessions \in Nat

\* MAX_LEASE_MS = 200 is below the driver's command_timeout_ns = 250 ms.
ASSUME LeaseWithinTimeout == MaxLease <= CommandTimeout

VARIABLES
  now,             \* time.monotonic_ns() under the gate
  driver,
  session,         \* the GimbalSession, live or None
  challenges,      \* challenges drawn so far; a random value is the next number
  sessions,        \* nonces drawn so far
  clearRequested   \* the Event that reset_map sets

sessionVars == <<now, driver, session, challenges, sessions, clearRequested>>

Kinds == {"hold", "aim", "resetMap"}

\* What unpack_command may return; a frame it refuses has ~wellFormed.
Commands ==
  [wellFormed: BOOLEAN, session: Nat, challenge: Nat, sequence: Nat,
   clientNs: Nat, kind: Kinds, clutch: BOOLEAN, pan: Int, lease: 1..MaxLease]

ASSUME InputsAssumption == \A c \in Inputs : c \in Commands

SessionStates ==
  [live: BOOLEAN, nonce: Nat, sequence: Nat, clientNs: Nat, challenge: Nat,
   issued: Nat, expiry: Nat, armed: BOOLEAN, needsRelease: BOOLEAN]

\* __init__, after driver.hold.
NewSession(nonce, fresh, t) ==
  [live |-> TRUE, nonce |-> nonce, sequence |-> 0, clientNs |-> 0,
   challenge |-> fresh, issued |-> t, expiry |-> 0, armed |-> FALSE,
   needsRelease |-> TRUE]

NoSession == [NewSession(0, 0, 0) EXCEPT !.live = FALSE]

-----------------------------------------------------------------------------
\* The operations, as functions of the driver d, the session s and the time t.

Done(d, s)   == [driver |-> d, session |-> s, raised |-> FALSE]
Raised(d, s) == [driver |-> d, session |-> s, raised |-> TRUE]

Locked(s)   == [s EXCEPT !.armed = FALSE, !.needsRelease = TRUE]
Released(s) == [s EXCEPT !.armed = FALSE, !.needsRelease = FALSE]

\* Mutant: an expired lease holds the axis when the tick comes.
TickLate(d, s, t) ==
  IF Reversed(d, t) THEN Raised(d, s)
  ELSE IF s.armed /\ t >= s.expiry THEN Done(Hold(d, t), Locked(s))
  ELSE Done(Advance(d, t), s)

\* tick: an expired lease drives the axis up to the deadline and no further.
Tick(d, s, t) ==
  IF s.armed /\ t >= s.expiry
  THEN IF Reversed(d, s.expiry) THEN Raised(d, s)
       ELSE Done(Advance(Hold(d, s.expiry), t), Locked(s))
  ELSE IF Reversed(d, t) THEN Raised(d, s)
       ELSE Done(Advance(d, t), s)

Close(d, s, t) ==
  LET k == Tick(d, s, t)
  IN  IF k.raised THEN k ELSE Done(Hold(k.driver, t), Locked(k.session))

\* The frames handle refuses: it closes the session, then raises.
Invalid(s, c) ==
  \/ ~c.wellFormed
  \/ c.session # s.nonce
  \/ c.sequence <= s.sequence
  \/ c.clientNs <= s.clientNs

Releases(c) == c.kind = "hold" \/ (c.kind = "aim" /\ ~c.clutch)

\* Mutant: any challenge will do while the last one is fresh.
AnswersAnyChallenge(s, c, t) == t - s.issued <= ChallengeAge

Answers(s, c, t) == c.challenge = s.challenge /\ t - s.issued <= ChallengeAge

\* Mutant: an aim needs no release.
ExecuteLocked(d, s, c, t) ==
  IF Releases(c) THEN Done(Hold(d, t), Released(s))
  ELSE IF ~Answers(s, c, t) \/ c.kind = "resetMap" THEN Done(Hold(d, t), Locked(s))
  ELSE IF ~InLimits(c.pan)
  THEN LET z == Close(d, s, t) IN Raised(z.driver, z.session)
  ELSE IF Refused(d, c.pan, t) THEN Raised(d, s)
  ELSE Done(Target(d, c.pan, t), [s EXCEPT !.expiry = t + c.lease, !.armed = TRUE])

\* The effect of an accepted command on a session that has just ticked.
Execute(d, s, c, t) ==
  CASE Releases(c) -> Done(Hold(d, t), Released(s))
    [] ~Releases(c) /\ (~Answers(s, c, t) \/ c.kind = "resetMap") ->
         Done(Hold(d, t), Locked(s))
    [] ~Releases(c) /\ Answers(s, c, t) /\ c.kind = "aim" /\ s.needsRelease ->
         Done(d, s)
    [] OTHER ->
         IF ~InLimits(c.pan)
         THEN LET z == Close(d, s, t) IN Raised(z.driver, z.session)
         ELSE IF Refused(d, c.pan, t) THEN Raised(d, s)
         ELSE Done(Target(d, c.pan, t),
                   [s EXCEPT !.expiry = t + c.lease, !.armed = TRUE])

\* Mutant: the reply repeats the challenge.
ReplyKeepsChallenge(r, t, fresh) ==
  LET k == Tick(r.driver, r.session, t)
  IN  IF r.raised \/ k.raised THEN Raised(r.driver, r.session)
      ELSE Done(k.driver, k.session)

\* reply(new_challenge=True), unless the command raised.
Reply(r, t, fresh) ==
  LET k == Tick(r.driver, r.session, t)
  IN  IF r.raised \/ k.raised THEN Raised(r.driver, r.session)
      ELSE Done(k.driver, [k.session EXCEPT !.challenge = fresh, !.issued = t])

Handle(d, s, c, t, fresh) ==
  LET k == Tick(d, s, t)
      z == Close(k.driver, k.session, t)
      accepted == [k.session EXCEPT !.sequence = c.sequence, !.clientNs = c.clientNs]
  IN  IF k.raised THEN k
      ELSE IF Invalid(s, c) THEN Raised(z.driver, z.session)
      ELSE Reply(Execute(k.driver, accepted, c, t), t, fresh)

\* Whether handle reaches reset_map().
ResetsMap(s, c, t) ==
  ~Invalid(s, c) /\ c.kind = "resetMap" /\ Answers(s, c, t)

-----------------------------------------------------------------------------
\* The steps.  driver.time never passes now, so the driver calls made without
\* a tick (a hold in __init__, an advance in sample) do not raise.

Commit(r) == driver' = r.driver /\ session' = r.session

SessionInit ==
  /\ now = 1
  /\ driver = InitialDriver(1)
  /\ session = NoSession
  /\ challenges = 0
  /\ sessions = 0
  /\ clearRequested = FALSE

Elapse ==
  /\ now < MaxTime
  /\ now' = now + 1
  /\ UNCHANGED <<driver, session, challenges, sessions, clearRequested>>

OpenSession ==
  /\ ~session.live
  /\ sessions < MaxSessions
  /\ driver' = Hold(driver, now)
  /\ session' = NewSession(sessions + 1, challenges + 1, now)
  /\ sessions' = sessions + 1
  /\ challenges' = challenges + 1
  /\ UNCHANGED <<now, clearRequested>>

\* Mutant: sample forgets the session.
SampleDriverOnly == Done(Advance(driver, now), session)

\* What sample does: the watchdog and the publisher's camera source call it.
SampleResult ==
  IF session.live THEN Tick(driver, session, now)
  ELSE Done(Advance(driver, now), session)

Sample ==
  /\ Commit(SampleResult)
  /\ UNCHANGED <<now, challenges, sessions, clearRequested>>

HandleResult(c) == Handle(driver, session, c, now, challenges + 1)

HandleCommand(c) ==
  /\ session.live
  /\ LET r == HandleResult(c)
     IN  /\ Commit(r)
         /\ challenges' = IF r.raised THEN challenges ELSE challenges + 1
  /\ clearRequested' = (clearRequested \/
       (ResetsMap(session, c, now) /\ ~Tick(driver, session, now).raised))
  /\ UNCHANGED <<now, sessions>>

CloseSession ==
  /\ session.live
  /\ Commit(Close(driver, session, now))
  /\ UNCHANGED <<now, challenges, sessions, clearRequested>>

\* Mutant: the session is dropped without a close.
EndSessionUnclosed ==
  /\ session.live
  /\ Commit(Done(driver, NoSession))
  /\ UNCHANGED <<now, challenges, sessions, clearRequested>>

\* The owner drops the session; a close that raises leaves it in place.
EndSession ==
  /\ session.live
  /\ LET r == Close(driver, session, now)
     IN  Commit(IF r.raised THEN r ELSE Done(r.driver, NoSession))
  /\ UNCHANGED <<now, challenges, sessions, clearRequested>>

\* set_tracking takes the driver's own lock, never the gate: it may come at
\* any time, also after a deadline that no tick has seen yet.
TrackingChange(tracked) ==
  /\ TrackingLoss
  /\ tracked # driver.tracked
  /\ driver.time < now
  /\ driver' = SetTracking(driver, tracked, now)
  /\ UNCHANGED <<now, session, challenges, sessions, clearRequested>>

\* The camera source takes the clear request (gimbal_demo.py service_clear).
ServiceClear ==
  /\ clearRequested
  /\ clearRequested' = FALSE
  /\ UNCHANGED <<now, driver, session, challenges, sessions>>

SessionNext ==
  \/ Elapse
  \/ OpenSession
  \/ Sample
  \/ \E c \in Inputs : HandleCommand(c)
  \/ CloseSession
  \/ EndSession
  \/ \E tracked \in BOOLEAN : TrackingChange(tracked)
  \/ ServiceClear

SessionSpec == SessionInit /\ [][SessionNext]_sessionVars
-----------------------------------------------------------------------------
\* Every variable has its type, and the stamps respect the clock.
TypeOK ==
  /\ now \in 1..MaxTime
  /\ driver \in Drivers
  /\ driver.time \in 1..now
  /\ session \in SessionStates
  /\ session.issued <= now
  /\ challenges \in Nat /\ session.challenge <= challenges
  /\ sessions \in 0..MaxSessions
  /\ clearRequested \in BOOLEAN

(***************************************************************************)
(* The axis has a standing command only under an armed session that needs   *)
(* no release: neither close, replay, an expired challenge, a map reset nor *)
(* a dropped connection leaves the driver running (hold before disarm in    *)
(* every branch of handle, tick and close).                                 *)
(***************************************************************************)
CommandOnlyWhileArmed ==
  driver.command # NoCommand =>
    /\ session.live /\ session.armed /\ ~session.needsRelease
    /\ session.expiry <= driver.command + MaxLease

(***************************************************************************)
(* The watchdog cannot fail: no step moves the driver past the deadline of  *)
(* an armed lease without the hold at that deadline, so advance(expiry) in  *)
(* tick never sees time reversed.  (It can, once set_tracking is called.)   *)
(***************************************************************************)
TickNeverRaises ==
  session.live => ~Tick(driver, session, now).raised

\* The dead man's switch that the session implements.
Lease == INSTANCE MotionLease WITH
  pan   <- driver.pan,
  time  <- driver.time,
  phase <- IF session.armed THEN "live"
           ELSE IF session.needsRelease THEN "locked" ELSE "released",
  until <- IF session.armed THEN session.expiry ELSE 0

\* Every step of the session is a step of the dead man's switch: motion stays
\* within the lease, however late the tick that ends it, and no lease follows
\* a lock without a release.
ImplementsLease == Lease!LeaseSpec

\* No session waits for an answer to this challenge any more.
Spent(n) == n <= challenges /\ ~(session.live /\ session.challenge = n)

\* The step arms the session, or moves the deadline of an armed one.
Leases ==
  session'.armed /\ <<session'.armed, session'.expiry>> # <<session.armed, session.expiry>>

\* What a command carries that leases: it answers the challenge of its session in
\* time, newer than every command before it, and the session has recorded it.
Authorises(c) ==
  /\ c.session = session.nonce /\ c.challenge = session.challenge
  /\ now - session.issued <= ChallengeAge
  /\ c.sequence > session.sequence /\ c.clientNs > session.clientNs
  /\ session'.nonce = c.session
  /\ session'.sequence = c.sequence /\ session'.clientNs = c.clientNs

(***************************************************************************)
(* One challenge authorises at most one lease.  A step that leases handles  *)
(* a command, and every command it may be the handling of carries the       *)
(* challenge and the nonce of the session, within ChallengeAge of the       *)
(* issue, with a newer sequence number and client stamp.  The step spends   *)
(* that challenge, and a spent one is never waited for again, in this or    *)
(* any later session: no copy of the command leases a second time.          *)
(***************************************************************************)
LeaseConsumesChallenge ==
  [][/\ Leases =>
          /\ \E c \in Inputs : HandleCommand(c)
          /\ \A c \in Inputs :
               HandleCommand(c) => Authorises(c) /\ Spent(c.challenge)'
     /\ \A n \in 1..challenges : Spent(n) => Spent(n)']_sessionVars
===========================================================================
