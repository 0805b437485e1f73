------------------------ MODULE GimbalSessionProofs ------------------------
(***************************************************************************)
(* What holds of GimbalSession for every choice of limits, timeouts, lease  *)
(* lengths and client frames.                                               *)
(***************************************************************************)
EXTENDS GimbalSession, TLAPS

\* The states between two operations of the session at time t.
Settled(d, s, t) ==
  /\ d \in Drivers /\ d.time \in 1..t
  /\ s \in SessionStates /\ s.issued <= t
  /\ s.armed => s.live /\ ~s.needsRelease
  /\ d.command # NoCommand => s.armed /\ s.expiry <= d.command + MaxLease

\* An axis that moves towards a goal stays between where it was and the goal,
\* and moves at most dt.
LEMMA TowardBounds ==
  ASSUME NEW p \in Int, NEW goal \in Int, NEW dt \in Nat
  PROVE  /\ Toward(p, goal, dt) \in Int
         /\ p <= goal => p <= Toward(p, goal, dt) /\ Toward(p, goal, dt) <= goal
         /\ goal <= p => goal <= Toward(p, goal, dt) /\ Toward(p, goal, dt) <= p
         /\ Toward(p, goal, dt) - p <= dt /\ p - Toward(p, goal, dt) <= dt
  BY DEF Toward, Earlier

\* The time that drives the axis is part of the interval up to the stamp, and
\* there is none without a command.
LEMMA DriveTimeBounds ==
  ASSUME NEW d \in Drivers, NEW t \in Nat, d.time <= t
  PROVE  /\ DriveTime(d, t) \in Nat
         /\ DriveTime(d, t) <= t - d.time
         /\ d.command = NoCommand => DriveTime(d, t) = 0
  BY TimeoutAssumption DEF DriveTime, Earlier, Drivers, NoCommand

\* advance keeps the axis in its limits, keeps its command and moves it by at
\* most the time that passes, and not at all without a command.
LEMMA AdvanceSound ==
  ASSUME NEW d \in Drivers, NEW t \in Nat, d.time <= t
  PROVE  /\ Advance(d, t) \in Drivers
         /\ Advance(d, t).time = t
         /\ Advance(d, t).command = d.command
         /\ Advance(d, t).tracked = d.tracked
         /\ Advance(d, t).pan - d.pan <= t - d.time
         /\ d.pan - Advance(d, t).pan <= t - d.time
         /\ d.command = NoCommand => Advance(d, t).pan = d.pan
<1> DEFINE dt == DriveTime(d, t)
           p == Toward(d.pan, d.target, dt)
<1>1. dt \in Nat /\ dt <= t - d.time /\ (d.command = NoCommand => dt = 0)
  BY DriveTimeBounds
<1>2. /\ d.pan \in PanMin..PanMax /\ d.target \in PanMin..PanMax
      /\ d.pan \in Int /\ d.target \in Int /\ d.time \in Nat
  BY LimitsAssumption DEF Drivers
<1>3. /\ p \in PanMin..PanMax /\ p - d.pan <= dt /\ d.pan - p <= dt
  <2> HIDE DEF dt
  <2>1. /\ p \in Int
        /\ d.pan <= d.target => d.pan <= p /\ p <= d.target
        /\ d.target <= d.pan => d.target <= p /\ p <= d.pan
        /\ p - d.pan <= dt /\ d.pan - p <= dt
    BY <1>1, <1>2, TowardBounds
  <2> QED BY <2>1, <1>2, LimitsAssumption
<1>4. Advance(d, t) = [d EXCEPT !.time = t, !.pan = p]
  BY DEF Advance
<1> HIDE DEF p, dt
<1>5. /\ Advance(d, t) \in Drivers /\ Advance(d, t).time = t /\ Advance(d, t).pan = p
      /\ Advance(d, t).command = d.command /\ Advance(d, t).tracked = d.tracked
  BY <1>3, <1>4 DEF Drivers
<1> QED BY <1>1, <1>2, <1>3, <1>5, LimitsAssumption

\* hold is an advance that ends with no command.
LEMMA HoldSound ==
  ASSUME NEW d \in Drivers, NEW t \in Nat, d.time <= t
  PROVE  /\ Hold(d, t) \in Drivers
         /\ Hold(d, t).time = t
         /\ Hold(d, t).command = NoCommand
         /\ Hold(d, t).pan = Advance(d, t).pan
         /\ Hold(d, t).tracked = d.tracked
<1> DEFINE a == Advance(d, t)
<1>1. a \in Drivers /\ a.time = t /\ a.tracked = d.tracked
  BY AdvanceSound
<1>2. Hold(d, t) = [a EXCEPT !.target = a.pan, !.command = NoCommand]
  BY DEF Hold
<1> HIDE DEF a
<1>3. /\ a.pan \in PanMin..PanMax /\ a.tracked \in BOOLEAN
      /\ a = [time |-> a.time, pan |-> a.pan, target |-> a.target,
              command |-> a.command, tracked |-> a.tracked]
  BY <1>1 DEF Drivers
<1>4. Hold(d, t) = [time |-> t, pan |-> a.pan, target |-> a.pan,
                    command |-> NoCommand, tracked |-> a.tracked]
  BY <1>1, <1>2, <1>3
<1>5. /\ Hold(d, t).time = t /\ Hold(d, t).pan = a.pan
      /\ Hold(d, t).command = NoCommand /\ Hold(d, t).tracked = d.tracked
  BY <1>1, <1>4
<1>6. Hold(d, t) \in Drivers
  BY <1>3, <1>4 DEF Drivers, NoCommand
<1> QED BY <1>5, <1>6 DEF a

LEMMA TargetSound ==
  ASSUME NEW d \in Drivers, NEW t \in Nat, d.time <= t, NEW p \in Int, InLimits(p)
  PROVE  /\ Target(d, p, t) \in Drivers
         /\ Target(d, p, t).time = t
         /\ Target(d, p, t).command = t
         /\ Target(d, p, t).pan = Advance(d, t).pan
<1> DEFINE a == Advance(d, t)
<1>1. a \in Drivers /\ a.time = t
  BY AdvanceSound
<1>2. Target(d, p, t) = [a EXCEPT !.target = p, !.command = t]
  BY DEF Target
<1>3. p \in PanMin..PanMax
  BY LimitsAssumption DEF InLimits
<1> HIDE DEF a
<1>4. /\ Target(d, p, t) \in Drivers /\ Target(d, p, t).time = t
      /\ Target(d, p, t).command = t /\ Target(d, p, t).pan = a.pan
  BY <1>1, <1>2, <1>3 DEF Drivers
<1> QED BY <1>4 DEF a

-----------------------------------------------------------------------------
\* Disarming a session whose axis is held leaves a settled state.
LEMMA DisarmSound ==
  ASSUME NEW d, NEW s, NEW t \in Nat, d \in Drivers, d.time \in 1..t,
         s \in SessionStates, s.issued <= t, d.command = NoCommand
  PROVE  /\ Settled(d, Locked(s), t) /\ Settled(d, Released(s), t)
         /\ ~Locked(s).armed /\ ~Released(s).armed
         /\ Locked(s).needsRelease /\ ~Released(s).needsRelease
         /\ \A x \in {Locked(s), Released(s)} :
              /\ x.live = s.live /\ x.nonce = s.nonce /\ x.challenge = s.challenge
              /\ x.sequence = s.sequence /\ x.clientNs = s.clientNs
              /\ x.issued = s.issued
  BY DEF Settled, Locked, Released, SessionStates

\* hold and disarm, in either order, leave a settled state.
LEMMA HoldSettles ==
  ASSUME NEW d, NEW s, NEW t \in Nat, Settled(d, s, t)
  PROVE  /\ Settled(Hold(d, t), Locked(s), t)
         /\ Settled(Hold(d, t), Released(s), t)
         /\ Hold(d, t).command = NoCommand
         /\ Hold(d, t).time = t
<1>1. d \in Drivers /\ d.time \in 1..t /\ s \in SessionStates /\ s.issued <= t
  BY DEF Settled
<1>2. /\ Hold(d, t) \in Drivers /\ Hold(d, t).time = t
      /\ Hold(d, t).command = NoCommand
  BY <1>1, HoldSound
<1>3. Hold(d, t).time \in 1..t
  BY <1>1, <1>2
<1> QED BY <1>1, <1>2, <1>3, DisarmSound

\* tick: either it raises and changes nothing, or the driver is at t and an
\* armed session has time left.
LEMMA TickSound ==
  ASSUME NEW d, NEW s, NEW t \in Nat, Settled(d, s, t)
  PROVE  LET r == Tick(d, s, t)
         IN  /\ Settled(r.driver, r.session, t)
             /\ r.raised => r.driver = d /\ r.session = s
             /\ ~r.raised =>
                  /\ r.driver.time = t
                  /\ r.session \in {s, Locked(s)}
                  /\ r.session.armed => r.session = s /\ t < s.expiry
             /\ r.session.live = s.live /\ r.session.nonce = s.nonce
             /\ r.session.challenge = s.challenge
<1> DEFINE r == Tick(d, s, t)
<1>1. /\ d \in Drivers /\ d.time \in 1..t /\ s \in SessionStates /\ s.issued <= t
      /\ d.time \in Nat /\ s.expiry \in Nat
  BY DEF Settled, Drivers, SessionStates
<1>2. CASE s.armed /\ t >= s.expiry /\ ~Reversed(d, s.expiry)
  <2> DEFINE h == Hold(d, s.expiry)
             a == Advance(h, t)
  <2>1. r = Done(a, Locked(s))
    BY <1>2 DEF Tick
  <2>2. h \in Drivers /\ h.time = s.expiry /\ h.command = NoCommand
    BY <1>1, <1>2, HoldSound DEF Reversed
  <2>3. a \in Drivers /\ a.time = t /\ a.command = NoCommand
    BY <2>2, <1>1, <1>2, AdvanceSound
  <2> HIDE DEF h, a
  <2>4. a.time \in 1..t
    BY <2>3, <1>1
  <2>5. /\ Settled(a, Locked(s), t) /\ ~Locked(s).armed
        /\ Locked(s).live = s.live /\ Locked(s).nonce = s.nonce
        /\ Locked(s).challenge = s.challenge
    BY <2>3, <2>4, <1>1, DisarmSound
  <2> QED BY <2>1, <2>3, <2>5 DEF Done
<1>3. CASE ~(s.armed /\ t >= s.expiry) /\ ~Reversed(d, t)
  <2> DEFINE a == Advance(d, t)
  <2>1. r = Done(a, s)
    BY <1>3 DEF Tick
  <2>2. a \in Drivers /\ a.time = t /\ a.command = d.command
    BY <1>1, AdvanceSound
  <2> HIDE DEF a
  <2>3. Settled(a, s, t)
    BY <2>2, <1>1 DEF Settled
  <2>4. s.armed => t < s.expiry
    BY <1>1, <1>3
  <2> QED BY <2>1, <2>2, <2>3, <2>4 DEF Done
<1>4. CASE \/ s.armed /\ t >= s.expiry /\ Reversed(d, s.expiry)
           \/ ~(s.armed /\ t >= s.expiry) /\ Reversed(d, t)
  <2>1. r = Raised(d, s)
    BY <1>4 DEF Tick
  <2> QED BY <2>1 DEF Raised
<1> QED BY <1>2, <1>3, <1>4

\* close: unless its tick raises, the axis is held and the session locked.
LEMMA CloseSound ==
  ASSUME NEW d, NEW s, NEW t \in Nat, Settled(d, s, t)
  PROVE  LET r == Close(d, s, t)
         IN  /\ Settled(r.driver, r.session, t)
             /\ r.raised => r.driver = d /\ r.session = s
             /\ ~r.raised => /\ r.driver.command = NoCommand
                             /\ r.driver.time = t
                             /\ ~r.session.armed
             /\ r.session.live = s.live /\ r.session.nonce = s.nonce
             /\ r.session.challenge = s.challenge
<1> DEFINE k == Tick(d, s, t)
           r == Close(d, s, t)
<1>1. /\ Settled(k.driver, k.session, t)
      /\ k.raised => k.driver = d /\ k.session = s
      /\ k.session.live = s.live /\ k.session.nonce = s.nonce
      /\ k.session.challenge = s.challenge
  BY TickSound
<1>2. CASE k.raised
  <2>1. r = k
    BY <1>2 DEF Close
  <2> QED BY <1>1, <1>2, <2>1
<1>3. CASE ~k.raised
  <2>1. r = Done(Hold(k.driver, t), Locked(k.session))
    BY <1>3 DEF Close
  <2> HIDE DEF k
  <2>2. /\ Settled(Hold(k.driver, t), Locked(k.session), t)
        /\ Hold(k.driver, t).command = NoCommand /\ Hold(k.driver, t).time = t
    BY <1>1, HoldSettles
  <2>3. /\ ~Locked(k.session).armed
        /\ Locked(k.session).live = k.session.live
        /\ Locked(k.session).nonce = k.session.nonce
        /\ Locked(k.session).challenge = k.session.challenge
    BY <1>1 DEF Settled, Locked, SessionStates
  <2> QED BY <1>1, <2>1, <2>2, <2>3 DEF Done
<1> QED BY <1>1, <1>2, <1>3

\* The four things handle does with a command it accepts.
LEMMA ExecuteSound ==
  ASSUME NEW d, NEW s, NEW t \in Nat, NEW c \in Commands, Settled(d, s, t), d.time = t,
         s.live = TRUE
  PROVE  LET r == Execute(d, s, c, t)
         IN  /\ Settled(r.driver, r.session, t)
             /\ r.session.challenge = s.challenge /\ r.session.live = TRUE
<1> DEFINE r == Execute(d, s, c, t)
           answered == ~Releases(c) /\ Answers(s, c, t) /\ c.kind = "aim"
<1>0. /\ d \in Drivers /\ s \in SessionStates /\ t \in 1..t /\ s.issued <= t
      /\ c.kind \in Kinds /\ c.pan \in Int /\ c.lease \in 1..MaxLease
  BY DEF Settled, Commands
<1>1. CASE Releases(c)
  <2>1. r = Done(Hold(d, t), Released(s))
    BY <1>1 DEF Execute
  <2>2. Settled(Hold(d, t), Released(s), t)
    BY HoldSettles
  <2>3. Released(s).challenge = s.challenge /\ Released(s).live = s.live
    BY <1>0 DEF Released, SessionStates
  <2> QED BY <2>1, <2>2, <2>3 DEF Done
<1>2. CASE ~Releases(c) /\ (~Answers(s, c, t) \/ c.kind = "resetMap")
  <2>1. r = Done(Hold(d, t), Locked(s))
    BY <1>2 DEF Execute
  <2>2. Settled(Hold(d, t), Locked(s), t)
    BY HoldSettles
  <2>3. Locked(s).challenge = s.challenge /\ Locked(s).live = s.live
    BY <1>0 DEF Locked, SessionStates
  <2> QED BY <2>1, <2>2, <2>3 DEF Done
<1>3. CASE answered /\ s.needsRelease
  <2>1. r = Done(d, s)
    BY <1>3 DEF Execute
  <2> QED BY <2>1 DEF Done
<1>4. CASE answered /\ ~s.needsRelease
  <2>1. r = IF ~InLimits(c.pan)
            THEN LET z == Close(d, s, t) IN Raised(z.driver, z.session)
            ELSE IF Refused(d, c.pan, t) THEN Raised(d, s)
            ELSE Done(Target(d, c.pan, t),
                      [s EXCEPT !.expiry = t + c.lease, !.armed = TRUE])
    BY <1>4 DEF Execute
  <2>2. CASE ~InLimits(c.pan)
    <3> DEFINE z == Close(d, s, t)
    <3>1. r = Raised(z.driver, z.session)
      BY <2>1, <2>2
    <3>2. /\ Settled(z.driver, z.session, t)
          /\ z.session.live = s.live /\ z.session.challenge = s.challenge
      BY CloseSound
    <3> HIDE DEF z
    <3> QED BY <3>1, <3>2 DEF Raised
  <2>3. CASE InLimits(c.pan) /\ Refused(d, c.pan, t)
    <3>1. r = Raised(d, s)
      BY <2>1, <2>3
    <3> QED BY <3>1 DEF Raised
  <2>4. CASE InLimits(c.pan) /\ ~Refused(d, c.pan, t)
    <3> DEFINE e == Target(d, c.pan, t)
               x == [s EXCEPT !.expiry = t + c.lease, !.armed = TRUE]
    <3>1. r = Done(e, x)
      BY <2>1, <2>4
    <3>2. e \in Drivers /\ e.time = t /\ e.command = t
      BY <1>0, <2>4, TargetSound
    <3> HIDE DEF e
    <3>3. t + c.lease \in Nat /\ c.lease <= MaxLease
      BY <1>0, SessionAssumption
    <3>4. /\ x \in SessionStates /\ x.issued <= t /\ x.armed /\ x.live = s.live
          /\ x.needsRelease = s.needsRelease /\ x.challenge = s.challenge
          /\ x.expiry = t + c.lease
      BY <1>0, <3>3 DEF SessionStates
    <3> HIDE DEF x
    <3>5. x.expiry <= e.command + MaxLease
      BY <1>0, <3>2, <3>3, <3>4, SessionAssumption
    <3>6. Settled(e, x, t)
      BY <1>0, <1>4, <3>2, <3>3, <3>4, <3>5 DEF Settled
    <3> QED BY <3>1, <3>4, <3>6 DEF Done
  <2> QED BY <2>2, <2>3, <2>4
<1>5. c.kind = "aim" \/ c.kind = "resetMap" \/ c.kind = "hold"
  BY <1>0 DEF Kinds
<1> QED BY <1>1, <1>2, <1>3, <1>4, <1>5 DEF Releases

\* handle, whatever the frame, ends in a settled state; its reply carries the
\* fresh challenge, and without a reply the challenge stays.
LEMMA HandleSound ==
  ASSUME NEW d, NEW s, NEW t \in Nat, NEW c \in Commands, NEW fresh \in Nat,
         Settled(d, s, t), s.live = TRUE
  PROVE  LET r == Handle(d, s, c, t, fresh)
         IN  /\ Settled(r.driver, r.session, t)
             /\ r.raised => r.session.challenge = s.challenge
             /\ ~r.raised => r.session.challenge = fresh
             /\ r.session.live = TRUE
<1> DEFINE k == Tick(d, s, t)
           z == Close(k.driver, k.session, t)
           accepted == [k.session EXCEPT !.sequence = c.sequence, !.clientNs = c.clientNs]
           x == Execute(k.driver, accepted, c, t)
           y == Tick(x.driver, x.session, t)
           r == Handle(d, s, c, t, fresh)
<1>1. /\ Settled(k.driver, k.session, t)
      /\ k.raised => k.driver = d /\ k.session = s
      /\ ~k.raised => k.driver.time = t
      /\ k.session.live = s.live /\ k.session.challenge = s.challenge
  BY TickSound
<1>2. CASE k.raised
  <2>1. r = k
    BY <1>2 DEF Handle
  <2> QED BY <1>1, <1>2, <2>1
<1>3. CASE ~k.raised /\ Invalid(s, c)
  <2>1. r = Raised(z.driver, z.session)
    BY <1>3 DEF Handle
  <2> HIDE DEF k
  <2>2. /\ Settled(z.driver, z.session, t)
        /\ z.session.live = k.session.live /\ z.session.challenge = k.session.challenge
    BY <1>1, CloseSound
  <2> HIDE DEF z
  <2> QED BY <1>1, <2>1, <2>2 DEF Raised
<1>4. CASE ~k.raised /\ ~Invalid(s, c)
  <2>1. r = Reply(x, t, fresh)
    BY <1>4 DEF Handle
  <2> HIDE DEF k
  <2>2. /\ Settled(k.driver, accepted, t) /\ accepted.live = TRUE
        /\ accepted.challenge = s.challenge /\ k.driver.time = t
    BY <1>1, <1>4 DEF Settled, SessionStates, Commands
  <2> HIDE DEF accepted
  <2>3. /\ Settled(x.driver, x.session, t)
        /\ x.session.challenge = s.challenge /\ x.session.live = TRUE
    <3>1. \A e, b : Settled(e, b, t) /\ e.time = t /\ b.live = TRUE =>
            LET r1 == Execute(e, b, c, t)
            IN  /\ Settled(r1.driver, r1.session, t)
                /\ r1.session.challenge = b.challenge /\ r1.session.live = TRUE
      BY ExecuteSound
    <3> QED BY <2>2, <3>1
  <2> HIDE DEF x
  <2>4. /\ Settled(y.driver, y.session, t)
        /\ y.session.live = x.session.live
    BY <2>3, TickSound
  <2>5. r = IF x.raised \/ y.raised THEN Raised(x.driver, x.session)
            ELSE Done(y.driver, [y.session EXCEPT !.challenge = fresh, !.issued = t])
    BY <2>1 DEF Reply
  <2> HIDE DEF y
  <2>6. CASE x.raised \/ y.raised
    BY <2>3, <2>5, <2>6 DEF Raised
  <2>7. CASE ~(x.raised \/ y.raised)
    <3> DEFINE n == [y.session EXCEPT !.challenge = fresh, !.issued = t]
    <3>0. /\ y.session \in SessionStates /\ n \in SessionStates
          /\ n.challenge = fresh /\ n.issued = t /\ n.live = y.session.live
          /\ n.armed = y.session.armed /\ n.needsRelease = y.session.needsRelease
          /\ n.expiry = y.session.expiry
      BY <2>4 DEF Settled, SessionStates
    <3>1. Settled(y.driver, n, t) /\ n.challenge = fresh /\ n.live = TRUE
      BY <2>3, <2>4, <3>0 DEF Settled
    <3>2. r = Done(y.driver, n)
      BY <2>5, <2>7
    <3> HIDE DEF n
    <3> QED BY <3>1, <3>2 DEF Done
  <2> QED BY <2>6, <2>7
<1> QED BY <1>2, <1>3, <1>4, <1>1

-----------------------------------------------------------------------------
\* The inductive invariant: TypeOK and CommandOnlyWhileArmed follow from it.
SessionInv ==
  /\ now \in 1..MaxTime
  /\ Settled(driver, session, now)
  /\ challenges \in Nat /\ session.challenge <= challenges
  /\ sessions \in 0..MaxSessions
  /\ clearRequested \in BOOLEAN

LEMMA SessionInvInit == SessionInit => SessionInv
<1> SUFFICES ASSUME SessionInit PROVE SessionInv
  OBVIOUS
<1>1. /\ driver \in Drivers /\ driver.time = 1 /\ driver.command = NoCommand
  BY LimitsAssumption DEF SessionInit, InitialDriver, Drivers, NoCommand
<1>2. /\ session \in SessionStates /\ session.issued = 0 /\ session.challenge = 0
      /\ session.armed = FALSE
  BY DEF SessionInit, NoSession, NewSession, SessionStates
<1>3. now = 1 /\ challenges = 0 /\ sessions = 0 /\ clearRequested = FALSE
  BY DEF SessionInit
<1>4. Settled(driver, session, now)
  BY <1>1, <1>2, <1>3 DEF Settled
<1>5. now \in 1..MaxTime /\ sessions \in 0..MaxSessions
  BY <1>3, SessionAssumption
<1>6. challenges \in Nat /\ session.challenge <= challenges
  BY <1>2, <1>3
<1>7. clearRequested \in BOOLEAN
  BY <1>3
<1> QED BY <1>4, <1>5, <1>6, <1>7 DEF SessionInv

\* A new session, over a driver that holds, is settled.
LEMMA OpenSound ==
  ASSUME NEW d \in Drivers, NEW t \in Nat, d.time \in 1..t,
         NEW nonce \in Nat, NEW fresh \in Nat
  PROVE  Settled(Hold(d, t), NewSession(nonce, fresh, t), t)
<1>1. Hold(d, t) \in Drivers /\ Hold(d, t).time = t /\ Hold(d, t).command = NoCommand
  BY HoldSound
<1>2. t \in 1..t
  OBVIOUS
<1> QED BY <1>1, <1>2 DEF Settled, NewSession, SessionStates

\* Later is still settled.
LEMMA SettledLater ==
  ASSUME NEW d, NEW s, NEW t \in Nat, NEW u \in Nat, t <= u, Settled(d, s, t)
  PROVE  Settled(d, s, u)
  BY DEF Settled, SessionStates

\* A frame keeps the inductive invariant.
LEMMA HandleInvStep ==
  ASSUME SessionInv, NEW c \in Commands, HandleCommand(c)
  PROVE  SessionInv'
<1>0. /\ Settled(driver, session, now) /\ now \in Nat /\ now \in 1..MaxTime
      /\ session \in SessionStates
      /\ challenges \in Nat /\ session.challenge <= challenges
      /\ session.challenge \in Nat
      /\ sessions \in Nat /\ sessions <= MaxSessions /\ clearRequested \in BOOLEAN
  BY SessionAssumption DEF SessionInv, Settled, SessionStates
<1> DEFINE r == Handle(driver, session, c, now, challenges + 1)
<1>1. c \in Commands /\ session.live = TRUE /\ challenges + 1 \in Nat
  BY <1>0 DEF HandleCommand, SessionStates
<1>2. /\ Settled(r.driver, r.session, now)
      /\ r.raised => r.session.challenge = session.challenge
      /\ ~r.raised => r.session.challenge = challenges + 1
  <2>1. /\ Settled(r.driver, r.session, now)
        /\ r.raised => r.session.challenge = session.challenge
        /\ ~r.raised => r.session.challenge = challenges + 1
        /\ r.session.live = TRUE
    BY <1>0, <1>1, HandleSound, Zenon
  <2> QED BY <2>1
<1>3. /\ driver' = r.driver /\ session' = r.session /\ now' = now
      /\ challenges' = IF r.raised THEN challenges ELSE challenges + 1
      /\ sessions' = sessions /\ clearRequested' \in BOOLEAN
  BY <1>0 DEF HandleCommand, HandleResult, Commit
<1> HIDE DEF r
<1>4. challenges' \in Nat /\ session'.challenge <= challenges'
  BY <1>0, <1>2, <1>3
<1> QED BY <1>0, <1>2, <1>3, <1>4, SessionAssumption DEF SessionInv

\* Every operation of the session keeps the inductive invariant.
LEMMA SessionInvStep == SessionInv /\ [SessionNext]_sessionVars => SessionInv'
<1> SUFFICES ASSUME SessionInv, [SessionNext]_sessionVars PROVE SessionInv'
  OBVIOUS
<1>0. /\ Settled(driver, session, now) /\ now \in Nat /\ now \in 1..MaxTime
      /\ driver \in Drivers /\ driver.time \in 1..now
      /\ session \in SessionStates
      /\ challenges \in Nat /\ session.challenge <= challenges
      /\ session.challenge \in Nat
      /\ sessions \in Nat /\ sessions <= MaxSessions /\ clearRequested \in BOOLEAN
  BY SessionAssumption DEF SessionInv, Settled, SessionStates
<1>1. CASE Elapse
  <2>1. Settled(driver, session, now + 1)
    BY <1>0, SettledLater
  <2> QED BY <1>0, <1>1, <2>1, SessionAssumption DEF Elapse, SessionInv
<1>2. CASE OpenSession
  <2>1. Settled(Hold(driver, now), NewSession(sessions + 1, challenges + 1, now), now)
    BY <1>0, OpenSound
  <2>2. session'.challenge = challenges + 1
    BY <1>2 DEF OpenSession, NewSession
  <2> QED BY <1>0, <1>2, <2>1, <2>2, SessionAssumption DEF OpenSession, SessionInv
<1>3. CASE Sample
  <2>1. CASE session.live
    <3> DEFINE r == Tick(driver, session, now)
    <3>1. Settled(r.driver, r.session, now) /\ r.session.challenge = session.challenge
      BY <1>0, TickSound
    <3>2. driver' = r.driver /\ session' = r.session
      BY <1>3, <2>1 DEF Sample, SampleResult, Commit
    <3> HIDE DEF r
    <3> QED BY <1>0, <1>3, <3>1, <3>2, SessionAssumption DEF Sample, SessionInv
  <2>2. CASE ~session.live
    <3>1. driver' = Advance(driver, now) /\ session' = session
      BY <1>3, <2>2 DEF Sample, SampleResult, Commit, Done
    <3>2. /\ Advance(driver, now) \in Drivers /\ Advance(driver, now).time = now
          /\ Advance(driver, now).command = driver.command
      BY <1>0, AdvanceSound
    <3>3. Settled(driver', session', now)
      BY <1>0, <3>1, <3>2 DEF Settled
    <3> QED BY <1>0, <1>3, <3>1, <3>3, SessionAssumption DEF Sample, SessionInv
  <2> QED BY <2>1, <2>2
<1>4. ASSUME NEW c \in Inputs, HandleCommand(c) PROVE SessionInv'
  BY <1>4, HandleInvStep, InputsAssumption
<1>5. CASE CloseSession
  <2> DEFINE r == Close(driver, session, now)
  <2>1. Settled(r.driver, r.session, now) /\ r.session.challenge = session.challenge
    BY <1>0, CloseSound
  <2>2. driver' = r.driver /\ session' = r.session
    BY <1>5 DEF CloseSession, Commit
  <2> HIDE DEF r
  <2> QED BY <1>0, <1>5, <2>1, <2>2, SessionAssumption DEF CloseSession, SessionInv
<1>6. CASE EndSession
  <2> DEFINE r == Close(driver, session, now)
  <2>1. /\ Settled(r.driver, r.session, now) /\ r.session.challenge = session.challenge
        /\ ~r.raised => r.driver.command = NoCommand
    BY <1>0, CloseSound
  <2>2. /\ r.raised => driver' = r.driver /\ session' = r.session
        /\ ~r.raised => driver' = r.driver /\ session' = NoSession
    BY <1>6 DEF EndSession, Commit, Done
  <2> HIDE DEF r
  <2>3. /\ NoSession \in SessionStates /\ NoSession.issued = 0
        /\ NoSession.challenge = 0 /\ NoSession.armed = FALSE
    BY DEF NoSession, NewSession, SessionStates
  <2>4. CASE r.raised
    BY <1>0, <1>6, <2>1, <2>2, <2>4, SessionAssumption DEF EndSession, SessionInv
  <2>5. CASE ~r.raised
    <3>1. Settled(r.driver, NoSession, now)
      BY <1>0, <2>1, <2>3, <2>5 DEF Settled
    <3> QED BY <1>0, <1>6, <2>2, <2>3, <2>5, <3>1, SessionAssumption DEF EndSession, SessionInv
  <2> QED BY <2>4, <2>5
<1>7. ASSUME NEW tracked \in BOOLEAN, TrackingChange(tracked) PROVE SessionInv'
  <2> DEFINE h == Hold(driver, now)
  <2>1. h \in Drivers /\ h.time = now /\ h.command = NoCommand
    BY <1>0, HoldSound
  <2>2. driver' = [h EXCEPT !.tracked = tracked]
    BY <1>7 DEF TrackingChange, SetTracking
  <2> HIDE DEF h
  <2>3. driver' \in Drivers /\ driver'.time = now /\ driver'.command = NoCommand
    BY <2>1, <2>2 DEF Drivers
  <2>4. Settled(driver', session, now)
    BY <1>0, <2>3 DEF Settled
  <2> QED BY <1>0, <1>7, <2>4, SessionAssumption DEF TrackingChange, SessionInv
<1>8. CASE ServiceClear
  BY <1>0, <1>8, SessionAssumption DEF ServiceClear, SessionInv
<1>9. CASE UNCHANGED sessionVars
  BY <1>9 DEF sessionVars, SessionInv
<1> QED BY <1>1, <1>2, <1>3, <1>4, <1>5, <1>6, <1>7, <1>8, <1>9 DEF SessionNext

LEMMA SessionInvariant == SessionSpec => []SessionInv
  BY SessionInvInit, SessionInvStep, PTL DEF SessionSpec

\* The session's variables keep their types and their stamps the clock's order.
THEOREM TypeCorrect == SessionSpec => []TypeOK
<1>1. SessionInv => TypeOK
  BY DEF SessionInv, Settled, TypeOK
<1> QED BY <1>1, SessionInvariant, PTL

\* No command stands on the axis except under an armed session that needs no
\* release, and none outlives a lease: for every set of frames a client sends,
\* in every order, with or without tracking loss.
THEOREM MotionNeedsArming == SessionSpec => []CommandOnlyWhileArmed
<1>1. SessionInv => CommandOnlyWhileArmed
  BY DEF SessionInv, Settled, CommandOnlyWhileArmed
<1> QED BY <1>1, SessionInvariant, PTL

-----------------------------------------------------------------------------
\* Without tracking loss only ticks move the driver's time past a deadline, and
\* they stop there first.
Timely(d, s) == s.armed => d.time <= s.expiry

\* What the lease pays for of the interval up to t.
PaidUntil(d, s, t) ==
  LET end == IF t <= s.expiry THEN t ELSE s.expiry
  IN  IF s.armed /\ end > d.time THEN end - d.time ELSE 0

Within(d, s, e) ==
  e.pan - d.pan <= PaidUntil(d, s, e.time) /\ d.pan - e.pan <= PaidUntil(d, s, e.time)

\* What an operation at time t may do to the lease: keep it, drop it, or grant
\* one to a session that needs no release and has not run out.
LeaseStep(s, x, t) ==
  x.armed =>
    \/ s.armed /\ x.expiry = s.expiry
    \/ /\ ~s.needsRelease /\ (s.armed => t < s.expiry)
       /\ x.expiry > t /\ x.expiry <= t + MaxLease

\* What a tick, a close, a command and a whole handle do to the lease, where r is
\* their result.
TickResult(d, s, t, r) ==
  /\ r.raised = FALSE
  /\ r.driver.time = t
  /\ Within(d, s, r.driver)
  /\ \/ r.session = s /\ (s.armed => t < s.expiry)
     \/ r.session = Locked(s)

CloseResult(d, s, t, r) ==
  /\ r.raised = FALSE
  /\ r.driver.time = t
  /\ Within(d, s, r.driver)
  /\ r.session.armed = FALSE

ExecuteResult(d, s, t, r) ==
  /\ r.driver.time = t
  /\ r.driver.pan = d.pan
  /\ LeaseStep(s, r.session, t)
  /\ r.session.armed => t < r.session.expiry

HandleResults(d, s, t, r) ==
  /\ r.driver.time = t
  /\ Within(d, s, r.driver)
  /\ LeaseStep(s, r.session, t)
  /\ r.session.armed => t < r.session.expiry

\* A tick at the deadline or later moves the axis no further than the deadline.
LEMMA TickTimely ==
  ASSUME NEW d, NEW s, NEW t \in Nat, Settled(d, s, t), Timely(d, s)
  PROVE  TickResult(d, s, t, Tick(d, s, t))
<1> DEFINE r == Tick(d, s, t)
<1>1. /\ d \in Drivers /\ d.time \in 1..t /\ d.time \in Nat /\ d.pan \in Int
      /\ s \in SessionStates /\ s.expiry \in Nat
      /\ d.command # NoCommand => s.armed
  BY LimitsAssumption DEF Settled, Drivers, SessionStates
<1>2. CASE s.armed /\ t >= s.expiry
  <2> DEFINE h == Hold(d, s.expiry)
             a == Advance(h, t)
  <2>1. d.time <= s.expiry
    BY <1>2 DEF Timely
  <2>2. r = Done(a, Locked(s))
    BY <1>1, <1>2, <2>1 DEF Tick, Reversed
  <2>3. /\ h \in Drivers /\ h.time = s.expiry /\ h.command = NoCommand
        /\ h.pan = Advance(d, s.expiry).pan
    BY <1>1, <2>1, HoldSound
  <2>4. /\ Advance(d, s.expiry).pan - d.pan <= s.expiry - d.time
        /\ d.pan - Advance(d, s.expiry).pan <= s.expiry - d.time
    BY <1>1, <2>1, AdvanceSound
  <2> HIDE DEF h
  <2>5. a.time = t /\ a.pan = h.pan
    BY <1>1, <1>2, <2>3, AdvanceSound
  <2>6. PaidUntil(d, s, t) = s.expiry - d.time
    BY <1>1, <1>2, <2>1 DEF PaidUntil
  <2> HIDE DEF a
  <2>7. Within(d, s, a)
    BY <2>3, <2>4, <2>5, <2>6 DEF Within
  <2> QED BY <2>2, <2>5, <2>7 DEF Done, TickResult
<1>3. CASE ~(s.armed /\ t >= s.expiry)
  <2> DEFINE a == Advance(d, t)
  <2>1. r = Done(a, s)
    BY <1>1, <1>3 DEF Tick, Reversed
  <2>2. /\ a.time = t /\ a.pan - d.pan <= t - d.time /\ d.pan - a.pan <= t - d.time
        /\ d.command = NoCommand => a.pan = d.pan
    BY <1>1, AdvanceSound
  <2>3. s.armed => PaidUntil(d, s, t) = t - d.time
    BY <1>1, <1>3 DEF PaidUntil
  <2>4. ~s.armed => PaidUntil(d, s, t) = 0
    BY DEF PaidUntil
  <2> HIDE DEF a
  <2>5. Within(d, s, a)
    BY <1>1, <2>2, <2>3, <2>4 DEF Within
  <2>6. s.armed => t < s.expiry
    BY <1>1, <1>3
  <2> QED BY <2>1, <2>2, <2>5, <2>6 DEF Done, TickResult
<1> QED BY <1>2, <1>3

\* At the instant of its tick a driver does not move.
LEMMA SameInstant ==
  ASSUME NEW d \in Drivers, NEW t \in Nat, d.time = t
  PROVE  Advance(d, t).pan = d.pan
<1>1. DriveTime(d, t) = 0
  BY DriveTimeBounds
<1>2. /\ d.pan \in Int /\ d.target \in Int
  BY LimitsAssumption DEF Drivers
<1>3. Toward(d.pan, d.target, 0) = d.pan
  BY <1>2 DEF Toward, Earlier
<1> QED BY <1>1, <1>3 DEF Advance, Drivers

\* close ends the lease and pays for no more motion than the lease did.
LEMMA CloseTimely ==
  ASSUME NEW d, NEW s, NEW t \in Nat, Settled(d, s, t), Timely(d, s)
  PROVE  CloseResult(d, s, t, Close(d, s, t))
<1> DEFINE k == Tick(d, s, t)
           h == Hold(k.driver, t)
<1>1. TickResult(d, s, t, k)
  BY TickTimely
<1>2. Settled(k.driver, k.session, t)
  BY TickSound
<1>3. Close(d, s, t) = Done(h, Locked(k.session))
  BY <1>1 DEF Close, TickResult
<1> HIDE DEF k
<1>4. k.driver \in Drivers /\ k.session \in SessionStates
  BY <1>2 DEF Settled
<1>5. h.time = t /\ h.pan = Advance(k.driver, t).pan
  BY <1>1, <1>4, HoldSound DEF TickResult
<1>6. Advance(k.driver, t).pan = k.driver.pan
  BY <1>1, <1>4, SameInstant DEF TickResult
<1>7. Locked(k.session).armed = FALSE
  BY <1>4 DEF Locked, SessionStates
<1> HIDE DEF h
<1>8. Within(d, s, h)
  BY <1>1, <1>5, <1>6 DEF TickResult, Within
<1> QED BY <1>3, <1>5, <1>7, <1>8 DEF Done, CloseResult

\* A command takes effect at the instant of its tick: the axis is where the
\* tick left it, and a lease comes only from a session that needs no release.
LEMMA ExecuteTimely ==
  ASSUME NEW d, NEW s, NEW t \in Nat, NEW c \in Commands, Settled(d, s, t), d.time = t,
         s.armed => t < s.expiry
  PROVE  ExecuteResult(d, s, t, Execute(d, s, c, t))
<1> DEFINE r == Execute(d, s, c, t)
           answered == ~Releases(c) /\ Answers(s, c, t) /\ c.kind = "aim"
<1>0. /\ d \in Drivers /\ d.pan \in Int /\ s \in SessionStates /\ c.kind \in Kinds
      /\ c.pan \in Int /\ c.lease \in 1..MaxLease /\ s.expiry \in Nat
  BY LimitsAssumption DEF Settled, Commands, Drivers, SessionStates
<1>h. Hold(d, t).time = t /\ Hold(d, t).pan = d.pan
  BY <1>0, HoldSound, SameInstant
<1>1. CASE Releases(c)
  <2>1. r = Done(Hold(d, t), Released(s))
    BY <1>1 DEF Execute
  <2>2. Released(s).armed = FALSE
    BY <1>0 DEF Released, SessionStates
  <2> QED BY <1>h, <2>1, <2>2 DEF Done, LeaseStep, ExecuteResult
<1>2. CASE ~Releases(c) /\ (~Answers(s, c, t) \/ c.kind = "resetMap")
  <2>1. r = Done(Hold(d, t), Locked(s))
    BY <1>2 DEF Execute
  <2>2. Locked(s).armed = FALSE
    BY <1>0 DEF Locked, SessionStates
  <2> QED BY <1>h, <2>1, <2>2 DEF Done, LeaseStep, ExecuteResult
<1>3. CASE answered /\ s.needsRelease
  <2>1. r = Done(d, s)
    BY <1>3 DEF Execute
  <2> QED BY <2>1 DEF Done, LeaseStep, ExecuteResult
<1>4. CASE answered /\ ~s.needsRelease
  <2>1. r = IF ~InLimits(c.pan)
            THEN LET z == Close(d, s, t) IN Raised(z.driver, z.session)
            ELSE IF Refused(d, c.pan, t) THEN Raised(d, s)
            ELSE Done(Target(d, c.pan, t),
                      [s EXCEPT !.expiry = t + c.lease, !.armed = TRUE])
    BY <1>4 DEF Execute
  <2>2. CASE ~InLimits(c.pan)
    <3> DEFINE z == Close(d, s, t)
    <3>1. r = Raised(z.driver, z.session)
      BY <2>1, <2>2
    <3>2. Timely(d, s)
      BY <1>0 DEF Timely
    <3>3. CloseResult(d, s, t, z)
      BY <3>2, CloseTimely
    <3>4. Settled(z.driver, z.session, t)
      BY CloseSound
    <3> HIDE DEF z
    <3>5. PaidUntil(d, s, t) = 0
      BY <1>0 DEF PaidUntil
    <3>6. z.driver.pan \in Int
      BY <3>4, LimitsAssumption DEF Settled, Drivers
    <3>7. z.driver.pan = d.pan
      BY <1>0, <3>3, <3>5, <3>6 DEF Within, CloseResult
    <3> QED BY <3>1, <3>3, <3>7 DEF Raised, LeaseStep, CloseResult, ExecuteResult
  <2>3. CASE InLimits(c.pan) /\ Refused(d, c.pan, t)
    <3>1. r = Raised(d, s)
      BY <2>1, <2>3
    <3> QED BY <3>1 DEF Raised, LeaseStep, ExecuteResult
  <2>4. CASE InLimits(c.pan) /\ ~Refused(d, c.pan, t)
    <3> DEFINE e == Target(d, c.pan, t)
               x == [s EXCEPT !.expiry = t + c.lease, !.armed = TRUE]
    <3>1. r = Done(e, x)
      BY <2>1, <2>4
    <3>2. e.time = t /\ e.pan = d.pan
      BY <1>0, <2>4, TargetSound, SameInstant
    <3> HIDE DEF e
    <3>3. x.expiry = t + c.lease
      BY <1>0 DEF SessionStates
    <3> HIDE DEF x
    <3>4. x.expiry > t /\ x.expiry <= t + MaxLease
      BY <1>0, <3>3, SessionAssumption
    <3> QED BY <1>4, <3>1, <3>2, <3>4 DEF Done, LeaseStep, ExecuteResult
  <2> QED BY <2>2, <2>3, <2>4
<1> QED BY <1>0, <1>1, <1>2, <1>3, <1>4 DEF Releases, Kinds

\* handle, for every frame, moves the axis only on time that the lease it found
\* had paid for, and leaves a lease that has time left.
LEMMA HandleTimely ==
  ASSUME NEW d, NEW s, NEW t \in Nat, NEW c \in Commands, NEW fresh \in Nat,
         Settled(d, s, t), Timely(d, s), s.live = TRUE
  PROVE  HandleResults(d, s, t, Handle(d, s, c, t, fresh))
<1> DEFINE k == Tick(d, s, t)
           z == Close(k.driver, k.session, t)
           accepted == [k.session EXCEPT !.sequence = c.sequence, !.clientNs = c.clientNs]
           x == Execute(k.driver, accepted, c, t)
           y == Tick(x.driver, x.session, t)
           r == Handle(d, s, c, t, fresh)
<1>0. TickResult(d, s, t, k)
  BY TickTimely
<1>2. Settled(k.driver, k.session, t) /\ k.session.live = s.live
  BY TickSound
<1> HIDE DEF k
<1>1. /\ k.raised = FALSE /\ k.driver.time = t /\ Within(d, s, k.driver)
      /\ \/ k.session = s /\ (s.armed => t < s.expiry)
         \/ k.session = Locked(s)
  BY <1>0 DEF TickResult
<1>3. /\ s \in SessionStates /\ Locked(s).armed = FALSE /\ Locked(s).needsRelease = TRUE
      /\ k.session \in SessionStates /\ k.driver \in Drivers /\ k.driver.pan \in Int
      /\ k.session.expiry \in Nat
  BY <1>2, LimitsAssumption DEF Settled, SessionStates, Locked, Drivers
<1>4. CASE Invalid(s, c)
  <2>1. r = Raised(z.driver, z.session)
    BY <1>1, <1>4 DEF Handle, k
  <2>2. Timely(k.driver, k.session)
    BY <1>1, <1>3 DEF Timely
  <2>3. CloseResult(k.driver, k.session, t, z)
    BY <1>2, <2>2, CloseTimely
  <2>4. Settled(z.driver, z.session, t)
    BY <1>2, CloseSound
  <2> HIDE DEF z
  <2>5. z.driver.pan \in Int
    BY <2>4, LimitsAssumption DEF Settled, Drivers
  <2>6. PaidUntil(k.driver, k.session, t) = 0
    BY <1>1, <1>3 DEF PaidUntil
  <2>7. z.driver.pan = k.driver.pan
    BY <1>3, <2>3, <2>5, <2>6 DEF Within, CloseResult
  <2>8. Within(d, s, z.driver)
    BY <1>1, <2>3, <2>7 DEF Within, CloseResult
  <2> QED BY <2>1, <2>3, <2>8 DEF Raised, LeaseStep, CloseResult, HandleResults
<1>5. CASE ~Invalid(s, c)
  <2>1. r = Reply(x, t, fresh)
    BY <1>1, <1>5 DEF Handle, k
  <2>2. /\ accepted \in SessionStates /\ accepted.live = k.session.live
        /\ accepted.armed = k.session.armed /\ accepted.expiry = k.session.expiry
        /\ accepted.needsRelease = k.session.needsRelease
        /\ accepted.issued = k.session.issued
    BY <1>3 DEF SessionStates, Commands
  <2> HIDE DEF accepted
  <2>3. Settled(k.driver, accepted, t) /\ accepted.live = TRUE
    BY <1>2, <2>2 DEF Settled
  <2>4. accepted.armed => t < accepted.expiry
    BY <1>1, <1>3, <2>2
  <2>a. Settled(k.driver, accepted, t) /\ k.driver.time = t
    BY <1>1, <2>3
  <2>b. ExecuteResult(k.driver, accepted, t, x)
    BY <2>4, <2>a, ExecuteTimely
  <2>6. Settled(x.driver, x.session, t)
    BY <2>3, <2>a, ExecuteSound
  <2> HIDE DEF x
  <2>5. /\ x.driver.time = t /\ x.driver.pan = k.driver.pan
        /\ LeaseStep(accepted, x.session, t)
        /\ x.session.armed => t < x.session.expiry
    BY <2>b DEF ExecuteResult
  <2>7. x.driver.time \in Nat /\ x.session.expiry \in Nat /\ x.driver.pan \in Int
    BY <2>6, LimitsAssumption DEF Settled, Drivers, SessionStates
  <2>8. Timely(x.driver, x.session)
    BY <2>5, <2>7 DEF Timely
  <2>c. TickResult(x.driver, x.session, t, y)
    BY <2>6, <2>8, TickTimely
  <2>10. Settled(y.driver, y.session, t)
    BY <2>6, TickSound
  <2>11. r = IF x.raised \/ y.raised THEN Raised(x.driver, x.session)
             ELSE Done(y.driver, [y.session EXCEPT !.challenge = fresh, !.issued = t])
    BY <2>1 DEF Reply
  <2> HIDE DEF y
  <2>9. /\ y.raised = FALSE /\ y.driver.time = t /\ Within(x.driver, x.session, y.driver)
        /\ \/ y.session = x.session /\ (x.session.armed => t < x.session.expiry)
           \/ y.session = Locked(x.session)
    BY <2>c DEF TickResult
  <2>12. LeaseStep(s, x.session, t)
    BY <1>1, <1>3, <2>2, <2>5 DEF LeaseStep
  <2>13. Within(d, s, x.driver)
    BY <1>1, <2>5 DEF Within
  <2>14. CASE x.raised
    BY <2>5, <2>11, <2>12, <2>13, <2>14 DEF Raised, HandleResults
  <2>15. CASE ~x.raised
    <3> DEFINE n == [y.session EXCEPT !.challenge = fresh, !.issued = t]
    <3>1. r = Done(y.driver, n)
      BY <2>9, <2>11, <2>15
    <3>2. n.armed = y.session.armed /\ n.expiry = y.session.expiry
      BY <2>10 DEF Settled, SessionStates
    <3>3. y.session.armed => y.session = x.session
      BY <2>6, <2>9 DEF Settled, SessionStates, Locked
    <3>4. y.driver.pan \in Int
      BY <2>10, LimitsAssumption DEF Settled, Drivers
    <3>5. PaidUntil(x.driver, x.session, t) = 0
      BY <2>5, <2>7 DEF PaidUntil
    <3>6. y.driver.pan = x.driver.pan
      BY <2>7, <2>9, <3>4, <3>5 DEF Within
    <3>7. Within(d, s, y.driver)
      BY <2>5, <2>9, <2>13, <3>6 DEF Within
    <3> HIDE DEF n
    <3>8. LeaseStep(s, n, t) /\ (n.armed => t < n.expiry)
      BY <2>5, <2>12, <3>2, <3>3 DEF LeaseStep
    <3> QED BY <2>9, <3>1, <3>7, <3>8 DEF Done, HandleResults
  <2> QED BY <2>14, <2>15
<1> QED BY <1>4, <1>5

-----------------------------------------------------------------------------
\* What a step of the system does to the lease: it leaves driver and session
\* alone, or it brings the driver to now and moves and grants as HandleResults.
TimelyMove ==
  /\ driver'.time = now
  /\ Within(driver, session, driver')
  /\ LeaseStep(session, session', now)
  /\ session'.armed => now < session'.expiry

\* An axis without a command stays where it is.
LEMMA IdleMove ==
  ASSUME NEW d \in Drivers, NEW s \in SessionStates, NEW t \in Nat, d.time <= t,
         d.command = NoCommand, s.armed = FALSE
  PROVE  /\ Advance(d, t).time = t /\ Within(d, s, Advance(d, t))
         /\ Hold(d, t).time = t /\ Within(d, s, Hold(d, t))
<1>1. /\ Advance(d, t).time = t /\ Advance(d, t).pan = d.pan
      /\ Hold(d, t).time = t /\ Hold(d, t).pan = d.pan
  BY AdvanceSound, HoldSound
<1>2. d.pan \in Int
  BY LimitsAssumption DEF Drivers
<1>3. \A u : PaidUntil(d, s, u) = 0
  BY DEF PaidUntil
<1> QED BY <1>1, <1>2, <1>3 DEF Within

\* What the host does with the session, whatever the command.
CalmStep ==
  \/ Elapse \/ ServiceClear \/ OpenSession \/ Sample \/ CloseSession \/ EndSession
  \/ \E c \in Commands : HandleCommand(c)

\* Every step but a change of the tracking moves the axis on paid time only.
LEMMA CalmStepTimely ==
  ASSUME SessionInv, Timely(driver, session), CalmStep
  PROVE  TimelyMove \/ UNCHANGED <<driver, session>>
<1>0. /\ Settled(driver, session, now) /\ now \in Nat /\ challenges \in Nat
      /\ driver \in Drivers /\ driver.time <= now /\ session \in SessionStates
      /\ sessions \in Nat
  BY SessionAssumption DEF SessionInv, Settled
<1>1. CASE Elapse \/ ServiceClear
  BY <1>1 DEF Elapse, ServiceClear
<1>2. CASE OpenSession
  <2>1. driver.command = NoCommand /\ session.armed = FALSE
    BY <1>0, <1>2 DEF OpenSession, Settled, SessionStates
  <2>2. Hold(driver, now).time = now /\ Within(driver, session, Hold(driver, now))
    BY <1>0, <2>1, IdleMove
  <2>3. driver' = Hold(driver, now) /\ session'.armed = FALSE
    BY <1>2 DEF OpenSession, NewSession
  <2> QED BY <2>2, <2>3 DEF TimelyMove, LeaseStep
<1>3. CASE Sample
  <2>1. CASE session.live
    <3> DEFINE r == Tick(driver, session, now)
    <3>1. TickResult(driver, session, now, r)
      BY <1>0, TickTimely
    <3>2. driver' = r.driver /\ session' = r.session
      BY <1>3, <2>1 DEF Sample, SampleResult, Commit
    <3> HIDE DEF r
    <3>3. Locked(session).armed = FALSE
      BY <1>0 DEF Locked, SessionStates
    <3> QED BY <3>1, <3>2, <3>3 DEF TickResult, TimelyMove, LeaseStep
  <2>2. CASE ~session.live
    <3>1. driver.command = NoCommand /\ session.armed = FALSE
      BY <1>0, <2>2 DEF Settled, SessionStates
    <3>2. Advance(driver, now).time = now /\ Within(driver, session, Advance(driver, now))
      BY <1>0, <3>1, IdleMove
    <3>3. driver' = Advance(driver, now) /\ session' = session
      BY <1>3, <2>2 DEF Sample, SampleResult, Commit, Done
    <3> QED BY <3>1, <3>2, <3>3 DEF TimelyMove, LeaseStep
  <2> QED BY <2>1, <2>2
<1>4. ASSUME NEW c \in Commands, HandleCommand(c)
      PROVE  TimelyMove
  <2> DEFINE r == Handle(driver, session, c, now, challenges + 1)
  <2>1. session.live = TRUE /\ challenges + 1 \in Nat
    BY <1>0, <1>4 DEF HandleCommand, SessionStates
  <2>2. HandleResults(driver, session, now, r)
    BY <1>0, <2>1, HandleTimely
  <2>3. driver' = r.driver /\ session' = r.session
    BY <1>4 DEF HandleCommand, HandleResult, Commit
  <2> HIDE DEF r
  <2> QED BY <2>2, <2>3 DEF HandleResults, TimelyMove
<1>5. CASE CloseSession \/ EndSession
  <2> DEFINE r == Close(driver, session, now)
  <2>1. CloseResult(driver, session, now, r)
    BY <1>0, CloseTimely
  <2>2. /\ driver' = r.driver
        /\ session' = r.session \/ session' = NoSession
    BY <1>5, <2>1 DEF CloseSession, EndSession, Commit, Done, CloseResult
  <2> HIDE DEF r
  <2>3. NoSession.armed = FALSE
    BY DEF NoSession, NewSession
  <2> QED BY <2>1, <2>2, <2>3 DEF CloseResult, TimelyMove, LeaseStep
<1> QED BY <1>1, <1>2, <1>3, <1>4, <1>5 DEF CalmStep

\* So does every step of the session, without tracking loss.
LEMMA StepTimely ==
  ASSUME ~TrackingLoss, SessionInv, Timely(driver, session), SessionNext
  PROVE  TimelyMove \/ UNCHANGED <<driver, session>>
<1>1. ASSUME NEW c \in Inputs, HandleCommand(c) PROVE CalmStep
  BY <1>1, InputsAssumption DEF CalmStep
<1>2. ASSUME NEW tracked \in BOOLEAN, TrackingChange(tracked) PROVE FALSE
  BY <1>2 DEF TrackingChange
<1> QED BY <1>1, <1>2, CalmStepTimely DEF SessionNext, CalmStep

\* Such a move does not take the driver's time past an armed deadline.
LEMMA MoveTimely ==
  ASSUME SessionInv, SessionInv', Timely(driver, session),
         TimelyMove \/ UNCHANGED <<driver, session>>
  PROVE  Timely(driver, session)'
<1>1. CASE UNCHANGED <<driver, session>>
  BY <1>1 DEF Timely
<1>2. CASE TimelyMove
  <2>1. now \in Nat /\ session'.expiry \in Nat
    BY SessionAssumption DEF SessionInv, Settled, SessionStates
  <2> QED BY <1>2, <2>1 DEF TimelyMove, Timely
<1> QED BY <1>1, <1>2

\* Without tracking loss no step takes the driver's time past an armed deadline.
LEMMA TimelyStep ==
  ASSUME ~TrackingLoss, SessionInv, Timely(driver, session), [SessionNext]_sessionVars
  PROVE  Timely(driver, session)'
<1>1. SessionInv'
  BY SessionInvStep
<1>2. UNCHANGED sessionVars => UNCHANGED <<driver, session>>
  BY DEF sessionVars
<1> QED BY <1>1, <1>2, StepTimely, MoveTimely

\* If set_tracking is never called, the tick of the watchdog, of the camera
\* source and of every command never raises, however late it comes.
THEOREM WatchdogNeverFails ==
  ASSUME ~TrackingLoss
  PROVE  SessionSpec => []TickNeverRaises
<1>1. SessionInit => Timely(driver, session)
  BY DEF SessionInit, NoSession, NewSession, Timely
<1>2. SessionInv /\ Timely(driver, session) /\ [SessionNext]_sessionVars
        => Timely(driver, session)'
  BY TimelyStep
<1>3. SessionInv /\ Timely(driver, session) => TickNeverRaises
  <2> SUFFICES ASSUME SessionInv, Timely(driver, session) PROVE TickNeverRaises
    OBVIOUS
  <2>1. Settled(driver, session, now) /\ now \in Nat
    BY SessionAssumption DEF SessionInv
  <2>2. TickResult(driver, session, now, Tick(driver, session, now))
    BY <2>1, TickTimely
  <2> QED BY <2>2 DEF TickResult, TickNeverRaises
<1> QED BY <1>1, <1>2, <1>3, SessionInvariant, PTL DEF SessionSpec

\* A timely move is a step of the dead man's switch.
LEMMA MoveIsLeaseStep ==
  ASSUME SessionInv, TimelyMove
  PROVE  Lease!LeaseNext
<1>0. /\ driver.time \in Nat /\ driver.time <= now /\ now \in Nat
      /\ session \in SessionStates
  BY SessionAssumption DEF SessionInv, Settled, Drivers
<1>1. Lease!Paid(driver'.time) = PaidUntil(driver, session, driver'.time)
  BY DEF Lease!Paid, PaidUntil
<1>2. Lease!Moved
  BY <1>0, <1>1 DEF TimelyMove, Within, Lease!Moved
<1>3. CASE ~session'.armed
  BY <1>2, <1>3 DEF Lease!LeaseNext, Lease!Lock, Lease!Release
<1>4. CASE session'.armed /\ session.armed /\ session'.expiry = session.expiry
  BY <1>2, <1>4 DEF Lease!LeaseNext, Lease!Coast
<1>5. CASE /\ session'.armed /\ ~session.needsRelease /\ (session.armed => now < session.expiry)
           /\ session'.expiry > now /\ session'.expiry <= now + MaxLease
  BY <1>2, <1>5 DEF TimelyMove, Lease!LeaseNext, Lease!Grant
<1> QED BY <1>3, <1>4, <1>5 DEF TimelyMove, LeaseStep

\* If set_tracking is never called, the session is a dead man's switch: for
\* every client and every schedule of ticks, commands and disconnects the axis
\* moves only on leased time, and only a release lifts a lock.
THEOREM SessionImplementsLease ==
  ASSUME ~TrackingLoss
  PROVE  SessionSpec => ImplementsLease
<1>1. SessionInit => Timely(driver, session)
  BY DEF SessionInit, NoSession, NewSession, Timely
<1>2. SessionInv /\ Timely(driver, session) /\ [SessionNext]_sessionVars
        => Timely(driver, session)'
  BY TimelyStep
<1>3. SessionInit => Lease!LeaseInit
  BY DEF SessionInit, InitialDriver, NoSession, NewSession, Lease!LeaseInit
<1>4. SessionInv /\ Timely(driver, session) /\ [SessionNext]_sessionVars
        => [Lease!LeaseNext]_(Lease!leaseVars)
  <2> SUFFICES ASSUME SessionInv, Timely(driver, session), [SessionNext]_sessionVars
               PROVE  [Lease!LeaseNext]_(Lease!leaseVars)
    OBVIOUS
  <2>1. CASE TimelyMove
    BY <2>1, MoveIsLeaseStep
  <2>2. CASE UNCHANGED <<driver, session>>
    BY <2>2 DEF Lease!leaseVars
  <2>3. UNCHANGED sessionVars => UNCHANGED <<driver, session>>
    BY DEF sessionVars
  <2> QED BY <2>1, <2>2, <2>3, StepTimely
<1> QED BY <1>1, <1>2, <1>3, <1>4, SessionInvariant, PTL
        DEF SessionSpec, ImplementsLease, Lease!LeaseSpec
=============================================================================
