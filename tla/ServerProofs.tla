----------------------------- MODULE ServerProofs -----------------------------
(***************************************************************************)
(* Proofs about GimbalServer, for any number of connections and every      *)
(* interleaving of the accept, watchdog and client threads with close():   *)
(* one thread at a time owns the session, a close() that returned left     *)
(* nothing behind, and after it the axis never moves again.                *)
(*                                                                         *)
(* Of the session only three things are needed: SessionInv, proved in      *)
(* GimbalSessionProofs; that an idle session, which is not armed and needs *)
(* a release, cannot be armed by the one frame a thread may still have in  *)
(* hand when close() is called; and that a stuck one, whose tick raises as *)
(* the driver is past its deadline, stays so. SlotInv says which thread    *)
(* may touch the session, StopInv what each way to stop has established.   *)
(***************************************************************************)
EXTENDS GimbalServer, GimbalSessionProofs

\* The driver is past the deadline of an armed lease: every tick raises.
Stuck(d, s) == s.live /\ s.armed /\ s.expiry < d.time

\* No command stands, and the next frame cannot give one.
Idle(d, s) == d.command = NoCommand /\ ~s.armed

ServerTypes ==
    /\ pc \in [Conns -> Points] /\ link \in [Conns -> {"open", "shut"}]
    /\ client \in Conns \union {NoConn} /\ wrapped \in BOOLEAN /\ stopping \in BOOLEAN
    /\ acceptor \in {"run", "done"}
    /\ watchdog \in {"wait", "sample", "failed", "gate", "done"}
    /\ closer \in {"idle", "gate", "shutdown", "join", "done", "raised"}
    /\ captured \in [conn: Conns \union {NoConn}, wrapped: BOOLEAN]

SlotInv ==
    /\ \A c \in Conns : pc[c] # "none" => client = c
    /\ \A c \in Conns : pc[c] = "none" => client # c /\ link[c] = "shut"
    /\ session.live =>
         client # NoConn /\ pc[client] \in {"reply", "loop", "handle", "cleanup", "crashed"}
    /\ \A c \in Conns :
         /\ pc[c] \in {"start", "wrap", "handshake", "session"} => sessions < MaxSessions
         /\ pc[c] \in {"reply", "loop", "handle"} => session.live
         /\ pc[c] = "crashed" => Stuck(driver, session)

\* close() has left its locked section.
Closed == closer \in {"shutdown", "join", "done"}

StopInv ==
    /\ closer # "idle" => stopping
    /\ stopping /\ closer = "idle" => watchdog \in {"gate", "done"}
    /\ watchdog \in {"failed", "gate"} \/ (watchdog = "done" /\ closer = "idle") =>
         Stuck(driver, session)
    /\ watchdog = "done" /\ closer = "idle" => driver.command = NoCommand
    /\ Closed => Idle(driver, session)
    /\ Closed => \A c \in Conns : pc[c] = "handle" => session.needsRelease
    /\ closer = "done" => acceptor = "done" /\ watchdog = "done" /\ \A c \in Conns : pc[c] = "none"

(***************************************************************************)
(* The operations of the session                                           *)
(***************************************************************************)
\* A tick raises exactly when the driver is past the deadline, and a stuck session
\* is left as it is by every operation that starts with one.
LEMMA StuckTick ==
    ASSUME NEW d, NEW s, NEW t \in Nat, Settled(d, s, t), Stuck(d, s)
    PROVE  /\ Tick(d, s, t) = Raised(d, s) /\ Close(d, s, t) = Raised(d, s)
           /\ \A c, fresh : Handle(d, s, c, t, fresh) = Raised(d, s)
<1>1. d.time \in Nat /\ d.time <= t /\ s.expiry \in Nat
  BY DEF Settled, Drivers, SessionStates
<1>2. Tick(d, s, t) = Raised(d, s)
  BY <1>1 DEF Stuck, Tick, Reversed
<1>3. Raised(d, s).raised
  BY DEF Raised
<1> QED
  BY <1>2, <1>3 DEF Close, Handle

\* Nothing else makes a tick raise.
LEMMA OnlyStuckTickRaises ==
    ASSUME NEW d, NEW s, NEW t \in Nat, Settled(d, s, t), Tick(d, s, t).raised
    PROVE  Stuck(d, s) /\ Tick(d, s, t) = Raised(d, s)
<1>1. d.time \in Nat /\ d.time <= t /\ s.expiry \in Nat
  BY DEF Settled, Drivers, SessionStates
<1>2. ~Reversed(d, t)
  BY <1>1 DEF Reversed
<1>3. s.armed /\ t >= s.expiry /\ Reversed(d, s.expiry)
  BY <1>2 DEF Tick, Done
<1>4. s.live
  BY <1>3 DEF Settled
<1> QED
  BY <1>1, <1>3, <1>4 DEF Stuck, Reversed, Tick

\* A tick never gives a command; it moves an axis only by the command that stands.
LEMMA TickGentle ==
    ASSUME NEW d, NEW s, NEW t \in Nat, Settled(d, s, t)
    PROVE  LET r == Tick(d, s, t) IN
           /\ d.command = NoCommand =>
                r.driver.command = NoCommand /\ (~s.armed => r.driver.pan = d.pan)
           /\ ~s.armed => r.session = s
<1> DEFINE r == Tick(d, s, t)
<1>1. d \in Drivers /\ d.time \in Nat /\ d.time <= t /\ s.expiry \in Nat
  BY DEF Settled, Drivers, SessionStates
<1>2. CASE r.raised
  BY <1>2, OnlyStuckTickRaises DEF Raised
<1>3. CASE s.armed /\ t >= s.expiry /\ ~r.raised
  <2> DEFINE h == Hold(d, s.expiry)
             a == Advance(h, t)
  <2>1. r = Done(a, Locked(s)) /\ ~Reversed(d, s.expiry)
    BY <1>3 DEF Tick, Raised
  <2>2. h \in Drivers /\ h.time = s.expiry /\ h.command = NoCommand
    BY <1>1, <2>1, HoldSound DEF Reversed
  <2>3. a.command = NoCommand
    BY <1>1, <1>3, <2>2, AdvanceSound
  <2> HIDE DEF a
  <2> QED
    BY <1>3, <2>1, <2>3 DEF Done
<1>4. CASE ~(s.armed /\ t >= s.expiry) /\ ~r.raised
  <2> DEFINE a == Advance(d, t)
  <2>1. r = Done(a, s)
    BY <1>4 DEF Tick, Raised
  <2>2. a.command = d.command /\ (d.command = NoCommand => a.pan = d.pan)
    BY <1>1, AdvanceSound
  <2> HIDE DEF a
  <2> QED
    BY <2>1, <2>2 DEF Done
<1> QED
  BY <1>2, <1>3, <1>4

\* A close that does not raise leaves the axis held and the session locked.
LEMMA CloseGentle ==
    ASSUME NEW d, NEW s, NEW t \in Nat, Settled(d, s, t)
    PROVE  LET r == Close(d, s, t) IN
           /\ r.raised => Stuck(d, s) /\ r.driver = d /\ r.session = s
           /\ ~r.raised => Idle(r.driver, r.session) /\ r.session.needsRelease
           /\ r.session.live = s.live
           /\ d.command = NoCommand => r.driver.command = NoCommand
           /\ Idle(d, s) => r.driver.pan = d.pan
<1> DEFINE k == Tick(d, s, t)
           r == Close(d, s, t)
<1>1. /\ Settled(k.driver, k.session, t) /\ (~k.raised => k.driver.time = t)
      /\ k.session.live = s.live
  BY TickSound
<1>2. CASE k.raised
  <2>1. Stuck(d, s) /\ k = Raised(d, s)
    BY <1>2, OnlyStuckTickRaises
  <2>2. r = k
    BY <1>2 DEF Close
  <2> QED
    BY <2>1, <2>2 DEF Raised
<1>3. CASE ~k.raised
  <2>1. r = Done(Hold(k.driver, t), Locked(k.session))
    BY <1>3 DEF Close
  <2>2. /\ d.command = NoCommand => k.driver.command = NoCommand
        /\ Idle(d, s) => k.driver.pan = d.pan
    BY TickGentle DEF Idle
  <2>3. k.driver \in Drivers /\ k.driver.time <= t /\ k.session \in SessionStates
    BY <1>1 DEF Settled, Drivers
  <2> HIDE DEF k
  <2>4. /\ Hold(k.driver, t).command = NoCommand
        /\ k.driver.command = NoCommand => Hold(k.driver, t).pan = k.driver.pan
    BY <2>3, HoldSound, AdvanceSound
  <2>5. ~Locked(k.session).armed /\ Locked(k.session).needsRelease
        /\ Locked(k.session).live = k.session.live
    BY <2>3 DEF Locked, SessionStates
  <2> QED
    BY <1>1, <2>1, <2>2, <2>4, <2>5 DEF Done, Idle
<1> QED
  BY <1>2, <1>3

\* Whatever one frame says, it cannot arm a session that needs a release.
LEMMA ExecuteGentle ==
    ASSUME NEW d, NEW s, NEW t \in Nat, NEW c \in Commands, Settled(d, s, t),
           Idle(d, s), s.needsRelease
    PROVE  LET r == Execute(d, s, c, t) IN
           Idle(r.driver, r.session) /\ r.driver.pan = d.pan
<1> DEFINE r == Execute(d, s, c, t)
<1>1. d \in Drivers /\ d.time <= t /\ s \in SessionStates /\ c.kind \in Kinds
  BY DEF Settled, Drivers, Commands
<1>2. Hold(d, t).command = NoCommand /\ Hold(d, t).pan = d.pan
  BY <1>1, HoldSound, AdvanceSound DEF Idle
<1>3. ~Locked(s).armed /\ ~Released(s).armed
  BY <1>1 DEF Locked, Released, SessionStates
<1>4. r \in {Done(Hold(d, t), Released(s)), Done(Hold(d, t), Locked(s)), Done(d, s)}
  <2>1. CASE Releases(c)
    BY <2>1 DEF Execute
  <2>2. CASE ~Releases(c) /\ (~Answers(s, c, t) \/ c.kind = "resetMap")
    BY <2>2 DEF Execute
  <2>3. CASE ~Releases(c) /\ Answers(s, c, t) /\ c.kind = "aim"
    BY <2>3 DEF Execute
  <2> QED
    BY <1>1, <2>1, <2>2, <2>3 DEF Kinds, Releases
<1> HIDE DEF r
<1>5. /\ r.driver.command = NoCommand /\ r.driver.pan = d.pan
      /\ r.session \in {Released(s), Locked(s), s}
  BY <1>2, <1>4 DEF Done, Idle
<1>6. Idle(r.driver, r.session) /\ r.driver.pan = d.pan
  BY <1>3, <1>5 DEF Idle
<1> QED
  BY <1>6 DEF r

Unmoved(r, d) == Idle(r.driver, r.session) /\ r.driver.pan = d.pan

\* A frame on an idle session that needs a release neither arms it nor moves the axis.
LEMMA HandleGentle ==
    ASSUME NEW d, NEW s, NEW t \in Nat, NEW c \in Commands, NEW fresh \in Nat,
           Settled(d, s, t), s.live = TRUE, Idle(d, s), s.needsRelease = TRUE
    PROVE  Unmoved(Handle(d, s, c, t, fresh), d)
<1> DEFINE k == Tick(d, s, t)
           z == Close(k.driver, k.session, t)
           a == [k.session EXCEPT !.sequence = c.sequence, !.clientNs = c.clientNs]
           x == Execute(k.driver, a, c, t)
           y == Tick(x.driver, x.session, t)
           r == Handle(d, s, c, t, fresh)
<1>1. ~k.raised
  BY OnlyStuckTickRaises DEF Stuck, Idle
<1>2. /\ Settled(k.driver, k.session, t) /\ k.driver.time = t /\ k.session = s
      /\ Idle(k.driver, k.session) /\ k.driver.pan = d.pan
  BY <1>1, TickSound, TickGentle DEF Idle
<1> HIDE DEF k
<1>3. CASE Invalid(s, c)
  <2>1. r = Raised(z.driver, z.session)
    BY <1>1, <1>3 DEF Handle, k
  <2>2. ~z.raised
    BY <1>2, CloseGentle DEF Stuck, Idle
  <2>3. Idle(z.driver, z.session) /\ z.driver.pan = k.driver.pan
    BY <1>2, <2>2, CloseGentle
  <2> HIDE DEF z
  <2> QED
    BY <1>2, <2>1, <2>3 DEF Raised, Unmoved
<1>4. CASE ~Invalid(s, c)
  <2>1. r = Reply(x, t, fresh)
    BY <1>1, <1>4 DEF Handle, k
  <2>2. /\ a \in SessionStates /\ a.live = TRUE /\ a.armed = s.armed /\ a.issued = s.issued
        /\ a.needsRelease = s.needsRelease /\ a.expiry = s.expiry
    BY <1>2 DEF Settled, SessionStates, Commands
  <2>3. Settled(k.driver, a, t) /\ Idle(k.driver, a)
    BY <1>2, <2>2 DEF Settled, Idle
  <2> HIDE DEF a
  <2>4. /\ Settled(x.driver, x.session, t) /\ Idle(x.driver, x.session)
        /\ x.driver.pan = k.driver.pan
    BY <1>2, <2>2, <2>3, ExecuteSound, ExecuteGentle
  <2> HIDE DEF x
  <2>5. /\ y.driver.command = NoCommand /\ y.driver.pan = x.driver.pan
        /\ y.session = x.session
    BY <2>4, TickGentle DEF Idle
  <2> DEFINE n == [y.session EXCEPT !.challenge = fresh, !.issued = t]
  <2>6. r = IF x.raised \/ y.raised THEN Raised(x.driver, x.session)
            ELSE Done(y.driver, n)
    BY <2>1 DEF Reply
  <2> HIDE DEF y
  <2>7. x.session \in SessionStates
    BY <2>4 DEF Settled
  <2>8. ~n.armed
    BY <2>4, <2>5, <2>7 DEF Idle, SessionStates
  <2> HIDE DEF n
  <2>9. CASE x.raised \/ y.raised
    BY <1>2, <2>4, <2>6, <2>9 DEF Raised, Unmoved
  <2>10. CASE ~(x.raised \/ y.raised)
    <3>1. r.driver = y.driver /\ r.session = n
      BY <2>6, <2>10 DEF Done
    <3> QED
      BY <1>2, <2>4, <2>5, <2>8, <3>1 DEF Idle, Unmoved
  <2> QED
    BY <2>9, <2>10
<1> QED
  BY <1>3, <1>4

(***************************************************************************)
(* What a step does to the session, as far as the threads depend on it     *)
(***************************************************************************)
\* It gives no command, releases nothing and frees no stuck session.
Gentle ==
    /\ Stuck(driver, session) => Stuck(driver', session')
    /\ Idle(driver, session) =>
         /\ Idle(driver', session') /\ driver'.pan = driver.pan
         /\ session.needsRelease => session'.needsRelease
    /\ driver.command = NoCommand => driver'.command = NoCommand
    /\ session'.live = session.live /\ sessions' = sessions

\* The types and stamps that the lemmas above need.
LEMMA NowSettled ==
    ASSUME SessionInv
    PROVE  /\ Settled(driver, session, now) /\ now \in Nat /\ driver \in Drivers
           /\ driver.time <= now /\ driver.time \in Nat /\ session \in SessionStates
           /\ session.expiry \in Nat /\ challenges \in Nat /\ sessions \in Nat
  BY SessionAssumption DEF SessionInv, Settled, Drivers, SessionStates

\* A hold, without a tick before it.
LEMMA HoldIsGentle ==
    ASSUME SessionInv, driver' = Hold(driver, now),
           UNCHANGED <<now, session, challenges, sessions, clearRequested>>
    PROVE  SessionInv' /\ Gentle /\ driver'.command = NoCommand
<1>1. /\ driver' \in Drivers /\ driver'.time = now /\ driver'.command = NoCommand
      /\ driver.command = NoCommand => driver'.pan = driver.pan
  BY NowSettled, HoldSound, AdvanceSound
<1>2. Settled(driver', session, now)
  BY <1>1, NowSettled DEF Settled, SessionInv
<1>3. Stuck(driver, session) => Stuck(driver', session')
  BY <1>1, NowSettled DEF Stuck
<1> QED
  BY <1>1, <1>2, <1>3 DEF SessionInv, Gentle, Idle

\* The watchdog and the camera source only tick.
LEMMA SampleIsGentle ==
    ASSUME SessionInv, Sample
    PROVE  Gentle /\ (SampleResult.raised => Stuck(driver', session'))
<1>1. driver' = SampleResult.driver /\ session' = SampleResult.session /\ sessions' = sessions
  BY DEF Sample, Commit
<1>2. CASE session.live
  <2> DEFINE r == Tick(driver, session, now)
  <2>1. SampleResult = r
    BY <1>2 DEF SampleResult
  <2>2. /\ driver.command = NoCommand => r.driver.command = NoCommand
                             /\ (~session.armed => r.driver.pan = driver.pan)
        /\ ~session.armed => r.session = session
    BY NowSettled, TickGentle
  <2>3. r.session.live = session.live
    BY NowSettled, TickSound
  <2>4. Stuck(driver, session) => r.driver = driver /\ r.session = session
    BY NowSettled, StuckTick DEF Raised
  <2>5. r.raised => Stuck(driver, session)
    BY NowSettled, OnlyStuckTickRaises
  <2> HIDE DEF r
  <2> QED
    BY <1>1, <2>1, <2>2, <2>3, <2>4, <2>5 DEF Gentle, Idle
<1>3. CASE ~session.live
  <2>1. SampleResult = Done(Advance(driver, now), session)
    BY <1>3 DEF SampleResult
  <2>2. /\ Advance(driver, now).command = driver.command
        /\ driver.command = NoCommand => Advance(driver, now).pan = driver.pan
    BY NowSettled, AdvanceSound
  <2> QED
    BY <1>1, <1>3, <2>1, <2>2 DEF Done, Gentle, Idle, Stuck
<1> QED
  BY <1>2, <1>3

\* The locked section of close().
LEMMA CloseIsGentle ==
    ASSUME SessionInv, CloseSession
    PROVE  /\ Gentle
           /\ ~Close(driver, session, now).raised =>
                Idle(driver', session') /\ session'.needsRelease
<1> DEFINE r == Close(driver, session, now)
<1>1. driver' = r.driver /\ session' = r.session /\ sessions' = sessions
  BY DEF CloseSession, Commit
<1>2. /\ r.raised => Stuck(driver, session) /\ r.driver = driver /\ r.session = session
      /\ ~r.raised => Idle(r.driver, r.session) /\ r.session.needsRelease
      /\ r.session.live = session.live
      /\ driver.command = NoCommand => r.driver.command = NoCommand
      /\ Idle(driver, session) => r.driver.pan = driver.pan
  BY NowSettled, CloseGentle
<1>3. Stuck(driver, session) => r.raised
  BY NowSettled, StuckTick DEF Raised
<1> HIDE DEF r
<1>4. Gentle
  BY <1>1, <1>2, <1>3 DEF Gentle, Stuck, Idle
<1> QED
  BY <1>1, <1>2, <1>4 DEF r

\* Only a stuck session outlives the end of its connection.
LEMMA EndIsGentle ==
    ASSUME SessionInv, EndSession
    PROVE  /\ session'.live => Stuck(driver, session) /\ driver' = driver /\ session' = session
           /\ ~session'.live => Idle(driver', session')
           /\ Stuck(driver, session) => session'.live
           /\ Idle(driver, session) => driver'.pan = driver.pan
           /\ driver.command = NoCommand => driver'.command = NoCommand
           /\ sessions' = sessions
<1> DEFINE r == Close(driver, session, now)
<1>1. /\ r.raised => driver' = r.driver /\ session' = r.session
      /\ ~r.raised => driver' = r.driver /\ session' = NoSession
      /\ sessions' = sessions /\ session.live
  BY DEF EndSession, Commit, Done
<1>2. /\ r.raised => Stuck(driver, session) /\ r.driver = driver /\ r.session = session
      /\ ~r.raised => Idle(r.driver, r.session)
      /\ driver.command = NoCommand => r.driver.command = NoCommand
      /\ Idle(driver, session) => r.driver.pan = driver.pan
  BY NowSettled, CloseGentle
<1>3. Stuck(driver, session) => r.raised
  BY NowSettled, StuckTick DEF Raised
<1>4. ~NoSession.live /\ ~NoSession.armed
  BY DEF NoSession, NewSession
<1> HIDE DEF r
<1> QED
  BY <1>1, <1>2, <1>3, <1>4 DEF Idle

\* set_tracking only holds the axis.
LEMMA TrackingIsGentle ==
    ASSUME SessionInv, NEW tracked \in BOOLEAN, TrackingChange(tracked)
    PROVE  Gentle
<1> DEFINE h == Hold(driver, now)
<1>1. /\ h \in Drivers /\ h.time = now /\ h.command = NoCommand
      /\ driver.command = NoCommand => h.pan = driver.pan
  BY NowSettled, HoldSound, AdvanceSound
<1>2. driver' = [h EXCEPT !.tracked = tracked] /\ session' = session /\ sessions' = sessions
  BY DEF TrackingChange, SetTracking
<1> HIDE DEF h
<1>3. driver'.time = now /\ driver'.command = NoCommand /\ driver'.pan = h.pan
  BY <1>1, <1>2 DEF Drivers
<1>4. Stuck(driver, session) => Stuck(driver', session')
  BY <1>2, <1>3, NowSettled DEF Stuck
<1> QED
  BY <1>1, <1>2, <1>3, <1>4 DEF Gentle, Idle

\* A frame is handled: on a stuck session in vain, on an idle one without motion.
LEMMA HandleIsGentle ==
    ASSUME SessionInv, NEW c \in Inputs, HandleCommand(c)
    PROVE  /\ session.live /\ session'.live /\ sessions' = sessions
           /\ Stuck(driver, session) =>
                driver' = driver /\ session' = session /\ HandleResult(c).raised
           /\ Idle(driver, session) /\ session.needsRelease =>
                Idle(driver', session') /\ driver'.pan = driver.pan
<1> DEFINE r == Handle(driver, session, c, now, challenges + 1)
<1>1. /\ driver' = r.driver /\ session' = r.session /\ sessions' = sessions
      /\ session.live = TRUE
  BY NowSettled DEF HandleCommand, HandleResult, Commit, SessionStates
<1>2. c \in Commands /\ challenges + 1 \in Nat
  BY InputsAssumption, NowSettled
<1>3. r.session.live = TRUE
  <2>1. /\ Settled(r.driver, r.session, now)
        /\ r.raised => r.session.challenge = session.challenge
        /\ ~r.raised => r.session.challenge = challenges + 1
        /\ r.session.live = TRUE
    BY <1>1, <1>2, NowSettled, HandleSound, Zenon
  <2> QED
    BY <2>1
<1>4. Stuck(driver, session) => r = Raised(driver, session)
  BY NowSettled, StuckTick
<1>5. Idle(driver, session) /\ session.needsRelease =>
        Idle(r.driver, r.session) /\ r.driver.pan = driver.pan
  <2>1. ASSUME Idle(driver, session), session.needsRelease
        PROVE  Idle(r.driver, r.session) /\ r.driver.pan = driver.pan
    <3>1. Settled(driver, session, now) /\ now \in Nat
      BY NowSettled
    <3>2. session.live = TRUE /\ Idle(driver, session) /\ session.needsRelease = TRUE
      BY <1>1, <2>1, NowSettled DEF SessionStates
    <3>3. Unmoved(Handle(driver, session, c, now, challenges + 1), driver)
      BY <1>2, <3>1, <3>2, HandleGentle
    <3> QED
      BY <3>3 DEF Unmoved
  <2> QED
    BY <2>1
<1>6. HandleResult(c) = r
  BY DEF HandleResult
<1> HIDE DEF r
<1> QED
  BY <1>1, <1>3, <1>4, <1>5, <1>6 DEF Raised

(***************************************************************************)
(* The steps of the threads                                                *)
(***************************************************************************)
Safe == SessionInv /\ ServerTypes /\ SlotInv /\ StopInv

\* What is shown of every step.
StepSafe == Safe' /\ (Closed => driver'.pan = driver.pan)

\* Two threads of connections never run at once.
LEMMA OneThread ==
    ASSUME SlotInv, NEW c \in Conns, pc[c] # "none"
    PROVE  client = c /\ \A x \in Conns : pc[x] # "none" => x = c
  BY DEF SlotInv

\* The session as the threads see it does not change when no variable of it does.
LEMMA QuietIsGentle ==
    ASSUME SessionInv, UNCHANGED sessionVars
    PROVE  SessionInv' /\ Gentle
  BY DEF SessionInv, sessionVars, Gentle, Stuck, Idle

\* A gentle step keeps who may touch the session, and what stopping established.
LEMMA GentleSlot ==
    ASSUME SlotInv, Gentle, UNCHANGED <<pc, client>>,
           link' = link \/ \E x \in Conns : link' = [link EXCEPT ![x] = "shut"],
           ServerTypes
    PROVE  SlotInv'
<1>1. \A c \in Conns : link[c] = "shut" => link'[c] = "shut"
  BY DEF ServerTypes
<1> QED
  BY <1>1 DEF SlotInv, Gentle

\* The same of what stopping has established; after close() the axis stands still.
LEMMA GentleStop ==
    ASSUME StopInv, Gentle, UNCHANGED <<pc, stopping, acceptor, watchdog, closer>>
    PROVE  StopInv' /\ (Closed => driver'.pan = driver.pan)
<1>1. Closed => Idle(driver, session) /\ Idle(driver', session') /\ driver'.pan = driver.pan
  BY DEF StopInv, Gentle
<1>2. Closed' = Closed
  BY DEF Closed
<1>3. Closed' => \A c \in Conns : pc'[c] = "handle" => session'.needsRelease
  BY <1>1, <1>2 DEF StopInv, Gentle
<1>4. /\ driver.command = NoCommand => driver'.command = NoCommand
      /\ Stuck(driver, session) => Stuck(driver', session')
  BY DEF Gentle
<1> QED
  BY <1>1, <1>2, <1>3, <1>4 DEF StopInv

\* The moves of a thread that touch neither the session nor the client slot.
MoveOf(from, to) ==
    \/ from = "start" /\ to \in {"wrap", "cleanup"}
    \/ from = "wrap" /\ to = "handshake"
    \/ from = "handshake" /\ to \in {"session", "cleanup"}
    \/ from = "reply" /\ to \in {"loop", "cleanup"}
    \/ from = "loop" /\ to = "handle" /\ ~stopping
    \/ from = "loop" /\ to = "cleanup"
    \/ from = "cleanup" /\ to = "release" /\ ~session.live

\* Such a move keeps the invariant.
LEMMA MoveSafe ==
    ASSUME Safe, NEW c \in Conns, NEW from, NEW to, MoveOf(from, to), Goto(c, from, to),
           wrapped' \in BOOLEAN,
           UNCHANGED <<sessionVars, link, client, stopping, acceptor, watchdog, closer, captured>>
    PROVE  StepSafe
<1>1. SessionInv' /\ Gentle
  BY QuietIsGentle DEF Safe
<1>2. pc[c] = from /\ pc' = [pc EXCEPT ![c] = to] /\ pc \in [Conns -> Points]
  BY DEF Goto, Safe, ServerTypes
<1>3. from # "none" /\ to # "none" /\ to \in Points
  BY DEF MoveOf, Points
<1>4. client = c /\ \A x \in Conns : x # c => pc[x] = "none"
  BY <1>2, <1>3, OneThread DEF Safe
<1>5. pc'[c] = to /\ \A x \in Conns : x # c => pc'[x] = "none"
  BY <1>2, <1>4
<1>6. ServerTypes'
  BY <1>2, <1>3 DEF Safe, ServerTypes
<1>7. SlotInv'
  <2>1. session' = session /\ driver' = driver /\ sessions' = sessions
    BY DEF sessionVars
  <2>2. session.live => from \in {"reply", "loop", "handle", "cleanup", "crashed"}
    BY <1>2, <1>4 DEF Safe, SlotInv
  <2>3. /\ to \in {"wrap", "handshake", "session"} =>
             from \in {"start", "wrap", "handshake"}
        /\ to \in {"reply", "loop", "handle"} => from \in {"reply", "loop"}
        /\ to \notin {"start", "crashed"}
        /\ session.live /\ from \in {"reply", "loop", "handle", "cleanup", "crashed"} =>
             to \in {"loop", "handle", "cleanup"}
    BY DEF MoveOf
  <2>4. \A x \in Conns : pc'[x] = "none" => client # x /\ link[x] = "shut"
    BY <1>2, <1>3, <1>4, <1>5 DEF Safe, SlotInv
  <2> QED
    BY <1>2, <1>3, <1>4, <1>5, <2>1, <2>2, <2>3, <2>4 DEF Safe, SlotInv
<1>8. StopInv' /\ (Closed => driver'.pan = driver.pan)
  <2>1. session' = session /\ driver' = driver
    BY DEF sessionVars
  <2>2. Closed => to # "handle"
    BY DEF MoveOf, Closed, Safe, StopInv
  <2>3. closer # "done"
    BY <1>2, <1>3 DEF Safe, StopInv
  <2>4. \A x \in Conns : pc'[x] = "handle" => x = c /\ to = "handle"
    BY <1>5
  <2>5. Closed' = Closed
    BY DEF Closed
  <2> QED
    BY <2>1, <2>2, <2>3, <2>4, <2>5 DEF Safe, StopInv
<1> QED
  BY <1>1, <1>6, <1>7, <1>8 DEF StepSafe, Safe

\* Every move of a connection's thread that leaves session and slot alone is one of these.
LEMMA ServeMoveSafe ==
    ASSUME Safe, NEW c \in Conns,
           \/ Wrap(c) \/ PublishStream(c) \/ Authenticate(c) \/ SendReply(c)
           \/ Receive(c) \/ LeaveLoop(c)
    PROVE  StepSafe
<1>1. wrapped \in BOOLEAN
  BY DEF Safe, ServerTypes
<1>2. CASE Wrap(c)
  <2>1. PICK to \in {"wrap", "cleanup"} : Goto(c, "start", to)
    BY <1>2 DEF Wrap
  <2>2. MoveOf("start", to)
    BY DEF MoveOf
  <2> QED
    BY <1>1, <1>2, <2>1, <2>2, MoveSafe DEF Wrap
<1>3. CASE PublishStream(c)
  <2>1. Goto(c, "wrap", "handshake") /\ MoveOf("wrap", "handshake")
    BY <1>3 DEF PublishStream, MoveOf
  <2>2. client' = client
    BY <1>3, <2>1, OneThread DEF PublishStream, Goto, Safe
  <2> QED
    BY <1>3, <2>1, <2>2, MoveSafe DEF PublishStream
<1>4. CASE Authenticate(c)
  <2>1. PICK to \in {"session", "cleanup"} : Goto(c, "handshake", to)
    BY <1>4 DEF Authenticate
  <2>2. MoveOf("handshake", to)
    BY DEF MoveOf
  <2> QED
    BY <1>1, <1>4, <2>1, <2>2, MoveSafe DEF Authenticate
<1>5. CASE SendReply(c)
  <2>1. PICK to \in {"loop", "cleanup"} : Goto(c, "reply", to)
    BY <1>5 DEF SendReply
  <2>2. MoveOf("reply", to)
    BY DEF MoveOf
  <2> QED
    BY <1>1, <1>5, <2>1, <2>2, MoveSafe DEF SendReply
<1>6. CASE Receive(c)
  <2>1. PICK to \in {"handle", "cleanup"} : Goto(c, "loop", to)
    BY <1>6 DEF Receive
  <2>2. MoveOf("loop", to)
    BY <1>6 DEF MoveOf, Receive
  <2> QED
    BY <1>1, <1>6, <2>1, <2>2, MoveSafe DEF Receive
<1>7. CASE LeaveLoop(c)
  <2>1. Goto(c, "loop", "cleanup") /\ MoveOf("loop", "cleanup")
    BY <1>7 DEF LeaveLoop, MoveOf
  <2> QED
    BY <1>1, <1>7, <2>1, MoveSafe DEF LeaveLoop
<1> QED
  BY <1>2, <1>3, <1>4, <1>5, <1>6, <1>7

\* A connection takes the free slot.
LEMMA AcceptSafe ==
    ASSUME Safe, NEW c \in Conns, Accept(c)
    PROVE  StepSafe
<1>1. SessionInv' /\ Gentle
  BY QuietIsGentle DEF Safe, Accept
<1>2. /\ pc' = [pc EXCEPT ![c] = "start"] /\ link' = [link EXCEPT ![c] = "open"]
      /\ client = NoConn /\ client' = c /\ wrapped' = FALSE /\ acceptor = "run"
      /\ sessions < MaxSessions
      /\ UNCHANGED <<session, driver, sessions, stopping, acceptor, watchdog, closer, captured>>
      /\ pc \in [Conns -> Points] /\ link \in [Conns -> {"open", "shut"}]
  BY DEF Accept, Goto, sessionVars, Safe, ServerTypes
<1>3. \A x \in Conns : pc[x] = "none" /\ link[x] = "shut"
  BY <1>2, ConnsAssumption DEF Safe, SlotInv
<1>4. \A x \in Conns : pc'[x] = IF x = c THEN "start" ELSE "none"
  BY <1>2, <1>3
<1>5. ~session.live
  BY <1>2 DEF Safe, SlotInv
<1>6. ServerTypes'
  BY <1>2 DEF Safe, ServerTypes, Points
<1>7. SlotInv'
  BY <1>2, <1>3, <1>4, <1>5 DEF SlotInv
<1>8. StopInv' /\ (Closed => driver'.pan = driver.pan)
  <2>1. Closed' = Closed /\ closer # "done"
    BY <1>2 DEF Closed, Safe, StopInv
  <2> QED
    BY <1>2, <1>4, <2>1 DEF Safe, StopInv
<1> QED
  BY <1>1, <1>6, <1>7, <1>8 DEF StepSafe, Safe

\* The session opens: it is new, and no session was there before.
LEMMA BeginSafe ==
    ASSUME Safe, NEW c \in Conns, BeginSession(c)
    PROVE  StepSafe
<1>1. /\ pc[c] = "session" /\ pc' = [pc EXCEPT ![c] = "reply"]
      /\ driver' = Hold(driver, now) /\ session' = NewSession(sessions + 1, challenges + 1, now)
      /\ UNCHANGED <<link, client, wrapped, stopping, acceptor, watchdog, closer, captured>>
      /\ pc \in [Conns -> Points]
  BY DEF BeginSession, Goto, Safe, ServerTypes
<1>2. client = c /\ \A x \in Conns : x # c => pc[x] = "none"
  BY <1>1, OneThread DEF Safe
<1>3. ~session.live /\ sessions < MaxSessions
  BY <1>1, <1>2 DEF Safe, SlotInv
<1>4. SessionInv'
  <2>1. OpenSession
    BY <1>3 DEF BeginSession, OpenSession
  <2> QED
    BY <2>1, SessionInvStep DEF Safe, SessionNext
<1>5. \A x \in Conns : pc'[x] = IF x = c THEN "reply" ELSE "none"
  BY <1>1, <1>2
<1>6. ServerTypes'
  BY <1>1 DEF Safe, ServerTypes, Points
<1>7. session'.live /\ ~session'.armed
  BY <1>1 DEF NewSession
<1>8. SlotInv'
  BY <1>1, <1>2, <1>5, <1>7, ConnsAssumption DEF Safe, SlotInv
<1>9. driver'.command = NoCommand /\ (driver.command = NoCommand => driver'.pan = driver.pan)
  BY <1>1, NowSettled, HoldSound, AdvanceSound DEF Safe
<1>10. StopInv' /\ (Closed => driver'.pan = driver.pan)
  <2>1. Closed' = Closed /\ closer # "done"
    BY <1>1 DEF Closed, Safe, StopInv
  <2>2. ~Stuck(driver, session)
    BY <1>3 DEF Stuck
  <2>3. Closed => Idle(driver', session') /\ driver'.pan = driver.pan
    BY <1>7, <1>9 DEF Idle, Safe, StopInv
  <2> QED
    BY <1>1, <1>5, <2>1, <2>2, <2>3 DEF Safe, StopInv
<1> QED
  BY <1>4, <1>6, <1>8, <1>10 DEF StepSafe, Safe

\* A frame is handled: a stuck session refuses it, and after close() it moves nothing.
LEMMA DispatchSafe ==
    ASSUME Safe, NEW c \in Conns, Dispatch(c)
    PROVE  StepSafe
<1>1. PICK input \in Inputs :
        /\ HandleCommand(input)
        /\ Goto(c, "handle", IF HandleResult(input).raised THEN "cleanup" ELSE "reply")
  BY DEF Dispatch
<1>2. PICK to \in {"cleanup", "reply"} : pc[c] = "handle" /\ pc' = [pc EXCEPT ![c] = to]
  BY <1>1 DEF Goto
<1>3. /\ UNCHANGED <<link, client, wrapped, stopping, acceptor, watchdog, closer, captured>>
      /\ pc \in [Conns -> Points]
  BY DEF Dispatch, Safe, ServerTypes
<1>4. /\ session.live /\ session'.live /\ sessions' = sessions
      /\ Stuck(driver, session) => driver' = driver /\ session' = session
      /\ Idle(driver, session) /\ session.needsRelease =>
           Idle(driver', session') /\ driver'.pan = driver.pan
  BY <1>1, HandleIsGentle DEF Safe
<1>5. SessionInv'
  BY <1>1, SessionInvStep DEF Safe, SessionNext
<1>6. client = c /\ \A x \in Conns : x # c => pc[x] = "none"
  BY <1>2, OneThread DEF Safe
<1>7. \A x \in Conns : pc'[x] = IF x = c THEN to ELSE "none"
  BY <1>2, <1>3, <1>6
<1>8. ServerTypes'
  BY <1>2, <1>3 DEF Safe, ServerTypes, Points
<1>9. SlotInv'
  BY <1>2, <1>3, <1>4, <1>6, <1>7, ConnsAssumption DEF Safe, SlotInv
<1>10. StopInv' /\ (Closed => driver'.pan = driver.pan)
  <2>1. Closed' = Closed /\ closer # "done"
    BY <1>2, <1>3 DEF Closed, Safe, StopInv
  <2>2. Closed => Idle(driver', session') /\ driver'.pan = driver.pan
    BY <1>2, <1>4 DEF Safe, StopInv
  <2>3. Stuck(driver, session) => Stuck(driver', session') /\ driver' = driver
    BY <1>4
  <2> QED
    BY <1>3, <1>7, <2>1, <2>2, <2>3 DEF Safe, StopInv
<1> QED
  BY <1>5, <1>8, <1>9, <1>10 DEF StepSafe, Safe

\* The finally clause: the session ends, or is stuck and its thread crashes.
LEMMA CleanupSafe ==
    ASSUME Safe, NEW c \in Conns, Cleanup(c)
    PROVE  StepSafe
<1>1. CASE ~session.live
  <2>1. Goto(c, "cleanup", "release") /\ MoveOf("cleanup", "release")
        /\ UNCHANGED sessionVars
    BY <1>1 DEF Cleanup, MoveOf, EndSession
  <2>2. wrapped' \in BOOLEAN
    BY DEF Cleanup, Safe, ServerTypes
  <2> QED
    BY <2>1, <2>2, MoveSafe DEF Cleanup
<1>2. CASE session.live
  <2>1. EndSession /\ Goto(c, "cleanup", IF session'.live THEN "crashed" ELSE "release")
    BY <1>2 DEF Cleanup
  <2>2. PICK to \in {"crashed", "release"} :
          /\ pc[c] = "cleanup" /\ pc' = [pc EXCEPT ![c] = to]
          /\ session'.live <=> to = "crashed"
    BY <2>1 DEF Goto
  <2>3. /\ UNCHANGED <<link, client, wrapped, stopping, acceptor, watchdog, closer, captured>>
        /\ pc \in [Conns -> Points]
    BY DEF Cleanup, Safe, ServerTypes
  <2>4. /\ session'.live => Stuck(driver, session) /\ driver' = driver /\ session' = session
        /\ ~session'.live => Idle(driver', session')
        /\ Stuck(driver, session) => session'.live
        /\ Idle(driver, session) => driver'.pan = driver.pan
        /\ driver.command = NoCommand => driver'.command = NoCommand
        /\ sessions' = sessions
    BY <2>1, EndIsGentle DEF Safe
  <2>5. SessionInv'
    BY <2>1, SessionInvStep DEF Safe, SessionNext
  <2>6. client = c /\ \A x \in Conns : x # c => pc[x] = "none"
    BY <2>2, OneThread DEF Safe
  <2>7. \A x \in Conns : pc'[x] = IF x = c THEN to ELSE "none"
    BY <2>2, <2>3, <2>6
  <2>8. ServerTypes'
    BY <2>2, <2>3 DEF Safe, ServerTypes, Points
  <2>9. Stuck(driver, session) => Stuck(driver', session')
    BY <2>4
  <2>10. SlotInv'
    BY <2>2, <2>3, <2>4, <2>6, <2>7, <2>9, ConnsAssumption DEF Safe, SlotInv
  <2>11. StopInv' /\ (Closed => driver'.pan = driver.pan)
    <3>1. Closed' = Closed /\ closer # "done"
      BY <2>2, <2>3 DEF Closed, Safe, StopInv
    <3>2. Closed => Idle(driver', session') /\ driver'.pan = driver.pan
      BY <2>4 DEF Safe, StopInv, Idle, Stuck
    <3> QED
      BY <2>3, <2>4, <2>7, <2>9, <3>1, <3>2 DEF Safe, StopInv
  <2> QED
    BY <2>5, <2>8, <2>10, <2>11 DEF StepSafe, Safe
<1> QED
  BY <1>1, <1>2

\* The slot is freed only when no session is left.
LEMMA ReleaseSafe ==
    ASSUME Safe, NEW c \in Conns, ReleaseSlot(c)
    PROVE  StepSafe
<1>1. SessionInv' /\ Gentle
  BY QuietIsGentle DEF Safe, ReleaseSlot
<1>2. /\ pc[c] = "release" /\ pc' = [pc EXCEPT ![c] = "none"]
      /\ link' = [link EXCEPT ![c] = "shut"]
      /\ client' = IF client = c THEN NoConn ELSE client
      /\ UNCHANGED <<session, driver, sessions, wrapped, stopping, acceptor, watchdog, closer,
                     captured>>
      /\ pc \in [Conns -> Points] /\ link \in [Conns -> {"open", "shut"}]
  BY DEF ReleaseSlot, Goto, sessionVars, Safe, ServerTypes
<1>3. client = c /\ client' = NoConn /\ \A x \in Conns : x # c => pc[x] = "none"
  BY <1>2, OneThread DEF Safe
<1>4. \A x \in Conns : pc'[x] = "none" /\ link'[x] = "shut"
  BY <1>2, <1>3 DEF Safe, SlotInv
<1>5. ~session.live
  BY <1>2, <1>3 DEF Safe, SlotInv
<1>6. ServerTypes'
  BY <1>2, <1>3 DEF Safe, ServerTypes, Points
<1>7. SlotInv'
  BY <1>2, <1>3, <1>4, <1>5, ConnsAssumption DEF SlotInv
<1>8. StopInv' /\ (Closed => driver'.pan = driver.pan)
  <2>1. Closed' = Closed
    BY <1>2 DEF Closed
  <2> QED
    BY <1>2, <1>4, <2>1 DEF Safe, StopInv
<1> QED
  BY <1>1, <1>6, <1>7, <1>8 DEF StepSafe, Safe

(***************************************************************************)
(* The steps of the other threads and of the world                         *)
(***************************************************************************)
\* A gentle step that moves no thread, and opens no transport.
LEMMA GentleSafe ==
    ASSUME Safe, SessionInv', Gentle,
           UNCHANGED <<pc, client, wrapped, stopping, acceptor, watchdog, closer, captured>>,
           link' = link \/ \E x \in Conns : link' = [link EXCEPT ![x] = "shut"]
    PROVE  StepSafe
<1>1. SlotInv'
  BY GentleSlot DEF Safe
<1>2. StopInv' /\ (Closed => driver'.pan = driver.pan)
  BY GentleStop DEF Safe
<1>3. ServerTypes'
  BY DEF Safe, ServerTypes
<1> QED
  BY <1>1, <1>2, <1>3 DEF StepSafe, Safe

\* The peer, the camera source, the clock and the tracking.
LEMMA WorldSafe ==
    ASSUME Safe, (\E c \in Conns : HangUp(c)) \/ SourceSample \/ Environment
    PROVE  StepSafe
<1>1. ASSUME NEW c \in Conns, HangUp(c) PROVE StepSafe
  BY <1>1, QuietIsGentle, GentleSafe DEF HangUp, Safe
<1>2. CASE SourceSample
  <2>1. SessionInv'
    BY <1>2, SessionInvStep DEF Safe, SourceSample, SessionNext
  <2> QED
    BY <1>2, <2>1, SampleIsGentle, GentleSafe DEF Safe, SourceSample, threadVars
<1>3. CASE Environment
  <2>1. SessionInv'
    BY <1>3, SessionInvStep DEF Safe, Environment, SessionNext
  <2>2. Gentle
    <3>1. CASE Elapse \/ ServiceClear
      BY <3>1 DEF Elapse, ServiceClear, Gentle
    <3>2. ASSUME NEW tracked \in BOOLEAN, TrackingChange(tracked) PROVE Gentle
      BY <3>2, TrackingIsGentle DEF Safe
    <3> QED
      BY <1>3, <3>1, <3>2 DEF Environment
  <2> QED
    BY <1>3, <2>1, <2>2, GentleSafe DEF Environment, threadVars
<1> QED
  BY <1>1, <1>2, <1>3

\* The watchdog ends after a tick that raised, which leaves a stuck session,
\* or after the stop that close() asks for.
LEMMA WatchdogSafe ==
    ASSUME Safe,
           \/ WatchdogWake \/ WatchdogSample \/ WatchdogStop \/ WatchdogFail \/ WatchdogExit
    PROVE  StepSafe
<1>1. /\ watchdog \in {"wait", "sample", "failed", "gate", "done"}
      /\ client \in Conns \union {NoConn}
  BY DEF Safe, ServerTypes
<1>2. CASE WatchdogWake \/ WatchdogExit
  <2>1. /\ UNCHANGED sessionVars
        /\ UNCHANGED <<pc, link, client, wrapped, stopping, acceptor, closer, captured>>
        /\ watchdog = "wait"
        /\ \/ watchdog' = "sample" /\ ~stopping
           \/ watchdog' = "done" /\ stopping
    BY <1>2 DEF WatchdogWake, WatchdogExit
  <2>2. SessionInv' /\ Gentle
    BY <2>1, QuietIsGentle DEF Safe
  <2>3. SlotInv'
    BY <2>1, <2>2, GentleSlot DEF Safe
  <2>4. ServerTypes'
    BY <2>1 DEF Safe, ServerTypes
  <2>5. StopInv' /\ (Closed => driver'.pan = driver.pan)
    <3>1. Closed' = Closed /\ driver' = driver /\ session' = session
      BY <2>1 DEF Closed, sessionVars
    <3>2. stopping => closer # "idle"
      BY <2>1 DEF Safe, StopInv
    <3> QED
      BY <2>1, <3>1, <3>2 DEF Safe, StopInv
  <2> QED
    BY <2>2, <2>3, <2>4, <2>5 DEF StepSafe, Safe
<1>3. CASE WatchdogSample
  <2>1. /\ Sample /\ watchdog = "sample"
        /\ watchdog' = IF SampleResult.raised THEN "failed" ELSE "wait"
        /\ UNCHANGED <<pc, link, client, wrapped, stopping, acceptor, closer, captured>>
    BY <1>3 DEF WatchdogSample
  <2>2. SessionInv'
    BY <2>1, SessionInvStep DEF Safe, SessionNext
  <2>3. Gentle /\ (watchdog' = "failed" => Stuck(driver', session'))
    BY <2>1, SampleIsGentle DEF Safe
  <2>4. watchdog' \in {"failed", "wait"}
    BY <2>1
  <2>5. SlotInv'
    BY <2>1, <2>3, GentleSlot DEF Safe
  <2>6. ServerTypes'
    BY <2>1, <2>4 DEF Safe, ServerTypes
  <2>7. StopInv' /\ (Closed => driver'.pan = driver.pan)
    <3>1. Closed' = Closed /\ closer # "done"
      BY <2>1 DEF Closed, Safe, StopInv
    <3>2. Closed => Idle(driver', session') /\ driver'.pan = driver.pan
      BY <2>3 DEF Gentle, Safe, StopInv
    <3>3. Closed => \A c \in Conns : pc'[c] = "handle" => session'.needsRelease
      BY <2>1, <2>3 DEF Gentle, Safe, StopInv
    <3>4. stopping => closer # "idle"
      BY <2>1 DEF Safe, StopInv
    <3> QED
      BY <2>1, <2>3, <2>4, <3>1, <3>2, <3>3, <3>4 DEF Safe, StopInv
  <2> QED
    BY <2>2, <2>5, <2>6, <2>7 DEF StepSafe, Safe
<1>4. CASE WatchdogStop
  <2>1. /\ UNCHANGED sessionVars
        /\ UNCHANGED <<pc, link, client, wrapped, acceptor, closer, captured>>
        /\ watchdog = "failed" /\ watchdog' = "gate" /\ stopping' = TRUE
    BY <1>4 DEF WatchdogStop
  <2>2. SessionInv' /\ Gentle
    BY <2>1, QuietIsGentle DEF Safe
  <2>3. SlotInv'
    BY <2>1, <2>2, GentleSlot DEF Safe
  <2>4. ServerTypes'
    BY <2>1 DEF Safe, ServerTypes
  <2>5. StopInv' /\ (Closed => driver'.pan = driver.pan)
    <3>1. Closed' = Closed /\ driver' = driver /\ session' = session
      BY <2>1 DEF Closed, sessionVars
    <3> QED
      BY <2>1, <3>1 DEF Safe, StopInv
  <2> QED
    BY <2>2, <2>3, <2>4, <2>5 DEF StepSafe, Safe
<1>5. CASE WatchdogFail
  <2>1. /\ driver' = Hold(driver, now)
        /\ UNCHANGED <<now, session, challenges, sessions, clearRequested>>
        /\ UNCHANGED <<pc, client, wrapped, stopping, acceptor, closer, captured>>
        /\ watchdog = "gate" /\ watchdog' = "done"
        /\ link' = link \/ \E x \in Conns : link' = [link EXCEPT ![x] = "shut"]
    BY <1>1, <1>5 DEF WatchdogFail, Shutdown
  <2>2. SessionInv' /\ Gentle /\ driver'.command = NoCommand
    BY <2>1, HoldIsGentle DEF Safe
  <2>3. SlotInv'
    BY <2>1, <2>2, GentleSlot DEF Safe
  <2>4. ServerTypes'
    BY <2>1 DEF Safe, ServerTypes
  <2>5. StopInv' /\ (Closed => driver'.pan = driver.pan)
    <3>1. Closed' = Closed /\ closer # "done"
      BY <2>1 DEF Closed, Safe, StopInv
    <3>2. /\ Closed => Idle(driver', session') /\ driver'.pan = driver.pan
          /\ Stuck(driver', session')
      BY <2>1, <2>2 DEF Gentle, Safe, StopInv
    <3>3. Closed => \A c \in Conns : pc'[c] = "handle" => session'.needsRelease
      BY <2>1 DEF Safe, StopInv
    <3> QED
      BY <2>1, <2>2, <3>1, <3>2, <3>3 DEF Safe, StopInv
  <2> QED
    BY <2>2, <2>3, <2>4, <2>5 DEF StepSafe, Safe
<1> QED
  BY <1>2, <1>3, <1>4, <1>5

\* The locked section of close() holds the axis, with or without a session.
LEMMA CloseGateSafe ==
    ASSUME Safe, CloseGate
    PROVE  StepSafe
<1>1. /\ closer = "gate" /\ closer' \in {"raised", "shutdown"}
      /\ captured' = [conn |-> client, wrapped |-> wrapped]
      /\ UNCHANGED <<pc, link, client, wrapped, stopping, acceptor, watchdog>>
      /\ client \in Conns \union {NoConn} /\ wrapped \in BOOLEAN
  BY DEF CloseGate, Safe, ServerTypes
<1>2. /\ SessionInv' /\ Gentle
      /\ closer' = "shutdown" => Idle(driver', session')
      /\ closer' = "shutdown" /\ session.live => session'.needsRelease
  <2>1. CASE session.live
    <3>1. CloseSession
      BY <2>1 DEF CloseGate
    <3>2. closer' = "shutdown" => ~Close(driver, session, now).raised
      BY <2>1 DEF CloseGate
    <3>3. SessionInv'
      BY <3>1, SessionInvStep DEF Safe, SessionNext
    <3> QED
      BY <3>1, <3>2, <3>3, CloseIsGentle DEF Safe
  <2>2. CASE ~session.live
    <3>1. /\ driver' = Hold(driver, now)
          /\ UNCHANGED <<now, session, challenges, sessions, clearRequested>>
      BY <2>2 DEF CloseGate, CloseSession
    <3>2. ~session.armed
      BY <2>2, NowSettled DEF Settled, Safe
    <3> QED
      BY <2>2, <3>1, <3>2, HoldIsGentle DEF Safe, Idle
  <2> QED
    BY <2>1, <2>2
<1>3. SlotInv'
  BY <1>1, <1>2, GentleSlot DEF Safe
<1>4. ServerTypes'
  BY <1>1 DEF Safe, ServerTypes
<1>5. StopInv' /\ (Closed => driver'.pan = driver.pan)
  <2>1. ~Closed /\ (Closed' => closer' = "shutdown")
    BY <1>1 DEF Closed
  <2>2. \A c \in Conns : pc'[c] = "handle" => session.live
    BY <1>1 DEF Safe, SlotInv
  <2>3. Stuck(driver, session) => Stuck(driver', session')
    BY <1>2 DEF Gentle
  <2> QED
    BY <1>1, <1>2, <2>1, <2>2, <2>3 DEF Safe, StopInv
<1> QED
  BY <1>2, <1>3, <1>4, <1>5 DEF StepSafe, Safe

\* The other steps of close(), and the end of the accept thread.
LEMMA CloseSafe ==
    ASSUME Safe, CloseBegin \/ CloseShutdown \/ CloseJoin \/ CloseDeadline \/ AcceptorExit
    PROVE  StepSafe
<1>1. /\ UNCHANGED sessionVars /\ UNCHANGED <<pc, client, wrapped, watchdog, captured>>
      /\ SessionInv' /\ Gentle /\ driver' = driver /\ session' = session
  BY QuietIsGentle
  DEF CloseBegin, CloseShutdown, CloseJoin, CloseDeadline, AcceptorExit, Safe, sessionVars
<1>2. link' = link \/ \E x \in Conns : link' = [link EXCEPT ![x] = "shut"]
  BY DEF CloseBegin, CloseShutdown, CloseJoin, CloseDeadline, AcceptorExit, Shutdown, Safe,
         ServerTypes
<1>3. SlotInv'
  BY <1>1, <1>2, GentleSlot DEF Safe
<1>4. ServerTypes'
  <2>1. /\ closer' \in {"gate", "join", "done", "raised"} \/ closer' = closer
        /\ acceptor' \in {"run", "done"} /\ stopping' \in BOOLEAN
    BY DEF CloseBegin, CloseShutdown, CloseJoin, CloseDeadline, AcceptorExit, Safe,
           ServerTypes
  <2>2. link' \in [Conns -> {"open", "shut"}]
    BY <1>2 DEF Safe, ServerTypes
  <2> QED
    BY <1>1, <2>1, <2>2 DEF Safe, ServerTypes
<1>5. CASE CloseBegin
  BY <1>1, <1>3, <1>4, <1>5 DEF CloseBegin, Closed, StepSafe, Safe, StopInv
<1>6. CASE CloseShutdown
  <2>1. Closed /\ Closed' /\ closer' = "join" /\ closer = "shutdown" /\ stopping' = stopping
        /\ acceptor' = acceptor
    BY <1>6 DEF CloseShutdown, Closed
  <2> QED
    BY <1>1, <1>3, <1>4, <2>1 DEF StepSafe, Safe, StopInv
<1>7. CASE CloseJoin
  <2>1. /\ closer = "join" /\ closer' = "done" /\ acceptor = "done" /\ watchdog = "done"
        /\ \A c \in Conns : pc[c] \in {"none", "crashed"}
        /\ stopping' = stopping /\ acceptor' = acceptor
    BY <1>7 DEF CloseJoin, Serving
  <2>2. ~Stuck(driver, session) /\ Closed /\ Closed'
    BY <2>1 DEF Safe, StopInv, Closed, Stuck, Idle
  <2>3. \A c \in Conns : pc[c] = "none"
    BY <2>1, <2>2 DEF Safe, SlotInv
  <2> QED
    BY <1>1, <1>3, <1>4, <2>1, <2>2, <2>3 DEF StepSafe, Safe, StopInv
<1>8. CASE CloseDeadline
  <2>1. /\ closer = "join" /\ closer' = "raised" /\ stopping' = stopping
        /\ acceptor' = acceptor /\ ~Closed'
    BY <1>8 DEF CloseDeadline, Closed
  <2> QED
    BY <1>1, <1>3, <1>4, <2>1 DEF StepSafe, Safe, StopInv
<1>9. CASE AcceptorExit
  <2>1. acceptor' = "done" /\ stopping' = stopping /\ closer' = closer /\ Closed' = Closed
    BY <1>9 DEF AcceptorExit, Closed
  <2> QED
    BY <1>1, <1>3, <1>4, <2>1 DEF StepSafe, Safe, StopInv
<1> QED
  BY <1>5, <1>6, <1>7, <1>8, <1>9

-------------------------------------------------------------------------------
(***************************************************************************)
(* The theorems                                                            *)
(***************************************************************************)
LEMMA SafeInit == ServerInit => Safe
<1> SUFFICES ASSUME ServerInit PROVE Safe
  OBVIOUS
<1>1. SessionInv
  BY SessionInvInit DEF ServerInit
<1>2. ServerTypes
  BY DEF ServerInit, ServerTypes, Points
<1>3. ~session.live
  BY DEF ServerInit, SessionInit, NoSession, NewSession
<1>4. SlotInv
  BY <1>3, ConnsAssumption DEF ServerInit, SlotInv
<1>5. StopInv
  BY DEF ServerInit, StopInv, Closed
<1> QED
  BY <1>1, <1>2, <1>4, <1>5 DEF Safe

\* Every step of the server keeps the invariant, and after close() none moves the axis.
LEMMA SafeStep == Safe /\ [ServerNext]_serverVars => StepSafe
<1> SUFFICES ASSUME Safe, [ServerNext]_serverVars PROVE StepSafe
  OBVIOUS
<1>1. CASE UNCHANGED serverVars
  BY <1>1, QuietIsGentle, GentleSafe DEF serverVars, threadVars, Safe
<1>2. ASSUME NEW c \in Conns, Accept(c) \/ Receive(c) \/ ServeStep(c) \/ HangUp(c)
      PROVE  StepSafe
  BY <1>2, AcceptSafe, ServeMoveSafe, BeginSafe, DispatchSafe, CleanupSafe, ReleaseSafe,
     WorldSafe DEF ServeStep
<1>3. CASE WatchdogWake \/ WatchdogSample \/ WatchdogStop \/ WatchdogFail \/ WatchdogExit
  BY <1>3, WatchdogSafe
<1>4. CASE CloseBegin \/ CloseShutdown \/ CloseJoin \/ CloseDeadline \/ AcceptorExit
  BY <1>4, CloseSafe
<1>5. CASE CloseGate
  BY <1>5, CloseGateSafe
<1>6. CASE SourceSample \/ Environment
  BY <1>6, WorldSafe
<1> QED
  BY <1>1, <1>2, <1>3, <1>4, <1>5, <1>6 DEF ServerNext

\* The inductive invariant.
LEMMA SafeAlways == ServerSpec => []Safe
<1>1. Safe /\ [ServerNext]_serverVars => Safe'
  BY SafeStep DEF StepSafe
<1> QED
  BY SafeInit, <1>1, PTL DEF ServerSpec

\* What the four threads of SimulatedGimbalServer keep together: the session belongs
\* to the one connection in the client slot, an axis whose watchdog failed stays held,
\* and a close() that returned has left no session, no client and no command behind;
\* at all times the axis has a command only under an armed session.
THEOREM ServerHolds == ServerSpec => []ServerInv
<1>1. ASSUME Safe PROVE ServerInv
  <2>1. ServerTypeOK
    <3>1. TypeOK
      BY <1>1 DEF Safe, SessionInv, Settled, TypeOK
    <3> QED
      BY <1>1, <3>1 DEF Safe, ServerTypes, ServerTypeOK
  <2>2. SessionOwnedBySlot
    BY <1>1 DEF Safe, SlotInv, SessionOwnedBySlot, Serving
  <2>3. ClosedIsEmpty
    <3>1. ASSUME closer = "done"
          PROVE  /\ ~session.live /\ client = NoConn /\ driver.command = NoCommand
                 /\ \A c \in Conns : link[c] = "shut" /\ ~Serving(c)
      <4>1. \A c \in Conns : pc[c] = "none"
        BY <1>1, <3>1 DEF Safe, StopInv
      <4>2. client = NoConn /\ \A c \in Conns : link[c] = "shut"
        BY <1>1, <4>1 DEF Safe, SlotInv, ServerTypes
      <4>3. ~session.live
        BY <1>1, <4>2 DEF Safe, SlotInv
      <4>4. driver.command = NoCommand
        BY <1>1, <3>1 DEF Safe, StopInv, Closed, Idle
      <4> QED
        BY <4>1, <4>2, <4>3, <4>4 DEF Serving
    <3> QED
      BY <3>1 DEF ClosedIsEmpty
  <2>4. NoCommandAfterWatchdogFailure
    BY <1>1 DEF Safe, StopInv, NoCommandAfterWatchdogFailure
  <2>5. CommandOnlyWhileArmed
    BY <1>1 DEF Safe, SessionInv, Settled, CommandOnlyWhileArmed
  <2> QED
    BY <2>1, <2>2, <2>3, <2>4, <2>5 DEF ServerInv
<1> QED
  BY <1>1, SafeAlways, PTL

\* Once close() has left its locked section no step of any thread moves the axis.
THEOREM HeldAfterClose == ServerSpec => NoMotionAfterClose
<1>1. Safe /\ [ServerNext]_serverVars =>
        [(closer \in {"shutdown", "join", "done"}) => (driver'.pan = driver.pan)]_serverVars
  BY SafeStep DEF StepSafe, Closed
<1> QED
  BY <1>1, SafeAlways, PTL DEF ServerSpec, NoMotionAfterClose

-------------------------------------------------------------------------------
(***************************************************************************)
(* One challenge, one lease                                                *)
(***************************************************************************)
\* Neither a tick nor a close arms a session or touches one that stays armed.
LEMMA TickArmsNothing ==
    ASSUME NEW d, NEW s \in SessionStates, NEW t \in Nat
    PROVE  LET n == Tick(d, s, t).session IN
           /\ n.armed => n = s
           /\ n.nonce = s.nonce /\ n.issued = s.issued /\ n.challenge = s.challenge
<1>1. Tick(d, s, t).session \in {s, Locked(s)}
  BY DEF Tick, Raised, Done
<1>2. /\ ~Locked(s).armed /\ Locked(s).nonce = s.nonce /\ Locked(s).issued = s.issued
      /\ Locked(s).challenge = s.challenge
  BY DEF Locked, SessionStates
<1> QED
  BY <1>1, <1>2

\* Nor does a close.
LEMMA CloseArmsNothing ==
    ASSUME NEW d, NEW s, NEW t \in Nat, Settled(d, s, t), Close(d, s, t).session.armed
    PROVE  Close(d, s, t).session = s
  BY CloseGentle DEF Idle

\* The lease that a command leaves armed is the old one, or it answered the challenge.
KeepsOrAnswers(r, s, c, t) ==
    r.session.armed =>
      \/ r.session = s
      \/ /\ ~r.raised /\ Answers(s, c, t)
         /\ r.session = [s EXCEPT !.expiry = t + c.lease, !.armed = TRUE]

\* What the branches of execute leave armed.
LEMMA ExecuteArms ==
    ASSUME NEW d, NEW s, NEW t \in Nat, NEW c \in Commands, Settled(d, s, t)
    PROVE  KeepsOrAnswers(Execute(d, s, c, t), s, c, t)
<1> DEFINE r == Execute(d, s, c, t)
           n == [s EXCEPT !.expiry = t + c.lease, !.armed = TRUE]
<1>1. s \in SessionStates
  BY DEF Settled
<1>2. ~Locked(s).armed /\ ~Released(s).armed
  BY <1>1 DEF Locked, Released, SessionStates
<1>3. CASE Releases(c)
  BY <1>2, <1>3 DEF Execute, Done, KeepsOrAnswers
<1>4. CASE ~Releases(c) /\ (~Answers(s, c, t) \/ c.kind = "resetMap")
  BY <1>2, <1>4 DEF Execute, Done, KeepsOrAnswers
<1>5. CASE ~Releases(c) /\ Answers(s, c, t) /\ c.kind # "resetMap"
  <2>1. c.kind = "aim"
    BY <1>5 DEF Commands, Kinds, Releases
  <2>2. CASE s.needsRelease
    BY <1>5, <2>1, <2>2 DEF Execute, Done, KeepsOrAnswers
  <2>3. CASE ~s.needsRelease /\ ~InLimits(c.pan)
    <3>1. r = Raised(Close(d, s, t).driver, Close(d, s, t).session)
      BY <1>5, <2>1, <2>3 DEF Execute
    <3>2. r.session = Close(d, s, t).session
      BY <3>1 DEF Raised
    <3> QED
      BY <3>2, CloseArmsNothing DEF KeepsOrAnswers
  <2>4. CASE ~s.needsRelease /\ InLimits(c.pan) /\ Refused(d, c.pan, t)
    BY <1>5, <2>1, <2>4 DEF Execute, Raised, KeepsOrAnswers
  <2>5. CASE ~s.needsRelease /\ InLimits(c.pan) /\ ~Refused(d, c.pan, t)
    <3>1. r = Done(Target(d, c.pan, t), n)
      BY <1>5, <2>1, <2>5 DEF Execute
    <3> HIDE DEF n
    <3>2. ~r.raised /\ r.session = n
      BY <3>1 DEF Done
    <3> QED
      BY <1>5, <3>2 DEF n, KeepsOrAnswers
  <2> QED
    BY <2>2, <2>3, <2>4, <2>5
<1> QED
  BY <1>3, <1>4, <1>5

\* A frame that arms the session, or renews its lease, is a new answer in time to the
\* challenge of that session, and its reply takes the challenge away.
AnswersOnce(n, s, c, t, fresh) ==
    n.armed /\ (n.expiry # s.expiry \/ ~s.armed) =>
      /\ c.session = s.nonce /\ c.challenge = s.challenge
      /\ t - s.issued <= ChallengeAge
      /\ n.nonce = s.nonce /\ n.challenge = fresh
      /\ n.sequence = c.sequence /\ n.clientNs = c.clientNs
      /\ c.sequence > s.sequence /\ c.clientNs > s.clientNs

\* What handle leaves armed, its reply included.
LEMMA HandleArms ==
    ASSUME NEW d, NEW s, NEW t \in Nat, NEW c \in Commands, NEW fresh \in Nat,
           Settled(d, s, t), s.live = TRUE
    PROVE  AnswersOnce(Handle(d, s, c, t, fresh).session, s, c, t, fresh)
<1> DEFINE k == Tick(d, s, t)
           z == Close(k.driver, k.session, t)
           a == [k.session EXCEPT !.sequence = c.sequence, !.clientNs = c.clientNs]
           x == Execute(k.driver, a, c, t)
           y == Tick(x.driver, x.session, t)
           r == Handle(d, s, c, t, fresh)
<1> SUFFICES ASSUME r.session.armed, r.session.expiry # s.expiry \/ ~s.armed
             PROVE  /\ c.session = s.nonce /\ c.challenge = s.challenge
                    /\ t - s.issued <= ChallengeAge
                    /\ r.session.nonce = s.nonce /\ r.session.challenge = fresh
                    /\ r.session.sequence = c.sequence /\ r.session.clientNs = c.clientNs
                    /\ c.sequence > s.sequence /\ c.clientNs > s.clientNs
  BY DEF AnswersOnce
<1>0. s \in SessionStates /\ c.lease \in Nat \ {0} /\ c.sequence \in Nat /\ c.clientNs \in Nat
  BY SessionAssumption DEF Settled, Commands
<1>1. /\ k.session.armed => k.session = s
      /\ k.session.nonce = s.nonce /\ k.session.issued = s.issued
      /\ k.session.challenge = s.challenge
  BY <1>0, TickArmsNothing
<1>2. ~k.raised
  <2>1. ASSUME k.raised PROVE r.session = s
    BY <2>1, OnlyStuckTickRaises DEF Handle, Raised
  <2> QED
    BY <2>1
<1>3. /\ Settled(k.driver, k.session, t) /\ k.driver.time = t /\ k.session.live = s.live
  BY <1>2, TickSound
<1>4. ~Invalid(s, c)
  <2>1. ASSUME Invalid(s, c) PROVE r.session = z.session
    BY <1>2, <2>1 DEF Handle, Raised
  <2> HIDE DEF k
  <2>2. z.session.armed => z.session = k.session
    BY <1>3, CloseArmsNothing
  <2> HIDE DEF z, r
  <2> QED
    BY <1>1, <2>1, <2>2 DEF r
<1>5. r = Reply(x, t, fresh)
  BY <1>2, <1>4 DEF Handle
<1> DEFINE m == [y.session EXCEPT !.challenge = fresh, !.issued = t]
<1>6. r = IF x.raised \/ y.raised THEN Raised(x.driver, x.session) ELSE Done(y.driver, m)
  BY <1>5 DEF Reply
<1> HIDE DEF k
<1>7. /\ a \in SessionStates /\ a.live = TRUE /\ a.armed = k.session.armed
      /\ a.expiry = k.session.expiry /\ a.sequence = c.sequence /\ a.clientNs = c.clientNs
      /\ a.needsRelease = k.session.needsRelease /\ a.issued = k.session.issued
      /\ a.nonce = k.session.nonce /\ a.challenge = k.session.challenge
  BY <1>0, <1>3 DEF Settled, SessionStates
<1>8. Settled(k.driver, a, t)
  BY <1>3, <1>7 DEF Settled
<1> HIDE DEF a
<1>9. Settled(x.driver, x.session, t)
  BY <1>3, <1>7, <1>8, ExecuteSound
<1>10. KeepsOrAnswers(x, a, c, t)
  BY <1>8, ExecuteArms
<1> HIDE DEF x
<1>11. x.session \in SessionStates /\ (y.session.armed => y.session = x.session)
       /\ (y.raised => Stuck(x.driver, x.session))
  BY <1>9, TickArmsNothing, OnlyStuckTickRaises DEF Settled
<1> HIDE DEF y
<1>12. r.session.armed => x.session.armed
  <2>1. CASE x.raised \/ y.raised
    BY <1>6, <2>1 DEF Raised
  <2>2. CASE ~(x.raised \/ y.raised) /\ y.session.armed
    BY <1>11, <2>2
  <2>3. CASE ~(x.raised \/ y.raised) /\ ~y.session.armed
    <3>1. r.session = m
      BY <1>6, <2>3 DEF Done
    <3> QED
      BY <2>3, <3>1
  <2> QED
    BY <2>1, <2>2, <2>3

<1>13. r.session.expiry = IF x.raised \/ y.raised THEN x.session.expiry ELSE y.session.expiry
  <2>1. m.expiry = y.session.expiry
    OBVIOUS
  <2> HIDE DEF m
  <2> QED
    BY <1>6, <2>1 DEF Raised, Done
<1>14. CASE x.session = a
  <2>1. k.session = s /\ s.armed
    BY <1>1, <1>7, <1>12, <1>14
  <2>2. r.session.expiry = s.expiry
    <3>1. CASE x.raised \/ y.raised
      BY <1>7, <1>13, <1>14, <2>1, <3>1
    <3>2. CASE ~(x.raised \/ y.raised)
      <4>1. r.session = m
        BY <1>6, <3>2 DEF Done
      <4>2. y.session.armed
        BY <4>1
      <4> QED
        BY <1>7, <1>11, <1>13, <1>14, <2>1, <3>2, <4>2
    <3> QED
      BY <3>1, <3>2
  <2> QED
    BY <2>1, <2>2
<1>15. CASE /\ ~x.raised /\ Answers(a, c, t)
            /\ x.session = [a EXCEPT !.expiry = t + c.lease, !.armed = TRUE]
  <2>1. /\ x.session.expiry = t + c.lease /\ x.session.nonce = a.nonce
        /\ x.session.sequence = a.sequence /\ x.session.clientNs = a.clientNs
    BY <1>7, <1>15 DEF SessionStates
  <2>2. ~y.raised
    <3>1. x.driver.time <= t /\ x.driver.time \in Nat
      BY <1>9 DEF Settled, Drivers
    <3> QED
      BY <1>0, <1>11, <2>1, <3>1 DEF Stuck
  <2>3. r.session = m
    BY <1>6, <1>15, <2>2 DEF Done
  <2>4. y.session = x.session
    BY <1>11, <2>3
  <2>5. m.nonce = s.nonce /\ m.challenge = fresh /\ m.sequence = c.sequence /\ m.clientNs = c.clientNs
    BY <1>1, <1>7, <1>11, <2>1, <2>4 DEF SessionStates
  <2>6. t - s.issued <= ChallengeAge /\ c.challenge = s.challenge
    BY <1>1, <1>7, <1>15 DEF Answers
  <2>7. c.session = s.nonce /\ c.sequence > s.sequence /\ c.clientNs > s.clientNs
    BY <1>0, <1>4 DEF Invalid, SessionStates
  <2> HIDE DEF m
  <2> QED
    BY <2>3, <2>5, <2>6, <2>7
<1> QED
  BY <1>10, <1>12, <1>14, <1>15 DEF KeepsOrAnswers

\* A session that goes on keeps its challenge, or waits for one that was never drawn.
KeepsOrDraws ==
    /\ challenges' \in {challenges, challenges + 1}
    /\ session'.live => \/ session.live /\ session'.challenge = session.challenge
                        \/ session'.challenge = challenges + 1

LEMMA ChallengesAreNew ==
    ASSUME SessionInv, [SessionNext]_sessionVars
    PROVE  KeepsOrDraws
<1>0. Settled(driver, session, now) /\ now \in Nat /\ challenges + 1 \in Nat
  BY NowSettled
<1>1. CASE session' = session /\ challenges' = challenges
  BY <1>1 DEF KeepsOrDraws
<1>2. CASE OpenSession
  BY <1>2 DEF OpenSession, NewSession, KeepsOrDraws
<1>3. CASE Sample
  <2>1. /\ SampleResult.session.challenge = session.challenge
        /\ SampleResult.session.live = session.live
    BY <1>0, TickSound DEF SampleResult, Done
  <2> QED
    BY <1>3, <2>1 DEF Sample, Commit, KeepsOrDraws
<1>4. ASSUME NEW c \in Inputs, HandleCommand(c) PROVE KeepsOrDraws
  <2> DEFINE r == Handle(driver, session, c, now, challenges + 1)
  <2>1. /\ session' = r.session /\ session.live = TRUE
        /\ challenges' \in {challenges, challenges + 1}
    BY <1>0, <1>4 DEF HandleCommand, HandleResult, Commit, Settled, SessionStates
  <2>2. r.session.challenge \in {session.challenge, challenges + 1}
    <3>1. c \in Commands
      BY InputsAssumption
    <3>2. /\ Settled(r.driver, r.session, now)
          /\ r.raised => r.session.challenge = session.challenge
          /\ ~r.raised => r.session.challenge = challenges + 1
          /\ r.session.live = TRUE
      <4>1. session.live = TRUE
        BY <2>1
      <4> QED
        BY <1>0, <3>1, <4>1, HandleSound, Zenon
    <3> HIDE DEF r
    <3> QED
      BY <3>2
  <2> HIDE DEF r
  <2> QED
    BY <2>1, <2>2 DEF KeepsOrDraws
<1>5. CASE CloseSession \/ EndSession
  <2>1. /\ Close(driver, session, now).session.challenge = session.challenge
        /\ session.live /\ challenges' = challenges
    BY <1>0, <1>5, CloseSound DEF CloseSession, EndSession
  <2>2. session' \in {Close(driver, session, now).session, NoSession}
    BY <1>5 DEF CloseSession, EndSession, Commit, Done
  <2>3. ~NoSession.live
    BY DEF NoSession, NewSession
  <2> QED
    BY <2>1, <2>2, <2>3 DEF KeepsOrDraws
<1>6. CASE Elapse \/ ServiceClear \/ (\E tracked \in BOOLEAN : TrackingChange(tracked))
  BY <1>1, <1>6 DEF Elapse, ServiceClear, TrackingChange
<1> QED
  BY <1>1, <1>2, <1>3, <1>4, <1>5, <1>6 DEF SessionNext, sessionVars

\* What no session waits for, none ever will.
LEMMA SpentStaysSpent ==
    ASSUME SessionInv, KeepsOrDraws
    PROVE  \A n \in 1..challenges : Spent(n) => Spent(n)'
<1>1. challenges \in Nat
  BY DEF SessionInv
<1>2. ASSUME NEW n \in 1..challenges, Spent(n) PROVE Spent(n)'
  <2>1. n <= challenges'
    BY <1>1, <1>2 DEF KeepsOrDraws
  <2>2. ~(session.live /\ session.challenge = n) /\ n # challenges + 1
    BY <1>1, <1>2 DEF Spent
  <2>3. ~(session'.live /\ session'.challenge = n)
    BY <2>2 DEF KeepsOrDraws
  <2> QED
    BY <2>1, <2>3 DEF Spent
<1> QED
  BY <1>2

\* Handling a command that leases spends the challenge it carries.
LEMMA LeasingCommand ==
    ASSUME SessionInv, NEW c \in Inputs, HandleCommand(c), Leases
    PROVE  Authorises(c) /\ Spent(c.challenge)'
<1>0. /\ session \in SessionStates /\ now \in Nat /\ challenges + 1 \in Nat
      /\ session.challenge \in Nat /\ session.challenge <= challenges /\ challenges \in Nat
  BY NowSettled DEF SessionInv, SessionStates
<1>1. /\ session' = Handle(driver, session, c, now, challenges + 1).session
      /\ session.live = TRUE /\ c \in Commands
      /\ challenges' \in {challenges, challenges + 1}
  BY <1>0, InputsAssumption DEF HandleCommand, HandleResult, Commit, SessionStates
<1>2. AnswersOnce(session', session, c, now, challenges + 1)
  BY <1>0, <1>1, NowSettled, HandleArms
<1>3. session' \in SessionStates
  <2>1. SessionInv'
    BY SessionInvStep DEF SessionNext
  <2> QED
    BY <2>1 DEF SessionInv, Settled
<1>4. session'.armed /\ (session'.expiry # session.expiry \/ ~session.armed)
  BY <1>0, <1>3 DEF SessionStates, Leases
<1>5. /\ c.session = session.nonce /\ c.challenge = session.challenge
      /\ now - session.issued <= ChallengeAge
      /\ session'.nonce = session.nonce /\ session'.challenge = challenges + 1
      /\ session'.sequence = c.sequence /\ session'.clientNs = c.clientNs
      /\ c.sequence > session.sequence /\ c.clientNs > session.clientNs
  BY <1>2, <1>4 DEF AnswersOnce
<1>6. Authorises(c)
  BY <1>5 DEF Authorises
<1>7. c.challenge <= challenges' /\ session'.challenge # c.challenge
  BY <1>0, <1>1, <1>5
<1> QED
  BY <1>6, <1>7 DEF Spent

\* A step of the session leases only by handling a command, which answered.
ConsumesChallenge ==
    /\ Leases => /\ \E c \in Inputs : HandleCommand(c)
                 /\ \A c \in Inputs :
                      HandleCommand(c) => Authorises(c) /\ Spent(c.challenge)'
    /\ \A n \in 1..challenges : Spent(n) => Spent(n)'

\* So it is in every step of the session.
LEMMA ArmingConsumes ==
    ASSUME SessionInv, [SessionNext]_sessionVars
    PROVE  ConsumesChallenge
<1>0. session \in SessionStates
  BY NowSettled
<1>1. ASSUME session' = session PROVE ~Leases
  BY <1>1 DEF Leases
<1>2. ASSUME OpenSession PROVE ~Leases
  <2>1. ~session'.armed
    BY <1>2 DEF OpenSession, NewSession
  <2> QED
    BY <2>1 DEF Leases
<1>3. ASSUME Sample PROVE ~Leases
  <2>1. SampleResult.session.armed => SampleResult.session = session
    <3>1. CASE session.live
      BY <1>0, <3>1, NowSettled, TickArmsNothing DEF SampleResult
    <3>2. CASE ~session.live
      BY <3>2 DEF SampleResult, Done
    <3> QED
      BY <3>1, <3>2
  <2> QED
    BY <1>3, <2>1 DEF Sample, Commit, Leases
<1>5. ASSUME CloseSession PROVE ~Leases
  <2>1. session' = Close(driver, session, now).session
    BY <1>5 DEF CloseSession, Commit
  <2> QED
    BY <2>1, NowSettled, CloseArmsNothing DEF Leases
<1>6. ASSUME EndSession PROVE ~Leases
  <2>1. session' = Close(driver, session, now).session \/ session' = NoSession
    BY <1>6 DEF EndSession, Commit, Done
  <2>2. ~NoSession.armed
    BY DEF NoSession, NewSession
  <2> QED
    BY <2>1, <2>2, NowSettled, CloseArmsNothing DEF Leases
<1>7. ASSUME Elapse \/ ServiceClear \/ (\E tracked \in BOOLEAN : TrackingChange(tracked)) PROVE ~Leases
  BY <1>1, <1>7 DEF Elapse, ServiceClear, TrackingChange
<1>8. Leases => \E c \in Inputs : HandleCommand(c)
  BY <1>1, <1>2, <1>3, <1>5, <1>6, <1>7 DEF SessionNext, sessionVars
<1> QED
  BY <1>8, LeasingCommand, ChallengesAreNew, SpentStaysSpent DEF ConsumesChallenge

\* A step of the server is one of the session, or leaves the session alone.
LEMMA ServerMove ==
    ASSUME Safe, [ServerNext]_serverVars
    PROVE  [SessionNext]_sessionVars \/ UNCHANGED <<session, challenges>>
<1>1. ASSUME NEW c \in Conns, Accept(c) \/ Receive(c) \/ HangUp(c) PROVE UNCHANGED <<session, challenges>>
  BY <1>1 DEF Accept, Receive, HangUp, sessionVars
<1>2. ASSUME NEW c \in Conns, ServeStep(c)
      PROVE  [SessionNext]_sessionVars \/ UNCHANGED <<session, challenges>>
  <2>1. CASE Wrap(c) \/ PublishStream(c) \/ Authenticate(c) \/ SendReply(c) \/ LeaveLoop(c)
             \/ ReleaseSlot(c)
    BY <2>1
       DEF Wrap, PublishStream, Authenticate, SendReply, LeaveLoop, ReleaseSlot,
           sessionVars
  <2>2. CASE BeginSession(c)
    <3>1. pc[c] = "session" /\ client = c
      BY <2>2, OneThread DEF BeginSession, Goto, Safe
    <3>2. ~session.live /\ sessions < MaxSessions
      BY <3>1 DEF Safe, SlotInv
    <3> QED
      BY <2>2, <3>2 DEF BeginSession, OpenSession, SessionNext
  <2>3. CASE Dispatch(c)
    BY <2>3 DEF Dispatch, SessionNext
  <2>4. CASE Cleanup(c)
    BY <2>4 DEF Cleanup, SessionNext, sessionVars
  <2> QED
    BY <1>2, <2>1, <2>2, <2>3, <2>4 DEF ServeStep
<1>3. CASE WatchdogWake \/ WatchdogStop \/ WatchdogFail \/ WatchdogExit \/ AcceptorExit
  BY <1>3
     DEF WatchdogWake, WatchdogStop, WatchdogFail, WatchdogExit, AcceptorExit, sessionVars
<1>4. CASE WatchdogSample \/ SourceSample
  BY <1>4 DEF WatchdogSample, SourceSample, SessionNext
<1>5. CASE CloseBegin \/ CloseShutdown \/ CloseJoin \/ CloseDeadline
  BY <1>5 DEF CloseBegin, CloseShutdown, CloseJoin, CloseDeadline, sessionVars
<1>6. CASE CloseGate
  BY <1>6 DEF CloseGate, SessionNext
<1>7. CASE Environment
  BY <1>7 DEF Environment, SessionNext
<1>8. CASE UNCHANGED serverVars
  BY <1>8 DEF serverVars, sessionVars
<1> QED
  BY <1>1, <1>2, <1>3, <1>4, <1>5, <1>6, <1>7, <1>8 DEF ServerNext

\* One challenge authorises at most one lease, whichever threads run in between: the
\* command that leases answers the last challenge of its session in time, and spends it.
THEOREM ServerConsumesChallenges == ServerSpec => LeaseConsumesChallenge
<1>1. Safe /\ [ServerNext]_serverVars => ConsumesChallenge
  <2> SUFFICES ASSUME Safe, [ServerNext]_serverVars PROVE ConsumesChallenge
    OBVIOUS
  <2>1. CASE UNCHANGED <<session, challenges>>
    BY <2>1 DEF ConsumesChallenge, Leases, Spent
  <2>2. CASE [SessionNext]_sessionVars
    BY <2>2, ArmingConsumes DEF Safe
  <2> QED
    BY <2>1, <2>2, ServerMove
<1>2. ConsumesChallenge =>
        [/\ Leases =>
              /\ \E c \in Inputs : HandleCommand(c)
              /\ \A c \in Inputs :
                   HandleCommand(c) => Authorises(c) /\ Spent(c.challenge)'
         /\ \A n \in 1..challenges : Spent(n) => Spent(n)']_sessionVars
  BY DEF ConsumesChallenge
<1> QED
  BY <1>1, <1>2, SafeAlways, PTL DEF ServerSpec, LeaseConsumesChallenge

===============================================================================
