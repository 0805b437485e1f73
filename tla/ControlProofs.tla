---------------------------- MODULE ControlProofs ----------------------------
(***************************************************************************)
(* The protocol between the headset and the host's session, proved for all  *)
(* values of the constants.  Safe is the inductive invariant: the policy of *)
(* the worker, the command or the answer on the wire and the session agree, *)
(* and the history says what the hand did.  Every step is a move, by what   *)
(* it does to the protocol, and every move keeps every part of Safe.        *)
(***************************************************************************)
EXTENDS GimbalControl, GimbalSessionProofs

\* A command on the wire.
Requests ==
    [session: Nat, challenge: Nat, sequence: Nat, clientNs: Nat,
     kind: {"hold", "aim", "resetMap"}, sampled: Nat]

\* The host's session: no deadline passes unheld, and the axis is never lost.
HostInv == SessionInv /\ Timely(driver, session) /\ driver.tracked = TRUE

\* A connection that is open is that of the live session; Stop closes it before it joins.
LinkInv ==
    /\ link = "open" \/ request # None => session.live
    /\ xr = "join" => link \in {"none", "shut"}
    /\ worker \in {"none", "done"} => link \in {"none", "shut"}
    /\ worker # "none" => link # "none"

\* What the worker's own steps keep, connected or not.
PolicyInv ==
    /\ worker \notin {"wait", "send", "exchange"} => policy = InitialPolicy
    /\ worker \in {"wait", "send", "exchange"} =>
         policy.initialized /\ policy.clientNs < nextSend
    /\ worker \in {"wait", "send"} => ~policy.pending
    /\ worker = "exchange" => policy.pending
    /\ worker = "send" => nextSend <= now
    /\ worker # "send" => taken = NothingTaken
    /\ policy.pendingRelease => policy.pendingOperation = "hold"
    /\ state.error # "protocol"

\* The command on its way, and the session that it is for.
RequestInv ==
    request # None =>
      /\ request \in Requests
      /\ request.session = session.nonce /\ request.challenge = session.challenge
      /\ request.sequence = session.sequence + 1
      /\ session.clientNs < request.clientNs /\ session.issued <= request.clientNs
      /\ request.kind = "aim" => request.clientNs <= request.sampled + IntentAge
      /\ worker \notin {"wait", "send"}
      /\ worker = "exchange" => /\ policy.pendingOperation = request.kind
                                /\ request.kind = "aim" => ~policy.needsRelease

\* What the worker knows of the session at the other end of an open connection.
Agrees ==
    /\ policy.feedback.session = session.nonce
    /\ policy.sequence = session.sequence
    /\ policy.clientNs = session.clientNs

WireInv ==
    link = "open" =>
      /\ policy.feedback.serverNs <= now /\ (reply # None => reply.serverNs <= now)
      /\ reply # None =>
           /\ request = None /\ worker \in {"open", "exchange"}
           /\ reply.session = session.nonce /\ reply.challenge = session.challenge
           /\ reply.ack = session.sequence /\ reply.tracked
           /\ policy.feedback.serverNs <= reply.serverNs
           /\ ~reply.armed => ~session.armed
      /\ worker = "open" => /\ session.sequence = 0 /\ session.clientNs = 0
                            /\ ~session.armed /\ request = None
                            /\ reply # None => ~reply.armed
      /\ worker \in {"wait", "send"} =>
           /\ reply = None /\ Agrees
           /\ policy.feedback.challenge = session.challenge
           /\ policy.needsRelease => ~session.armed
      /\ worker = "exit" => request = None /\ reply = None
      /\ worker = "exchange" /\ request # None =>
           /\ policy.feedback.session = session.nonce
           /\ policy.feedback.challenge = session.challenge
           /\ policy.sequence = request.sequence /\ policy.clientNs = request.clientNs
      /\ worker = "exchange" /\ reply # None =>
           /\ Agrees
           /\ policy.feedback.challenge < reply.challenge
           /\ reply.armed => policy.pendingOperation = "aim" /\ ~policy.needsRelease

\* Nothing aims before the trigger was seen released in this session.
HandInv ==
    /\ session.armed \/ ~aim.needsRelease => pulled
    /\ request # None /\ request.kind = "aim" => pulled
    /\ "aim" \in {latest.operation, taken.intent.operation} => pulled
    /\ worker = "open" => aim.needsRelease /\ latest.operation = "hold" /\ ~state.connected

\* Nothing aims again before the hand that the last lease came from let go.
GripInv ==
    /\ ~regrip => latest.operation = "aim" /\ ~policy.pendingRelease
    /\ ~regrip /\ worker = "send" => taken.intent.operation = "aim"
    /\ ~regrip /\ ~session.armed => session.needsRelease \/ policy.needsRelease
    /\ ~regrip /\ request # None =>
         /\ request.kind = "hold" => policy.needsRelease
         /\ request.kind = "aim" /\ ~session.armed => session.needsRelease
    /\ ~letGo /\ request # None /\ request.kind = "aim" => latest.operation = "aim"
    /\ ~letGo /\ taken.intent.operation = "aim" => latest.operation = "aim"

(***************************************************************************)
(* The host's session under the commands of this client                    *)
(***************************************************************************)
\* The client's commands, as the session sees them: in the limits, and the clutch is
\* closed exactly when they aim.
Proper(c) == c \in Commands /\ c.wellFormed /\ c.clutch = (c.kind = "aim") /\ InLimits(c.pan)

\* What a session makes of one: x is what it was, n what it is.
Obeys(c, x, n, t) ==
    /\ n.live = x.live /\ n.nonce = x.nonce
    /\ c.kind = "hold" => ~n.armed /\ ~n.needsRelease
    /\ c.kind = "resetMap" => ~n.armed /\ n.needsRelease
    /\ c.kind = "aim" => n.armed \/ n.needsRelease
    /\ n.armed => /\ c.kind = "aim" /\ ~x.needsRelease
                  /\ t <= x.issued + ChallengeAge /\ n.expiry = t + c.lease

\* A tick leaves the tracking, and a session that is not armed, as they are.
LEMMA TickKeeps ==
    ASSUME NEW d, NEW s, NEW t \in Nat, Settled(d, s, t), Timely(d, s)
    PROVE  LET r == Tick(d, s, t) IN
           /\ ~r.raised /\ r.driver.tracked = d.tracked /\ r.driver.time = t
           /\ r.session \in {s, Locked(s)} /\ (~s.armed => r.session = s)
<1> DEFINE r == Tick(d, s, t)
<1>1. /\ d \in Drivers /\ d.time \in Nat /\ d.time <= t /\ s.expiry \in Nat
      /\ s.armed => d.time <= s.expiry
  BY DEF Settled, Drivers, SessionStates, Timely
<1>2. CASE s.armed /\ t >= s.expiry
  <2> DEFINE h == Hold(d, s.expiry)
             a == Advance(h, t)
  <2>1. r = Done(a, Locked(s))
    BY <1>1, <1>2 DEF Tick, Reversed
  <2>2. h \in Drivers /\ h.time = s.expiry /\ h.tracked = d.tracked
    BY <1>1, <1>2, HoldSound
  <2> HIDE DEF h
  <2>3. a.tracked = h.tracked /\ a.time = t
    BY <1>1, <1>2, <2>2, AdvanceSound
  <2> HIDE DEF a
  <2> QED
    BY <1>2, <2>1, <2>2, <2>3 DEF Done
<1>3. CASE ~(s.armed /\ t >= s.expiry)
  <2> DEFINE a == Advance(d, t)
  <2>1. r = Done(a, s)
    BY <1>1, <1>3 DEF Tick, Reversed
  <2>2. a.tracked = d.tracked /\ a.time = t
    BY <1>1, AdvanceSound
  <2> HIDE DEF a
  <2> QED
    BY <2>1, <2>2 DEF Done
<1> QED
  BY <1>2, <1>3

\* The four things execute does with such a command; none raises.
ExecutesWell(d, s, c, t, r) ==
    /\ ~r.raised /\ r.driver.tracked /\ Obeys(c, s, r.session, t)
    /\ r.session \in SessionStates
    /\ r.session.sequence = s.sequence /\ r.session.clientNs = s.clientNs

\* execute does as it is told, and raises for no such command.
LEMMA ExecuteObeys ==
    ASSUME NEW d, NEW s, NEW t \in Nat, NEW c, Proper(c), Settled(d, s, t), d.time = t,
           d.tracked = TRUE
    PROVE  ExecutesWell(d, s, c, t, Execute(d, s, c, t))
<1> DEFINE r == Execute(d, s, c, t)
           n == [s EXCEPT !.expiry = t + c.lease, !.armed = TRUE]
<1>0. /\ d \in Drivers /\ s \in SessionStates /\ c.kind \in {"hold", "aim", "resetMap"}
      /\ c.pan \in Int /\ c.lease \in Nat /\ s.issued \in Nat /\ c.clutch = (c.kind = "aim")
      /\ InLimits(c.pan) /\ c \in Commands /\ ChallengeAge \in Nat
  BY SessionAssumption DEF Settled, Proper, Commands, Kinds, SessionStates
<1>1. Hold(d, t).tracked = TRUE
  BY <1>0, HoldSound
<1>2. /\ Locked(s) \in SessionStates /\ Released(s) \in SessionStates
      /\ ~Locked(s).armed /\ Locked(s).needsRelease /\ ~Released(s).armed
      /\ ~Released(s).needsRelease
      /\ \A x \in {Locked(s), Released(s)} :
           /\ x.live = s.live /\ x.nonce = s.nonce
           /\ x.sequence = s.sequence /\ x.clientNs = s.clientNs
  BY <1>0 DEF Locked, Released, SessionStates
<1>3. CASE c.kind = "hold"
  <2>1. r = Done(Hold(d, t), Released(s))
    BY <1>3 DEF Execute, Releases
  <2> QED
    BY <1>1, <1>2, <1>3, <2>1 DEF Done, ExecutesWell, Obeys
<1>4. CASE c.kind # "hold" /\ (~Answers(s, c, t) \/ c.kind = "resetMap")
  <2>1. ~Releases(c)
    BY <1>0, <1>4 DEF Releases
  <2>2. r = Done(Hold(d, t), Locked(s))
    BY <1>4, <2>1 DEF Execute
  <2> QED
    BY <1>1, <1>2, <1>4, <2>2 DEF Done, ExecutesWell, Obeys
<1>5. CASE c.kind = "aim" /\ Answers(s, c, t) /\ s.needsRelease
  <2>1. ~Releases(c)
    BY <1>0, <1>5 DEF Releases
  <2>2. r = Done(d, s)
    BY <1>5, <2>1 DEF Execute
  <2>3. ~s.armed
    BY <1>5 DEF Settled
  <2> QED
    BY <1>0, <1>5, <2>2, <2>3 DEF Done, ExecutesWell, Obeys
<1>6. CASE c.kind = "aim" /\ Answers(s, c, t) /\ ~s.needsRelease
  <2>1. ~Releases(c)
    BY <1>0, <1>6 DEF Releases
  <2>2. ~Refused(d, c.pan, t)
    BY <1>0 DEF Refused, Reversed
  <2>3. r = Done(Target(d, c.pan, t), n)
    BY <1>0, <1>6, <2>1, <2>2 DEF Execute
  <2>4. Target(d, c.pan, t).tracked = TRUE
    <3> DEFINE a == Advance(d, t)
    <3>1. a \in Drivers /\ a.tracked = TRUE
      BY <1>0, AdvanceSound
    <3>2. Target(d, c.pan, t) = [a EXCEPT !.target = c.pan, !.command = t]
      BY DEF Target
    <3> HIDE DEF a
    <3> QED
      BY <3>1, <3>2 DEF Drivers
  <2>5. t + c.lease \in Nat
    BY <1>0
  <2>6. /\ n \in SessionStates /\ n.armed /\ n.expiry = t + c.lease
        /\ n.live = s.live /\ n.nonce = s.nonce
        /\ n.sequence = s.sequence /\ n.clientNs = s.clientNs
    BY <1>0, <2>5 DEF SessionStates
  <2>7. t <= s.issued + ChallengeAge
    BY <1>0, <1>6 DEF Answers
  <2> HIDE DEF n
  <2> QED
    BY <1>6, <2>3, <2>4, <2>6, <2>7 DEF Done, ExecutesWell, Obeys
<1> QED
  BY <1>0, <1>3, <1>4, <1>5, <1>6

\* handle, with its ticks and its reply: it accepts such a command in order, never
\* raises, and gives its number, its stamp and a new challenge to the session.
HandlesWell(s, c, t, fresh, r) ==
    /\ ~r.raised /\ r.driver.tracked /\ Obeys(c, s, r.session, t)
    /\ r.session.sequence = c.sequence /\ r.session.clientNs = c.clientNs
    /\ r.session.challenge = fresh /\ r.session.issued = t

\* handle accepts such a command, when it is the next one of the session.
LEMMA HandleObeys ==
    ASSUME NEW d, NEW s, NEW t \in Nat, NEW c, NEW fresh \in Nat, Proper(c), ~Invalid(s, c),
           Settled(d, s, t), Timely(d, s), s.live = TRUE, d.tracked = TRUE
    PROVE  HandlesWell(s, c, t, fresh, Handle(d, s, c, t, fresh))
<1> DEFINE k == Tick(d, s, t)
           a == [k.session EXCEPT !.sequence = c.sequence, !.clientNs = c.clientNs]
           x == Execute(k.driver, a, c, t)
           y == Tick(x.driver, x.session, t)
           m == [y.session EXCEPT !.challenge = fresh, !.issued = t]
           r == Handle(d, s, c, t, fresh)
<1>0. s \in SessionStates /\ c \in Commands /\ c.sequence \in Nat /\ c.clientNs \in Nat
  BY DEF Settled, Proper, Commands
<1>1. /\ ~k.raised /\ k.driver.tracked = TRUE /\ k.driver.time = t
      /\ k.session \in {s, Locked(s)} /\ Settled(k.driver, k.session, t)
      /\ k.session.armed => t < s.expiry /\ k.session = s
  BY TickKeeps, TickSound
<1>2. r = Reply(x, t, fresh)
  BY <1>1 DEF Handle
<1>3. r = IF x.raised \/ y.raised THEN Raised(x.driver, x.session) ELSE Done(y.driver, m)
  BY <1>2 DEF Reply
<1> HIDE DEF k
<1>4. /\ k.session.live = TRUE /\ k.session.nonce = s.nonce /\ k.session.issued = s.issued
      /\ ~k.session.needsRelease => ~s.needsRelease
      /\ k.session \in SessionStates
  BY <1>0, <1>1 DEF Locked, SessionStates
<1>5. /\ a \in SessionStates /\ a.live = TRUE /\ a.armed = k.session.armed
      /\ a.expiry = k.session.expiry /\ a.sequence = c.sequence /\ a.clientNs = c.clientNs
      /\ a.needsRelease = k.session.needsRelease /\ a.issued = k.session.issued
      /\ a.nonce = k.session.nonce /\ a.challenge = k.session.challenge
  BY <1>0, <1>4 DEF SessionStates
<1> HIDE DEF a
<1>6. Settled(k.driver, a, t) /\ (a.armed => t < a.expiry)
  BY <1>1, <1>5 DEF Settled
<1>7. ExecutesWell(k.driver, a, c, t, x)
  BY <1>1, <1>6, ExecuteObeys
<1>8. ExecuteResult(k.driver, a, t, x)
  BY <1>0, <1>1, <1>6, ExecuteTimely
<1>9. Settled(x.driver, x.session, t)
  BY <1>0, <1>1, <1>5, <1>6, ExecuteSound
<1> HIDE DEF x
<1>10. Timely(x.driver, x.session)
  <2>1. x.session.armed => t < x.session.expiry
    BY <1>8 DEF ExecuteResult
  <2>2. x.driver.time = t /\ x.session.expiry \in Nat
    BY <1>7, <1>8 DEF ExecuteResult, ExecutesWell, SessionStates
  <2> QED
    BY <2>1, <2>2 DEF Timely
<1>11. /\ ~y.raised /\ y.driver.tracked = x.driver.tracked
       /\ y.session \in {x.session, Locked(x.session)}
       /\ ~x.session.armed => y.session = x.session
       /\ y.session.armed => y.session = x.session
  BY <1>9, <1>10, TickKeeps, TickSound
<1> HIDE DEF y
<1>12. /\ y.session \in SessionStates
       /\ y.session.live = x.session.live /\ y.session.nonce = x.session.nonce
       /\ y.session.sequence = x.session.sequence /\ y.session.clientNs = x.session.clientNs
       /\ y.session.armed \/ y.session.needsRelease \/ y.session = x.session
  BY <1>7, <1>11 DEF ExecutesWell, Locked, SessionStates
<1>13. /\ m.live = y.session.live /\ m.nonce = y.session.nonce /\ m.armed = y.session.armed
       /\ m.needsRelease = y.session.needsRelease /\ m.expiry = y.session.expiry
       /\ m.sequence = y.session.sequence /\ m.clientNs = y.session.clientNs
       /\ m.challenge = fresh /\ m.issued = t
  BY <1>12 DEF SessionStates
<1>14. r.raised = FALSE /\ r.driver = y.driver /\ r.session = m
  BY <1>3, <1>7, <1>11 DEF Done, ExecutesWell
<1> HIDE DEF m
<1>15. Obeys(c, a, y.session, t)
  BY <1>7, <1>11, <1>12 DEF ExecutesWell, Obeys
<1>16. Obeys(c, s, m, t)
  BY <1>4, <1>5, <1>13, <1>15 DEF Obeys
<1> HIDE DEF r
<1>17. r.driver.tracked = TRUE
  BY <1>7, <1>11, <1>14 DEF ExecutesWell
<1>18. m.sequence = c.sequence /\ m.clientNs = c.clientNs
  BY <1>5, <1>7, <1>12, <1>13 DEF ExecutesWell
<1>19. HandlesWell(s, c, t, fresh, r)
  BY <1>13, <1>14, <1>16, <1>17, <1>18 DEF HandlesWell
<1> QED
  BY <1>19 DEF r

-------------------------------------------------------------------------------
(***************************************************************************)
(* The operators of the headset                                            *)
(***************************************************************************)
Aims(t) == [epoch: Nat, last: 0..t, needsRelease: BOOLEAN, clutched: BOOLEAN]

Policies ==
    [feedback: Feedbacks, initialized: BOOLEAN, pending: BOOLEAN, needsRelease: BOOLEAN,
     pendingRelease: BOOLEAN, pendingOperation: {"hold", "aim", "resetMap"}, sequence: Nat,
     clientNs: 0..now]

States ==
    [running: BOOLEAN, connected: BOOLEAN, feedback: Feedbacks,
     error: {"none", "transport", "protocol"}]

\* A frame aims only if no release was needed before it, and none is after it; one
\* that is not eligible locks the aim.
UpdatesWell(i, t, r) ==
    /\ r.aim \in Aims(t)
    /\ r.intent = HoldAt(t) \/ (r.intent = AimAt(t) /\ ~r.aim.needsRelease)
    /\ ~i.eligible => r.aim.needsRelease /\ r.intent = HoldAt(t)

\* Update is such a frame, whatever it finds.
LEMMA UpdateSound ==
    ASSUME NEW t \in Nat, NEW a \in Aims(t), NEW i, i.now = t, i.epoch \in Nat,
           i.eligible \in BOOLEAN, i.trigger \in Triggers
    PROVE  UpdatesWell(i, t, Update(a, i))
<1> DEFINE b == Refreshed(a, i.epoch, i.now)
           r == Update(a, i)
<1>0. t \in 0..t
  OBVIOUS
<1>1. ResetAim(a) \in Aims(t)
  BY DEF ResetAim, Aims
<1>2. b \in Aims(t)
  <2>1. PICK x \in Aims(t) : b = [x EXCEPT !.epoch = i.epoch, !.last = t]
    BY <1>1 DEF Refreshed
  <2> QED
    BY <1>0, <2>1 DEF Aims
<1> HIDE DEF b
<1>3. /\ ResetAim(b) \in Aims(t) /\ ResetAim(b).needsRelease
      /\ [b EXCEPT !.needsRelease = FALSE, !.clutched = FALSE] \in Aims(t)
      /\ [b EXCEPT !.clutched = FALSE] \in Aims(t)
      /\ [b EXCEPT !.clutched = TRUE] \in Aims(t)
      /\ [b EXCEPT !.clutched = TRUE].needsRelease = b.needsRelease
  BY <1>2 DEF ResetAim, Aims
<1>4. CASE ~i.eligible
  <2>1. r = [aim |-> ResetAim(b), intent |-> HoldAt(t)]
    BY <1>4 DEF Update, b
  <2>2. r.aim = ResetAim(b) /\ r.intent = HoldAt(t)
    BY <2>1
  <2> HIDE DEF r
  <2> QED
    BY <1>3, <1>4, <2>2 DEF UpdatesWell, r
<1>5. CASE i.eligible /\ i.trigger = "low"
  <2> DEFINE x == [b EXCEPT !.needsRelease = FALSE, !.clutched = FALSE]
  <2>1. r = [aim |-> x, intent |-> HoldAt(t)]
    BY <1>5 DEF Update, b
  <2>2. r.aim = x /\ r.intent = HoldAt(t)
    BY <2>1
  <2> HIDE DEF r, x
  <2> QED
    BY <1>3, <1>5, <2>2 DEF UpdatesWell, r, x
<1>6. CASE i.eligible /\ i.trigger # "low" /\ b.needsRelease
  <2>1. r = [aim |-> b, intent |-> HoldAt(t)]
    BY <1>6 DEF Update, b
  <2>2. r.aim = b /\ r.intent = HoldAt(t)
    BY <2>1
  <2> HIDE DEF r
  <2> QED
    BY <1>2, <1>6, <2>2 DEF UpdatesWell, r
<1>7. CASE i.eligible /\ i.trigger = "mid" /\ ~b.needsRelease
  <2> DEFINE x == [b EXCEPT !.clutched = FALSE]
  <2>1. r = [aim |-> x, intent |-> HoldAt(t)]
    BY <1>7 DEF Update, b
  <2>2. r.aim = x /\ r.intent = HoldAt(t)
    BY <2>1
  <2> HIDE DEF r, x
  <2> QED
    BY <1>3, <1>7, <2>2 DEF UpdatesWell, r, x
<1>8. CASE i.eligible /\ i.trigger = "high" /\ ~b.needsRelease
  <2> DEFINE x == [b EXCEPT !.clutched = TRUE]
  <2>1. \/ r = [aim |-> ResetAim(b), intent |-> HoldAt(t)]
        \/ r = [aim |-> x, intent |-> AimAt(t)]
    BY <1>8 DEF Update, b
  <2> HIDE DEF x
  <2>2. \/ r.aim = ResetAim(b) /\ r.intent = HoldAt(t)
        \/ r.aim = x /\ r.intent = AimAt(t)
    <3> HIDE DEF r
    <3> QED
      BY <2>1
  <2>3. x \in Aims(t) /\ ~x.needsRelease
    BY <1>3, <1>8 DEF x
  <2> HIDE DEF r
  <2> QED
    BY <1>3, <1>8, <2>2, <2>3 DEF UpdatesWell, r
<1> QED
  BY <1>4, <1>5, <1>6, <1>7, <1>8 DEF Triggers

\* An answer that the policy takes up: q is the policy after it.
TakesUp(p, f, q) ==
    /\ q.feedback = [f EXCEPT !.received = now]
    /\ q.initialized = TRUE /\ q.pending = FALSE
    /\ q.pendingRelease = p.pendingRelease /\ q.pendingOperation = p.pendingOperation
    /\ q.sequence = p.sequence /\ q.clientNs = p.clientNs
    /\ p.needsRelease /\ ~p.pendingRelease => q.needsRelease
    /\ q.needsRelease => p.needsRelease \/ (p.initialized /\ p.pendingOperation = "aim" /\ ~f.armed)

\* Accept takes an answer up.
LEMMA AcceptSound ==
    ASSUME NEW p \in Policies, NEW f \in Feedbacks, now \in Nat
    PROVE  /\ Accept(p, f, now) \in Policies
           /\ TakesUp(p, f, Accept(p, f, now))
<1> DEFINE g == [f EXCEPT !.received = now]
           n == ~(p.initialized /\ p.pendingRelease) /\
                  (p.needsRelease \/ (p.initialized /\ p.pendingOperation = "aim" /\ ~f.armed))
           q == Accept(p, f, now)
<1>1. g \in Feedbacks
  BY DEF Feedbacks
<1>2. q = [p EXCEPT !.feedback = g, !.initialized = TRUE, !.pending = FALSE,
                    !.needsRelease = n]
  BY DEF Accept, Policies
<1>3. n \in BOOLEAN
  OBVIOUS
<1>4. /\ p.needsRelease /\ ~p.pendingRelease => n
      /\ n => p.needsRelease \/ (p.initialized /\ p.pendingOperation = "aim" /\ ~f.armed)
  OBVIOUS
<1> HIDE DEF n, g, q
<1>5. /\ q \in Policies /\ q.feedback = g /\ q.initialized = TRUE /\ q.pending = FALSE
      /\ q.needsRelease = n
      /\ q.pendingRelease = p.pendingRelease /\ q.pendingOperation = p.pendingOperation
      /\ q.sequence = p.sequence /\ q.clientNs = p.clientNs
  BY <1>1, <1>2, <1>3 DEF Policies
<1> QED
  BY <1>4, <1>5 DEF TakesUp, g, q

\* A command that goes out: q is the policy after it.
Sends(p, x, q) ==
    LET kind == Operation(p, x, now)
        hold == Within100(x.intent.sampled, now) /\ x.intent.operation = "hold"
    IN  /\ kind \in {"hold", "aim", "resetMap"}
        /\ kind = "aim" => /\ x.intent.operation = "aim" /\ now <= x.intent.sampled + IntentAge
                           /\ ~p.needsRelease
        /\ q.feedback = p.feedback /\ q.initialized = p.initialized /\ q.pending = TRUE
        /\ q.sequence = p.sequence + 1 /\ q.clientNs = now /\ q.pendingOperation = kind
        /\ q.pendingRelease => kind = "hold" /\ x.intent.operation = "hold"
        /\ p.needsRelease => q.needsRelease
        /\ kind = "hold" /\ x.intent.operation = "aim" => q.needsRelease
        /\ kind = "resetMap" => q.needsRelease
        /\ kind = "aim" => ~q.needsRelease

\* Command sends one out.
LEMMA CommandSound ==
    ASSUME NEW p \in Policies, NEW x \in [intent: Intents, reset: BOOLEAN], now \in Nat
    PROVE  /\ Command(p, x, now) \in Policies
           /\ Sends(p, x, Command(p, x, now))
<1> DEFINE kind == Operation(p, x, now)
           hold == Within100(x.intent.sampled, now) /\ x.intent.operation = "hold"
           n == p.needsRelease \/ kind = "resetMap" \/ (kind = "hold" /\ ~hold)
           e == kind = "hold" /\ hold /\ Within100(p.feedback.received, now)
           q == Command(p, x, now)
<1>0. x.intent.sampled \in 0..now /\ x.intent.operation \in {"hold", "aim"}
  BY DEF Intents
<1>1. /\ kind \in {"hold", "aim", "resetMap"}
      /\ kind = "aim" => /\ x.intent.operation = "aim" /\ now <= x.intent.sampled + IntentAge
                         /\ ~p.needsRelease
  BY <1>0, ClientAssumption DEF Operation, Within100
<1>2. n \in BOOLEAN /\ e \in BOOLEAN
  BY DEF Within100
<1>3. q = [p EXCEPT !.needsRelease = n, !.pendingRelease = e, !.pendingOperation = kind,
                    !.clientNs = now, !.pending = TRUE, !.sequence = p.sequence + 1]
  BY DEF Command, Policies
<1>4. /\ e => kind = "hold" /\ x.intent.operation = "hold"
      /\ p.needsRelease => n
      /\ kind = "hold" /\ x.intent.operation = "aim" => n
      /\ kind = "resetMap" => n
      /\ kind = "aim" => ~n
  BY <1>1
<1>6. now \in 0..now /\ p.sequence + 1 \in Nat
  BY DEF Policies
<1> HIDE DEF n, e, kind, hold, q
<1>5. /\ q \in Policies /\ q.feedback = p.feedback /\ q.initialized = p.initialized
      /\ q.pending = TRUE /\ q.needsRelease = n /\ q.pendingRelease = e
      /\ q.sequence = p.sequence + 1 /\ q.clientNs = now /\ q.pendingOperation = kind
  BY <1>1, <1>2, <1>3, <1>6 DEF Policies
<1> QED
  BY <1>1, <1>4, <1>5 DEF Sends, kind, q

-------------------------------------------------------------------------------
(***************************************************************************)
(* The moves: each step by what it does to the protocol                    *)
(***************************************************************************)
\* The invariant of the whole exchange.
ClientTypes ==
    /\ aim \in Aims(now) /\ xr \in {"frame", "notify", "close", "join"} /\ starts \in 0..MaxStarts
    /\ state \in States /\ latest \in Intents /\ resetRequested \in 0..now
    /\ stop \in BOOLEAN
    /\ worker \in {"none", "open", "wait", "send", "exchange", "exit", "done"}
    /\ taken \in [intent: Intents, reset: BOOLEAN] /\ nextSend \in Nat
    /\ policy \in Policies /\ link \in {"none", "opening", "open", "shut"}
    /\ request # None => request.clientNs \in 1..now
    /\ reply # None => reply \in Feedbacks

Safe ==
    /\ ClientTypes /\ HostInv /\ LinkInv /\ PolicyInv /\ RequestInv /\ WireInv
    /\ LeaseBoundedByHand /\ HandInv /\ GripInv

\* What a step of the headset notes in the history.
Noted ==
    /\ UNCHANGED <<now, driver, session, challenges, sessions, clearRequested, granted>>
    /\ pulled => pulled'
    /\ ~aim'.needsRelease => ~aim.needsRelease \/ pulled'
    /\ ~regrip' => ~regrip /\ (latest' = latest \/ latest'.operation # "hold")
    /\ ~letGo' => \/ worker = "wait" /\ worker' = "send"
                  \/ ~letGo /\ (latest' = latest \/ latest'.operation # "hold")

\* A frame, a menu command or a request to reset the map.
Touch ==
    /\ aim' \in Aims(now) /\ latest' \in Intents /\ resetRequested' \in 0..now
    /\ \/ latest' = latest \/ latest'.operation = "hold"
       \/ latest'.operation = "aim" /\ ~aim'.needsRelease
    /\ ~state.connected => aim'.needsRelease /\ (latest' = latest \/ latest'.operation = "hold")
    /\ UNCHANGED <<xr, starts, state, stop, worker, taken, nextSend, policy, link, request,
                   reply>>

\* Start.
Starts ==
    /\ xr = "frame" /\ worker \in {"none", "done"} /\ worker' = "open"
    /\ aim' = ResetAim(aim) /\ starts' \in 0..MaxStarts
    /\ state' = [NoState EXCEPT !.running = TRUE] /\ latest' = NoIntent
    /\ resetRequested' = NoTime /\ stop' = FALSE /\ policy' = InitialPolicy
    /\ link' = "opening" /\ reply' = None
    /\ UNCHANGED <<xr, taken, nextSend, request>>

\* The steps of Stop: the flag, the close, and what follows the join.
Flags ==
    /\ aim' = ResetAim(aim) /\ latest' \in {latest, HoldAt(now)}
    /\ xr' = "notify" /\ stop' = TRUE
    /\ UNCHANGED <<starts, state, resetRequested, worker, taken, nextSend, policy, link,
                   request, reply>>

Closes ==
    /\ xr' = "join" /\ link' \in {"none", "shut"} /\ (link' = "none" => link = "none")
    /\ UNCHANGED <<aim, starts, state, latest, resetRequested, stop, worker, taken, nextSend,
                   policy, request, reply>>

\* The notify, and the worker's steps inside wait_until.
Turns ==
    /\ xr' = xr \/ (xr = "notify" /\ xr' = "close")
    /\ UNCHANGED <<aim, starts, state, latest, resetRequested, stop, worker, taken, nextSend,
                   policy, link, request, reply>>

Stopped ==
    /\ worker \in {"none", "done"} /\ worker' = "none"
    /\ xr' = "frame" /\ state' = NoState /\ latest' = NoIntent /\ resetRequested' = NoTime
    /\ UNCHANGED <<aim, starts, stop, taken, nextSend, policy, link, request, reply>>

\* The worker gives up, with an error other than a protocol error.
Leaves ==
    /\ worker' = "exit" /\ state' \in States /\ state'.error # "protocol"
    /\ state'.connected = state.connected
    /\ taken' = NothingTaken /\ nextSend' = NoTime /\ policy' = InitialPolicy
    /\ link' \in {link, "shut"} /\ worker # "none"
    /\ reply' \in {reply, None} /\ (link' = "open" => request = None /\ reply' = None)
    /\ UNCHANGED <<aim, xr, starts, stop, latest, resetRequested, request>>

\* The worker takes up an answer: the first one, or that of a command.
Hears ==
    /\ reply # None /\ link = "open" /\ reply' = None
    /\ policy' \in Policies /\ TakesUp(policy, reply, policy')
    /\ state' \in States /\ state'.error # "protocol"
    /\ \/ worker = "open" /\ nextSend' = now
       \/ worker = "exchange" /\ nextSend' = nextSend
    /\ worker' = "wait"
    /\ UNCHANGED <<aim, xr, starts, stop, latest, resetRequested, taken, link, request>>

Takes ==
    /\ worker = "wait" /\ now >= nextSend /\ worker' = "send"
    /\ taken' \in [intent: Intents, reset: BOOLEAN] /\ taken'.intent = latest
    /\ resetRequested' = NoTime
    /\ UNCHANGED <<aim, xr, starts, stop, state, latest, nextSend, policy, link, request,
                   reply>>

\* A command goes out; on a broken connection it is lost.
Speaks ==
    /\ worker = "send" /\ worker' = "exchange"
    /\ policy' \in Policies /\ Sends(policy, taken, policy')
    /\ request' = IF link = "open" THEN Encoded(policy, taken, now) ELSE request
    /\ nextSend' = now + SendPeriod /\ taken' = NothingTaken
    /\ UNCHANGED <<aim, xr, starts, stop, state, latest, resetRequested, link, reply>>

Ends ==
    /\ worker = "exit" /\ worker' = "done" /\ link' = "shut"
    /\ state' \in States /\ state'.error = state.error
    /\ latest' = NoIntent /\ resetRequested' = NoTime
    /\ UNCHANGED <<aim, xr, starts, stop, taken, nextSend, policy, request, reply>>

HeadsetMove ==
    \/ Touch \/ Starts \/ Flags \/ Closes \/ Turns \/ Stopped
    \/ Leaves \/ Hears \/ Takes \/ Speaks \/ Ends

\* The stamps and the numbers of a state that satisfies the invariant.
LEMMA Facts ==
    ASSUME Safe
    PROVE  /\ now \in Nat /\ now >= 1 /\ now \in 0..now /\ 0 \in 0..now
           /\ IntentAge \in Nat /\ SendPeriod \in Nat /\ SendPeriod >= 1
           /\ session \in SessionStates /\ driver \in Drivers
           /\ challenges \in Nat /\ session.challenge <= challenges /\ session.issued <= now
  BY SessionAssumption, ClientAssumption DEF Safe, HostInv, SessionInv, Settled

\* The initial records have their types.
LEMMA Initials ==
    ASSUME now \in Nat
    PROVE  /\ NoFeedback \in Feedbacks /\ InitialPolicy \in Policies /\ NoState \in States
           /\ [NoState EXCEPT !.running = TRUE] \in States
           /\ NoState.error = "none" /\ [NoState EXCEPT !.running = TRUE].error = "none"
           /\ ~[NoState EXCEPT !.running = TRUE].connected
           /\ NoIntent \in Intents /\ NoIntent.operation = "hold"
           /\ HoldAt(now) \in Intents /\ HoldAt(now).operation = "hold"
           /\ AimAt(now) \in Intents /\ AimAt(now).operation = "aim"
           /\ NothingTaken \in [intent: Intents, reset: BOOLEAN]
           /\ NothingTaken.intent.operation = "hold"
           /\ \A a \in Aims(now) : ResetAim(a) \in Aims(now) /\ ResetAim(a).needsRelease
<1>1. now \in 0..now /\ 0 \in 0..now
  OBVIOUS
<1>2. NoFeedback \in Feedbacks
  BY <1>1 DEF NoFeedback, Feedbacks, NoTime
<1>3. InitialPolicy \in Policies
  BY <1>1, <1>2 DEF InitialPolicy, Policies
<1>4. NoState \in States /\ NoState.error = "none"
  BY <1>2 DEF NoState, States
<1>5. /\ [NoState EXCEPT !.running = TRUE] \in States
      /\ [NoState EXCEPT !.running = TRUE].error = "none"
      /\ ~[NoState EXCEPT !.running = TRUE].connected
  BY <1>2 DEF NoState, States
<1>6. /\ NoIntent \in Intents /\ NoIntent.operation = "hold"
      /\ HoldAt(now) \in Intents /\ HoldAt(now).operation = "hold"
  BY <1>1 DEF NoIntent, HoldAt, NoTime, Intents
<1>7. AimAt(now) \in Intents /\ AimAt(now).operation = "aim"
  BY <1>1 DEF AimAt, Intents
<1>8. /\ NothingTaken \in [intent: Intents, reset: BOOLEAN]
      /\ NothingTaken.intent.operation = "hold"
  BY <1>6 DEF NothingTaken
<1>9. \A a \in Aims(now) : ResetAim(a) \in Aims(now) /\ ResetAim(a).needsRelease
  BY DEF ResetAim, Aims
<1> QED
  BY <1>2, <1>3, <1>4, <1>5, <1>6, <1>7, <1>8, <1>9

\* A frame without a connection only lets go; one that aims has seen the trigger released.
LEMMA FrameTouches ==
    ASSUME Safe, NEW ready \in BOOLEAN, NEW trigger \in Triggers, NEW jump \in BOOLEAN,
           Frame(ready, trigger, jump)
    PROVE  Touch
<1> DEFINE fresh == /\ state.connected /\ state.feedback.received # NoTime
                    /\ now - state.feedback.received <= FrameGap
           i == [now |-> now, epoch |-> state.feedback.session,
                 eligible |-> ready /\ fresh /\ state.feedback.tracked,
                 trigger |-> trigger, jump |-> jump]
           r == Update(aim, i)
<1>0. now \in Nat /\ state.feedback.session \in Nat /\ aim \in Aims(now)
      /\ state.feedback.tracked \in BOOLEAN /\ latest \in Intents /\ resetRequested \in 0..now
      /\ state.connected \in BOOLEAN
  BY Facts DEF Safe, ClientTypes, States, Feedbacks
<1>1. /\ i.now = now /\ i.epoch \in Nat /\ i.eligible \in BOOLEAN /\ i.trigger \in Triggers
      /\ ~state.connected => ~i.eligible
  BY <1>0
<1>2. /\ aim' = r.aim /\ latest' = IF state.running THEN r.intent ELSE latest
      /\ UNCHANGED <<xr, starts, state, resetRequested, stop, worker, taken, nextSend, policy,
                     link, request, reply>>
  BY DEF Frame, Submit, workerVars, wireVars
<1> HIDE DEF i
<1>3. UpdatesWell(i, now, r)
  BY <1>0, <1>1, UpdateSound
<1> HIDE DEF r
<1> QED
  BY <1>0, <1>1, <1>2, <1>3, Initials DEF UpdatesWell, Touch

\* The menu and the request to reset the map let go.
LEMMA MenuTouches ==
    ASSUME Safe, MenuMode \/ RequestMapReset
    PROVE  Touch
<1>0. now \in Nat /\ aim \in Aims(now) /\ latest \in Intents /\ resetRequested \in 0..now
      /\ now \in 0..now
  BY Facts DEF Safe, ClientTypes
<1>1. /\ aim' = ResetAim(aim) /\ latest' \in {latest, HoldAt(now), NoIntent}
      /\ resetRequested' \in {resetRequested, now}
      /\ UNCHANGED <<xr, starts, state, stop, worker, taken, nextSend, policy, link, request,
                     reply>>
  BY DEF MenuMode, MenuHold, RequestMapReset, Submit, workerVars, wireVars
<1> QED
  BY <1>0, <1>1, Initials DEF Touch

\* Every step of the XR thread is one of its moves.
LEMMA XrMoves ==
    ASSUME Safe, XrStep
    PROVE  Touch \/ Starts \/ Flags \/ Closes \/ Turns \/ Stopped
<1>1. CASE \/ Frame(FALSE, "low", FALSE) \/ Frame(TRUE, "high", TRUE)
           \/ \E trigger \in Triggers : Frame(TRUE, trigger, FALSE)
  BY <1>1, FrameTouches DEF Triggers
<1>2. CASE MenuMode \/ RequestMapReset
  BY <1>2, MenuTouches
<1>3. CASE Start
  <2>1. starts + 1 \in 0..MaxStarts
    BY <1>3, ClientAssumption DEF Start, Safe, ClientTypes
  <2> QED
    BY <1>3, <2>1 DEF Start, Starts
<1>4. CASE StopBegin
  BY <1>4 DEF StopBegin, MenuHold, Submit, Flags, workerVars, wireVars
<1>6. CASE StopNotify
  BY <1>6 DEF StopNotify, Turns, wireVars
<1>7. CASE StopClose
  BY <1>7 DEF StopClose, Closes, workerVars, Safe, ClientTypes
<1>5. CASE StopEnd
  BY <1>5 DEF StopEnd, Stopped, wireVars
<1> QED
  BY <1>1, <1>2, <1>3, <1>4, <1>5, <1>6, <1>7 DEF XrStep

\* The client turns down no answer of this host.
LEMMA NeverRejects ==
    ASSUME Safe, reply # None, link = "open", worker \in {"open", "exchange"}
    PROVE  ~Rejects(policy, reply, now)
<1>1. CASE worker = "open"
  BY <1>1 DEF Safe, PolicyInv, LinkInv, WireInv, Rejects, InitialPolicy
<1>2. CASE worker = "exchange"
  <2>1. /\ policy.initialized /\ policy.pending /\ reply.ack = policy.sequence
        /\ reply.session = policy.feedback.session
        /\ reply.challenge # policy.feedback.challenge
    BY <1>2, Facts
       DEF Safe, PolicyInv, LinkInv, WireInv, Agrees, ClientTypes, Policies, Feedbacks
  <2>2. reply.tracked /\ (reply.armed => policy.pendingOperation = "aim")
    BY <1>2 DEF Safe, WireInv
  <2>3. reply.serverNs >= policy.feedback.serverNs /\ now >= policy.feedback.received
    BY <1>2, Facts DEF Safe, WireInv, ClientTypes, Policies, Feedbacks
  <2> QED
    BY <2>1, <2>2, <2>3, Facts DEF Rejects, Safe, ClientTypes, Policies, Feedbacks
<1> QED
  BY <1>1, <1>2

\* Every step of the worker is one of its moves.
LEMMA WorkerMoves ==
    ASSUME Safe, WorkerStep
    PROVE  Turns \/ Leaves \/ Hears \/ Takes \/ Speaks \/ Ends
<1>0. /\ now \in Nat /\ state \in States /\ policy \in Policies
      /\ state.error # "protocol" /\ state.feedback \in Feedbacks
      /\ latest \in Intents /\ taken \in [intent: Intents, reset: BOOLEAN]
  BY Facts DEF Safe, ClientTypes, PolicyInv, States
<1>1. ASSUME NEW error \in {"none", "transport", "protocol"}, Leave(error),
             stop \/ error # "protocol",
             link' \in {link, "shut"}, worker # "none", reply' \in {reply, None},
             link' = "open" => request = None /\ reply' = None,
             UNCHANGED <<aim, xr, starts, stop, latest, resetRequested, request>>
      PROVE  Leaves
  <2>1. /\ state' \in {state, [state EXCEPT !.error = error]}
        /\ worker' = "exit" /\ taken' = NothingTaken /\ nextSend' = NoTime
        /\ policy' = InitialPolicy
    BY <1>1 DEF Leave
  <2>2. /\ [state EXCEPT !.error = error] \in States
        /\ [state EXCEPT !.error = error].error = error
        /\ [state EXCEPT !.error = error].connected = state.connected
    BY <1>0 DEF States
  <2>3. state' \in States /\ state'.error # "protocol" /\ state'.connected = state.connected
    BY <1>0, <1>1, <2>1, <2>2 DEF Leave
  <2> QED
    BY <1>1, <2>1, <2>3 DEF Leaves
<1>2. CASE Opened \/ Receive
  <2>1. /\ reply # None /\ link = "open" /\ worker \in {"open", "exchange"}
    BY <1>2 DEF Opened, Receive
  <2>2. ~Rejects(policy, reply, now) /\ reply \in Feedbacks /\ request = None
    BY <2>1, NeverRejects DEF Safe, ClientTypes, WireInv
  <2>7. CASE stop
    <3>1. /\ Leave("protocol") /\ reply' = None /\ link' = link
          /\ UNCHANGED <<aim, xr, starts, stop, latest, resetRequested, request>>
      BY <1>2, <2>7 DEF Opened, Receive, xrVars
    <3> QED
      BY <1>1, <2>1, <2>2, <2>7, <3>1
  <2>8. CASE ~stop
    <3>3. /\ policy' = Accept(policy, reply, now) /\ reply' = None /\ worker' = "wait"
          /\ \/ worker = "open" /\ nextSend' = now
             \/ worker = "exchange" /\ nextSend' = nextSend
          /\ \/ state' = [state EXCEPT !.connected = TRUE, !.error = "none",
                                       !.feedback = policy'.feedback]
             \/ state' = [state EXCEPT !.feedback = policy'.feedback]
          /\ UNCHANGED <<aim, xr, starts, stop, latest, resetRequested, taken, link, request>>
      BY <1>2, <2>2, <2>8 DEF Opened, Receive, xrVars
    <3>4. policy' \in Policies /\ TakesUp(policy, reply, policy')
      BY <1>0, <2>2, <3>3, AcceptSound
    <3>5. policy'.feedback \in Feedbacks
      BY <3>4 DEF Policies
    <3>6. state' \in States /\ state'.error # "protocol"
      BY <1>0, <3>3, <3>5 DEF States
    <3> QED
      BY <2>1, <3>3, <3>4, <3>6 DEF Hears
  <2> QED
    BY <2>7, <2>8
<1>3. CASE OpenFails \/ ExchangeFails
  <2>1. \E error \in {"none", "transport", "protocol"} : Leave(error) /\ error # "protocol"
    BY <1>3 DEF OpenFails, ExchangeFails
  <2>2. /\ link' = "shut" /\ worker # "none" /\ reply' = reply
        /\ UNCHANGED <<aim, xr, starts, stop, latest, resetRequested, request>>
    BY <1>3 DEF OpenFails, ExchangeFails, xrVars
  <2> QED
    BY <1>1, <2>1, <2>2
<1>4. CASE Cancelled
  <2>1. /\ worker \in {"wait", "send"} /\ Leave("none")
        /\ UNCHANGED <<aim, xr, starts, stop, latest, resetRequested, link, request, reply>>
    BY <1>4 DEF Cancelled, xrVars, wireVars
  <2>2. link = "open" => request = None /\ reply = None
    BY <2>1 DEF Safe, RequestInv, WireInv
  <2> QED
    BY <1>1, <2>1, <2>2
<1>5. CASE Take
  <2>1. [intent |-> latest, reset |-> Within100(resetRequested, now)]
          \in [intent: Intents, reset: BOOLEAN]
    BY <1>0 DEF Within100
  <2> QED
    BY <1>5, <2>1 DEF Take, Takes, xrVars, wireVars
<1>6. CASE Send
  <2>1. ~OutOfSequence(policy, now)
    BY <1>0, <1>6 DEF Send, Safe, PolicyInv, OutOfSequence, ClientTypes, Policies
  <2>2. /\ worker = "send" /\ worker' = "exchange" /\ policy' = Command(policy, taken, now)
        /\ request' = IF link = "open" THEN Encoded(policy, taken, now) ELSE request
        /\ nextSend' = now + SendPeriod /\ taken' = NothingTaken
        /\ UNCHANGED <<aim, xr, starts, stop, state, latest, resetRequested, link, reply>>
    BY <1>6, <2>1 DEF Send, xrVars
  <2>3. policy' \in Policies /\ Sends(policy, taken, policy')
    BY <1>0, <2>2, CommandSound
  <2> QED
    BY <2>2, <2>3 DEF Speaks
<1>7. CASE Exit
  <2>1. [state EXCEPT !.running = FALSE, !.connected = FALSE] \in States
        /\ [state EXCEPT !.running = FALSE, !.connected = FALSE].error = state.error
    BY <1>0 DEF States
  <2> QED
    BY <1>7, <2>1 DEF Exit, Ends, xrVars
<1>8. CASE TestFlag \/ Block \/ WakeSpuriously
  <2>1. CASE TestFlag
    BY <2>1 DEF TestFlag, Turns, xrVars, wireVars
  <2>2. CASE Block
    BY <2>2 DEF Block, Turns, xrVars, wireVars
  <2>3. CASE WakeSpuriously
    BY <2>3 DEF WakeSpuriously, Turns, xrVars, wireVars
  <2> QED
    BY <1>8, <2>1, <2>2, <2>3
<1> QED
  BY <1>2, <1>3, <1>4, <1>5, <1>6, <1>7, <1>8 DEF WorkerStep

\* Every step of the headset is a move, and its history is true.
LEMMA HeadsetMoves ==
    ASSUME Safe, ClientStep
    PROVE  HeadsetMove /\ Noted
<1>1. HeadsetMove
  <2>1. CASE WorkerStep
    BY <2>1, WorkerMoves DEF HeadsetMove
  <2>2. CASE XrStep
    BY <2>2, XrMoves DEF HeadsetMove
  <2>3. CASE Start \/ StopBegin \/ StopNotify \/ StopClose \/ StopEnd
    BY <2>3, XrMoves DEF HeadsetMove, XrStep
  <2> QED
    BY <2>1, <2>2, <2>3 DEF ClientStep, Headset
<1>2. Noted
  BY DEF ClientStep, Headset, HoldSubmitted, Noted, sessionVars
<1> QED
  BY <1>1, <1>2

\* What the steps of the host leave alone.
HeadsetStays ==
    UNCHANGED <<aim, xr, starts, state, latest, resetRequested, stop, worker, taken, nextSend,
                policy>>

\* A connection is admitted.
Admits ==
    /\ worker = "open" /\ link = "opening" /\ ~session.live
    /\ session' = NewSession(sessions + 1, challenges + 1, now)
    /\ driver'.tracked = TRUE
    /\ link' = "open" /\ reply' = FeedbackOf(driver', session', now) /\ pulled' = FALSE
    /\ HeadsetStays /\ UNCHANGED <<now, request, granted, letGo, regrip>>

\* The session takes the command and answers it, when there is still somebody to answer.
Serves ==
    /\ request # None /\ request' = None /\ link' = link
    /\ session'.live = TRUE /\ session'.nonce = session.nonce
    /\ Obeys(ToCommand(request), session, session', now)
    /\ session'.sequence = request.sequence /\ session'.clientNs = request.clientNs
    /\ session'.challenge = challenges + 1 /\ session'.issued = now
    /\ driver'.tracked = TRUE
    /\ reply' = IF link # "open" THEN None ELSE FeedbackOf(driver', session', now)
    /\ session'.armed => granted' = request.sampled
    /\ regrip' = IF session'.armed THEN letGo ELSE regrip
    /\ HeadsetStays /\ UNCHANGED <<now, letGo, pulled>>

\* The session of a connection that is no longer open goes away.
Drops ==
    /\ link # "open" /\ request' = None /\ session' = NoSession
    /\ driver'.tracked = TRUE
    /\ HeadsetStays /\ UNCHANGED <<now, link, reply, letGo, regrip, pulled>>

\* The connection breaks, or is refused.
Breaks ==
    /\ link' = "shut" /\ request' \in {request, None} /\ reply' \in {reply, None}
    /\ HeadsetStays /\ UNCHANGED <<now, driver, session, granted, letGo, regrip, pulled>>

\* The watchdog, and the clock: the session stays as it is or loses its lease.
Watches ==
    /\ now' \in Nat /\ now <= now'
    /\ session' \in {session, Locked(session)} /\ driver'.tracked = TRUE
    /\ session'.armed => granted' = granted
    /\ HeadsetStays /\ UNCHANGED <<link, request, reply, letGo, regrip, pulled>>

\* The driver and the session, with their stamps.
LEMMA Hosted ==
    ASSUME Safe
    PROVE  /\ SessionInv /\ Timely(driver, session) /\ driver.tracked = TRUE
           /\ Settled(driver, session, now) /\ now \in Nat /\ challenges \in Nat
           /\ sessions \in Nat /\ driver \in Drivers /\ driver.time \in Nat
           /\ driver.time <= now /\ session \in SessionStates
  BY SessionAssumption DEF Safe, HostInv, SessionInv, Settled, Drivers

\* The commands of this client are in order and in the limits, and the host refuses none.
LEMMA NeverRefused ==
    ASSUME Safe, request # None
    PROVE  /\ ToCommand(request) \in Commands
           /\ ToCommand(request).lease = ClientLease
           /\ ToCommand(request).kind = request.kind
           /\ ToCommand(request).sequence = request.sequence
           /\ ToCommand(request).clientNs = request.clientNs
           /\ session.live = TRUE
           /\ HandlesWell(session, ToCommand(request), now, challenges + 1,
                          HandleResult(ToCommand(request)))
<1> DEFINE c == ToCommand(request)
<1>0. /\ request \in Requests /\ request.session = session.nonce
      /\ request.sequence = session.sequence + 1 /\ session.clientNs < request.clientNs
      /\ session.live = TRUE
  BY Hosted DEF Safe, RequestInv, LinkInv, SessionStates
<1>1. PanMax \in Int /\ InLimits(PanMax) /\ ClientLease \in 1..MaxLease
  BY LimitsAssumption, ClientAssumption DEF InLimits
<1>2. c = [wellFormed |-> TRUE, session |-> request.session, challenge |-> request.challenge,
           sequence |-> request.sequence, clientNs |-> request.clientNs,
           kind |-> request.kind, clutch |-> request.kind = "aim", pan |-> PanMax,
           lease |-> ClientLease]
  BY DEF ToCommand
<1>3. c \in Commands
  BY <1>0, <1>1, <1>2 DEF Requests, Commands, Kinds
<1>4. /\ c.wellFormed = TRUE /\ c.session = request.session /\ c.sequence = request.sequence
      /\ c.clientNs = request.clientNs /\ c.kind = request.kind /\ c.pan = PanMax
      /\ c.clutch = (c.kind = "aim") /\ c.lease = ClientLease
  BY <1>2
<1> HIDE DEF c
<1>5. Proper(c)
  BY <1>1, <1>3, <1>4 DEF Proper
<1>6. ~Invalid(session, c)
  BY <1>0, <1>4, Hosted DEF Invalid, Requests, SessionStates
<1>7. HandlesWell(session, c, now, challenges + 1,
                  Handle(driver, session, c, now, challenges + 1))
  <2>1. challenges + 1 \in Nat
    BY Hosted
  <2> QED
    BY <1>0, <1>5, <1>6, <2>1, Hosted, HandleObeys
<1> QED
  BY <1>0, <1>3, <1>4, <1>7 DEF HandleResult, c

\* A connection admitted is a move.
LEMMA AdmitMoves ==
    ASSUME Safe, Admit
    PROVE  Admits
<1>1. driver' = Hold(driver, now) /\ Hold(driver, now).tracked = TRUE
  BY Hosted, HoldSound DEF Admit, OpenSession
<1> QED
  BY <1>1 DEF Admit, OpenSession, Admits, HeadsetStays, headsetVars

\* A command served is a move.
LEMMA ServeMoves ==
    ASSUME Safe, Serve
    PROVE  Serves
<1> DEFINE c == ToCommand(request)
           r == HandleResult(c)
<1>1. HandlesWell(session, c, now, challenges + 1, r) /\ session.live = TRUE
  BY NeverRefused DEF Serve
<1>2. c.sequence = request.sequence /\ c.clientNs = request.clientNs
  BY NeverRefused DEF Serve
<1>3. ~r.raised /\ r.driver.tracked = TRUE
  BY <1>1 DEF HandlesWell
<1>4. driver' = r.driver /\ session' = r.session
  BY DEF Serve, HandleCommand, Commit
<1>5. /\ request # None /\ request' = None /\ link' = link
      /\ reply' = IF link # "open" THEN None ELSE FeedbackOf(driver', session', now)
      /\ session'.armed => granted' = request.sampled
      /\ regrip' = IF session'.armed THEN letGo ELSE regrip
      /\ HeadsetStays /\ UNCHANGED <<now, letGo, pulled>>
  BY <1>3, <1>4 DEF Serve, HandleCommand, HeadsetStays, headsetVars
<1> HIDE DEF r, c
<1>6. /\ Obeys(c, session, session', now) /\ session'.sequence = request.sequence
      /\ session'.clientNs = request.clientNs /\ session'.challenge = challenges + 1
      /\ session'.issued = now
      /\ session'.live = session.live /\ session'.nonce = session.nonce
  BY <1>1, <1>2, <1>4 DEF HandlesWell, Obeys
<1> QED
  BY <1>1, <1>3, <1>4, <1>5, <1>6 DEF Serves, c

\* A session dropped is a move: its close does not raise.
LEMMA DropMoves ==
    ASSUME Safe, Drop
    PROVE  Drops
<1> DEFINE k == Tick(driver, session, now)
           r == Close(driver, session, now)
<1>1. ~r.raised
  BY Hosted, CloseTimely DEF CloseResult
<1>2. driver' = r.driver /\ session' = NoSession
  <2>1. Commit(Done(r.driver, NoSession))
    BY <1>1 DEF Drop, EndSession
  <2> QED
    BY <2>1 DEF Commit, Done
<1>3. ~k.raised /\ k.driver.tracked = TRUE /\ k.driver.time = now
  <2>1. now \in Nat /\ Settled(driver, session, now) /\ Timely(driver, session)
    BY Hosted
  <2>2. driver.tracked = TRUE
    BY Hosted
  <2>3. ~k.raised /\ k.driver.tracked = driver.tracked /\ k.driver.time = now
    BY <2>1, TickKeeps
  <2> QED
    BY <2>2, <2>3
<1>4. k.driver \in Drivers
  BY Hosted, TickSound DEF Settled
<1>5. r.driver = Hold(k.driver, now)
  BY <1>3 DEF Close, Done
<1> HIDE DEF k, r
<1>6. r.driver.tracked = TRUE
  BY <1>3, <1>4, <1>5, Hosted, HoldSound
<1> QED
  BY <1>2, <1>6 DEF Drop, EndSession, Drops, HeadsetStays, headsetVars

\* The watchdog's sample is a move.
LEMMA WatchMoves ==
    ASSUME Safe, Watchdog
    PROVE  Watches
<1>1. session' \in {session, Locked(session)} /\ driver'.tracked = TRUE
  <2>1. CASE session.live
    <3>1. driver' = Tick(driver, session, now).driver /\ session' = Tick(driver, session, now).session
      BY <2>1 DEF Watchdog, Sample, SampleResult, Commit
    <3> QED
      BY <3>1, Hosted, TickKeeps
  <2>2. CASE ~session.live
    <3>1. driver' = Advance(driver, now) /\ session' = session
      BY <2>2 DEF Watchdog, Sample, SampleResult, Commit, Done
    <3> QED
      BY <3>1, Hosted, AdvanceSound
  <2> QED
    BY <2>1, <2>2
<1> QED
  BY <1>1, Hosted DEF Watchdog, Sample, Watches, HeadsetStays, headsetVars

HostMove == Admits \/ Serves \/ Drops \/ Breaks \/ Watches

\* Every step of the host is one of its moves.
LEMMA HostMoves ==
    ASSUME Safe, HostStep
    PROVE  HostMove
<1>1. CASE Refuse \/ LoseLink
  BY <1>1 DEF Refuse, LoseLink, HostMove, Breaks, HeadsetStays, headsetVars, sessionVars,
              historyVars
<1>2. CASE Passing
  <2>1. /\ now' = now + 1
        /\ UNCHANGED <<driver, session, granted, link, request, reply, letGo, regrip, pulled>>
        /\ HeadsetStays
    BY <1>2 DEF Passing, Elapse, headsetVars, historyVars, HeadsetStays
  <2>2. now' \in Nat /\ now <= now'
    BY <2>1, Hosted
  <2>3. session' \in {session, Locked(session)} /\ driver'.tracked = TRUE
    BY <2>1, Hosted
  <2>4. Watches
    BY <2>1, <2>2, <2>3 DEF Watches
  <2> QED
    BY <2>4 DEF HostMove
<1> QED
  BY <1>1, <1>2, AdmitMoves, ServeMoves, DropMoves, WatchMoves DEF HostStep, HostMove


\* The session's own invariant through every step of the host.
LEMMA HostKeeps ==
    ASSUME Safe, HostStep
    PROVE  HostInv'
<1>1. CASE Refuse \/ LoseLink
  <2>1. UNCHANGED sessionVars
    BY <1>1 DEF Refuse, LoseLink
  <2>2. SessionInv'
    BY <2>1, Hosted, SessionInvStep
  <2> QED
    BY <2>1, <2>2, Hosted DEF HostInv, Timely, sessionVars
<1>2. CASE Admit \/ Serve \/ Drop \/ Watchdog \/ Passing
  <2>1. SessionInv' /\ CalmStep
    <3>1. CASE Serve
      <4>1. ToCommand(request) \in Commands /\ HandleCommand(ToCommand(request))
        BY <3>1, NeverRefused DEF Serve
      <4> QED
        BY <4>1, Hosted, HandleInvStep DEF CalmStep
    <3>2. CASE Admit \/ Drop \/ Watchdog \/ Passing
      <4>1. OpenSession \/ EndSession \/ Sample \/ Elapse
        BY <3>2 DEF Admit, Drop, Watchdog, Passing
      <4> QED
        BY <4>1, Hosted, SessionInvStep DEF SessionNext, CalmStep
    <3> QED
      BY <1>2, <3>1, <3>2
  <2>2. Timely(driver, session)'
    BY <2>1, Hosted, CalmStepTimely, MoveTimely
  <2>3. driver'.tracked = TRUE
    <3>1. CASE Passing
      BY <3>1, Hosted DEF Passing, Elapse
    <3>2. CASE Admit
      BY <3>2, AdmitMoves DEF Admits
    <3>3. CASE Serve
      BY <3>3, ServeMoves DEF Serves
    <3>4. CASE Drop
      BY <3>4, DropMoves DEF Drops
    <3>5. CASE Watchdog
      BY <3>5, WatchMoves DEF Watches
    <3> QED
      BY <1>2, <3>1, <3>2, <3>3, <3>4, <3>5
  <2> QED
    BY <2>1, <2>2, <2>3 DEF HostInv
<1> QED
  BY <1>1, <1>2 DEF HostStep

-------------------------------------------------------------------------------
(***************************************************************************)
(* What the moves keep                                                     *)
(***************************************************************************)
\* A stamp is a stamp later on.
LEMMA Later ==
    ASSUME now \in Nat, now' \in Nat, now <= now'
    PROVE  /\ \A n \in 0..now : n \in 0..now'
           /\ \A x \in Intents : x \in Intents'
           /\ \A x \in Feedbacks : x \in Feedbacks'
           /\ \A x \in Policies : x \in Policies'
           /\ \A x \in States : x \in States'
           /\ \A x \in Aims(now) : x \in Aims(now')
           /\ \A x \in [intent: Intents, reset: BOOLEAN] : x \in [intent: Intents', reset: BOOLEAN]
<1>1. \A n \in 0..now : n \in 0..now'
  OBVIOUS
<1>2. \A x \in Intents : x \in Intents'
  BY <1>1 DEF Intents
<1>3. \A x \in Feedbacks : x \in Feedbacks'
  BY <1>1 DEF Feedbacks
<1>4. \A x \in Policies : x \in Policies'
  BY <1>1, <1>3 DEF Policies
<1>5. \A x \in States : x \in States'
  BY <1>3 DEF States
<1>6. \A x \in Aims(now) : x \in Aims(now')
  BY <1>1 DEF Aims
<1>7. \A x \in [intent: Intents, reset: BOOLEAN] : x \in [intent: Intents', reset: BOOLEAN]
  BY <1>2
<1> QED
  BY <1>1, <1>2, <1>3, <1>4, <1>5, <1>6, <1>7

\* A command on its way has its type, and its stamp is that of an earlier moment.
LEMMA OnTheWay ==
    ASSUME Safe, Speaks, request' # None
    PROVE  /\ link = "open" /\ request' = Encoded(policy, taken, now) /\ request = None
           /\ request' \in Requests /\ request'.session = session.nonce
           /\ request'.challenge = session.challenge
           /\ request'.sequence = session.sequence + 1 /\ request'.sequence = policy'.sequence
           /\ request'.clientNs = now /\ policy'.clientNs = now
           /\ session.clientNs < now /\ session.issued <= now
           /\ request'.sampled = taken.intent.sampled
           /\ request'.kind = policy'.pendingOperation
           /\ request'.kind = "aim" => /\ taken.intent.operation = "aim"
                                       /\ now <= taken.intent.sampled + IntentAge
                                       /\ ~policy.needsRelease /\ ~policy'.needsRelease
<1>1. link = "open" /\ request' = Encoded(policy, taken, now) /\ request = None
  BY DEF Speaks, Safe, RequestInv
<1>2. /\ policy.feedback.session = session.nonce /\ policy.sequence = session.sequence
      /\ policy.clientNs = session.clientNs /\ policy.feedback.challenge = session.challenge
  BY <1>1 DEF Speaks, Safe, WireInv, Agrees
<1>3. policy.clientNs < nextSend /\ nextSend <= now /\ policy.clientNs \in Nat /\ nextSend \in Nat
  BY Facts DEF Speaks, Safe, PolicyInv, ClientTypes, Policies
<1>4. taken.intent.sampled \in Nat
  BY Facts DEF Safe, ClientTypes, Intents
<1>5. /\ Operation(policy, taken, now) = policy'.pendingOperation
      /\ Operation(policy, taken, now) \in {"hold", "aim", "resetMap"}
      /\ policy'.sequence = policy.sequence + 1 /\ policy'.clientNs = now
      /\ policy'.pendingOperation = "aim" =>
           /\ taken.intent.operation = "aim" /\ now <= taken.intent.sampled + IntentAge
           /\ ~policy.needsRelease /\ ~policy'.needsRelease
  BY DEF Speaks, Sends
<1>6. session.nonce \in Nat /\ session.challenge \in Nat /\ session.sequence \in Nat
  BY Facts DEF SessionStates
<1>7. /\ request'.session = session.nonce /\ request'.challenge = session.challenge
      /\ request'.sequence = session.sequence + 1 /\ request'.clientNs = now
      /\ request'.kind = policy'.pendingOperation /\ request'.sampled = taken.intent.sampled
  BY <1>1, <1>2, <1>5 DEF Encoded
<1>8. request' \in Requests
  BY <1>1, <1>2, <1>4, <1>5, <1>6, Facts DEF Encoded, Requests
<1> QED
  BY <1>1, <1>2, <1>3, <1>5, <1>7, <1>8, Facts

\* Types, through the steps of the headset.
LEMMA HeadsetTypes ==
    ASSUME Safe, HeadsetMove, Noted
    PROVE  ClientTypes'
<1> USE DEF Noted
<1>0. /\ ClientTypes /\ now \in Nat /\ now' = now
      /\ now \in 0..now /\ 0 \in 0..now
  BY Facts DEF Safe
<1>1. /\ \A n \in 0..now : n \in 0..now'
      /\ \A x \in Intents : x \in Intents'
      /\ \A x \in Feedbacks : x \in Feedbacks'
      /\ \A x \in Policies : x \in Policies'
      /\ \A x \in States : x \in States'
      /\ \A x \in Aims(now) : x \in Aims(now')
      /\ \A x \in [intent: Intents, reset: BOOLEAN] :
           x \in [intent: Intents', reset: BOOLEAN]
  BY <1>0, Later
<1>2. CASE Touch
  BY <1>0, <1>1, <1>2 DEF Touch, ClientTypes
<1>3. CASE Starts
  BY <1>0, <1>1, <1>3, Initials DEF Starts, ClientTypes, NoTime
<1>4. CASE Flags
  BY <1>0, <1>1, <1>4, Initials DEF Flags, ClientTypes
<1>5. CASE Stopped
  BY <1>0, <1>1, <1>5, Initials DEF Stopped, ClientTypes, NoTime
<1>6. CASE Leaves
  BY <1>0, <1>1, <1>6, Initials DEF Leaves, ClientTypes, NoTime
<1>7. CASE Hears
  BY <1>0, <1>1, <1>7 DEF Hears, ClientTypes
<1>8. CASE Takes
  BY <1>0, <1>1, <1>8 DEF Takes, ClientTypes, NoTime
<1>9. CASE Speaks
  <2>1. request' # None => request'.clientNs \in 1..now'
    BY <1>0, <1>9, OnTheWay, Facts
  <2>2. now + SendPeriod \in Nat
    BY Facts
  <2> QED
    BY <1>0, <1>1, <1>9, <2>1, <2>2, Initials DEF Speaks, ClientTypes
<1>10. CASE Ends
  BY <1>0, <1>1, <1>10, Initials DEF Ends, ClientTypes, NoTime
<1>11. CASE Closes
  BY <1>0, <1>1, <1>11, Initials DEF Closes, ClientTypes
<1>12. CASE Turns
  BY <1>0, <1>1, <1>12, Initials DEF Turns, ClientTypes
<1> QED
  BY <1>2, <1>3, <1>4, <1>5, <1>6, <1>7, <1>8, <1>9, <1>10,
     <1>11, <1>12 DEF HeadsetMove

\* The host's feedback is one.
LEMMA AnswerTypes ==
    ASSUME now \in Nat, now' = now, session' \in SessionStates, driver'.tracked = TRUE
    PROVE  /\ FeedbackOf(driver', session', now) \in Feedbacks'
           /\ FeedbackOf(driver', session', now).session = session'.nonce
           /\ FeedbackOf(driver', session', now).challenge = session'.challenge
           /\ FeedbackOf(driver', session', now).ack = session'.sequence
           /\ FeedbackOf(driver', session', now).serverNs = now
           /\ FeedbackOf(driver', session', now).armed = session'.armed
           /\ FeedbackOf(driver', session', now).tracked
<1>1. /\ session'.nonce \in Nat /\ session'.challenge \in Nat /\ session'.sequence \in Nat
      /\ session'.armed \in BOOLEAN /\ 0 \in 0..now'
  BY DEF SessionStates
<1> QED
  BY <1>1 DEF FeedbackOf, Feedbacks, NoTime

\* Types, through the steps of the host.
LEMMA HostTypes ==
    ASSUME Safe, HostMove, HostInv'
    PROVE  ClientTypes'
<1>0. /\ ClientTypes /\ now \in Nat /\ session' \in SessionStates /\ driver'.tracked = TRUE
  BY Facts DEF Safe, HostInv, SessionInv, Settled
<1>1. now' \in Nat /\ now <= now'
  BY <1>0 DEF HostMove, Admits, Serves, Drops, Breaks, Watches
<1>2. /\ \A n \in 0..now : n \in 0..now'
      /\ \A x \in Intents : x \in Intents'
      /\ \A x \in Feedbacks : x \in Feedbacks'
      /\ \A x \in Policies : x \in Policies'
      /\ \A x \in States : x \in States'
      /\ \A x \in Aims(now) : x \in Aims(now')
      /\ \A x \in [intent: Intents, reset: BOOLEAN] :
           x \in [intent: Intents', reset: BOOLEAN]
  BY <1>0, <1>1, Later
<1>3. HeadsetStays
  BY DEF HostMove, Admits, Serves, Drops, Breaks, Watches
<1>4. link' \in {"none", "opening", "open", "shut"}
  BY <1>0 DEF HostMove, Admits, Serves, Drops, Breaks, Watches, ClientTypes
<1>5. request' # None => request'.clientNs \in 1..now'
  BY <1>0, <1>1 DEF HostMove, Admits, Serves, Drops, Breaks, Watches, ClientTypes
<1>6. reply' # None => reply' \in Feedbacks'
  <2>1. CASE Admits \/ Serves
    BY <1>0, <1>2, <2>1, AnswerTypes DEF Admits, Serves
  <2>2. CASE Drops \/ Breaks \/ Watches
    BY <1>0, <1>2, <2>2 DEF Drops, Breaks, Watches, ClientTypes
  <2> QED
    BY <2>1, <2>2 DEF HostMove
<1> QED
  BY <1>0, <1>2, <1>3, <1>4, <1>5, <1>6 DEF ClientTypes, HeadsetStays

\* The link, through the steps of the headset.
LEMMA HeadsetLink ==
    ASSUME Safe, HeadsetMove, Noted
    PROVE  LinkInv'
<1>1. LinkInv /\ UNCHANGED session /\ ClientTypes
  BY DEF Safe, Noted
<1>2. CASE Touch
  BY <1>1, <1>2 DEF Touch, LinkInv, ClientTypes
<1>3. CASE Starts
  BY <1>1, <1>3 DEF Starts, LinkInv, ClientTypes
<1>4. CASE Flags
  BY <1>1, <1>4 DEF Flags, LinkInv, ClientTypes
<1>5. CASE Stopped
  BY <1>1, <1>5 DEF Stopped, LinkInv, ClientTypes
<1>6. CASE Leaves
  BY <1>1, <1>6 DEF Leaves, LinkInv, ClientTypes
<1>7. CASE Hears
  BY <1>1, <1>7 DEF Hears, LinkInv, ClientTypes
<1>8. CASE Takes
  BY <1>1, <1>8 DEF Takes, LinkInv, ClientTypes
<1>9. CASE Speaks
  BY <1>1, <1>9, OnTheWay DEF Speaks, LinkInv, ClientTypes
<1>10. CASE Ends
  BY <1>1, <1>10 DEF Ends, LinkInv, ClientTypes
<1>11. CASE Closes
  BY <1>1, <1>11 DEF Closes, LinkInv, ClientTypes
<1>12. CASE Turns
  BY <1>1, <1>12 DEF Turns, LinkInv, ClientTypes
<1> QED
  BY <1>2, <1>3, <1>4, <1>5, <1>6, <1>7, <1>8, <1>9, <1>10,
     <1>11, <1>12 DEF HeadsetMove

\* The link, through the steps of the host.
LEMMA HostLink ==
    ASSUME Safe, HostMove, HostInv'
    PROVE  LinkInv'
<1>1. LinkInv /\ ClientTypes
  BY DEF Safe
<1>2. CASE Admits
  BY <1>1, <1>2, Hosted
     DEF Admits, LinkInv, ClientTypes, HeadsetStays, Locked, SessionStates, NewSession
<1>3. CASE Serves
  BY <1>1, <1>3, Hosted
     DEF Serves, LinkInv, ClientTypes, HeadsetStays, Locked, SessionStates, NewSession
<1>4. CASE Drops
  BY <1>1, <1>4, Hosted
     DEF Drops, LinkInv, ClientTypes, HeadsetStays, Locked, SessionStates, NewSession
<1>5. CASE Breaks
  BY <1>1, <1>5, Hosted
     DEF Breaks, LinkInv, ClientTypes, HeadsetStays, Locked, SessionStates, NewSession
<1>6. CASE Watches
  BY <1>1, <1>6, Hosted
     DEF Watches, LinkInv, ClientTypes, HeadsetStays, Locked, SessionStates, NewSession
<1> QED
  BY <1>2, <1>3, <1>4, <1>5, <1>6 DEF HostMove

\* The worker's policy, through the steps of the headset.
LEMMA HeadsetPolicy ==
    ASSUME Safe, HeadsetMove, Noted
    PROVE  PolicyInv'
<1>1. PolicyInv /\ UNCHANGED now /\ ClientTypes /\ now \in Nat /\ now >= 1
  BY Facts DEF Safe, Noted
<1>2. CASE Touch
  BY <1>1, <1>2 DEF Touch, PolicyInv, ClientTypes
<1>3. CASE Starts
  BY <1>1, <1>3, Initials DEF Starts, PolicyInv, ClientTypes, InitialPolicy
<1>4. CASE Flags
  BY <1>1, <1>4 DEF Flags, PolicyInv, ClientTypes
<1>5. CASE Stopped
  BY <1>1, <1>5, Initials DEF Stopped, PolicyInv, ClientTypes
<1>6. CASE Leaves
  BY <1>1, <1>6 DEF Leaves, PolicyInv, ClientTypes, InitialPolicy
<1>7. CASE Hears
  BY <1>1, <1>7 DEF Hears, PolicyInv, ClientTypes, TakesUp, InitialPolicy, Policies
<1>8. CASE Takes
  BY <1>1, <1>8 DEF Takes, PolicyInv, ClientTypes
<1>9. CASE Speaks
  BY <1>1, <1>9, Facts DEF Speaks, PolicyInv, ClientTypes, Sends
<1>10. CASE Ends
  BY <1>1, <1>10 DEF Ends, PolicyInv, ClientTypes
<1>11. CASE Closes
  BY <1>1, <1>11 DEF Closes, PolicyInv, ClientTypes
<1>12. CASE Turns
  BY <1>1, <1>12 DEF Turns, PolicyInv, ClientTypes
<1> QED
  BY <1>2, <1>3, <1>4, <1>5, <1>6, <1>7, <1>8, <1>9, <1>10,
     <1>11, <1>12 DEF HeadsetMove

\* The worker's policy, through the steps of the host.
LEMMA HostPolicy ==
    ASSUME Safe, HostMove, HostInv'
    PROVE  PolicyInv'
<1>1. PolicyInv /\ ClientTypes /\ now \in Nat
  BY Facts DEF Safe
<1>2. CASE Admits
  BY <1>1, <1>2 DEF Admits, PolicyInv, ClientTypes, HeadsetStays
<1>3. CASE Serves
  BY <1>1, <1>3 DEF Serves, PolicyInv, ClientTypes, HeadsetStays
<1>4. CASE Drops
  BY <1>1, <1>4 DEF Drops, PolicyInv, ClientTypes, HeadsetStays
<1>5. CASE Breaks
  BY <1>1, <1>5 DEF Breaks, PolicyInv, ClientTypes, HeadsetStays
<1>6. CASE Watches
  BY <1>1, <1>6 DEF Watches, PolicyInv, ClientTypes, HeadsetStays
<1> QED
  BY <1>2, <1>3, <1>4, <1>5, <1>6 DEF HostMove

\* The command on its way, through the steps of the headset.
LEMMA HeadsetRequest ==
    ASSUME Safe, HeadsetMove, Noted
    PROVE  RequestInv'
<1>1. RequestInv /\ UNCHANGED <<now, session>>
  BY DEF Safe, Noted
<1>2. CASE Touch
  BY <1>1, <1>2 DEF Touch, RequestInv
<1>3. CASE Starts
  BY <1>1, <1>3 DEF Starts, RequestInv
<1>4. CASE Flags
  BY <1>1, <1>4 DEF Flags, RequestInv
<1>5. CASE Stopped
  BY <1>1, <1>5 DEF Stopped, RequestInv
<1>6. CASE Leaves
  BY <1>1, <1>6 DEF Leaves, RequestInv, Safe, PolicyInv
<1>7. CASE Hears
  BY <1>1, <1>7 DEF Hears, RequestInv, Safe, WireInv
<1>8. CASE Takes
  BY <1>1, <1>8 DEF Takes, RequestInv
<1>9. CASE Speaks
  BY <1>1, <1>9, OnTheWay DEF Speaks, RequestInv
<1>10. CASE Ends
  BY <1>1, <1>10 DEF Ends, RequestInv
<1>11. CASE Closes
  BY <1>1, <1>11 DEF Closes, RequestInv
<1>12. CASE Turns
  BY <1>1, <1>12 DEF Turns, RequestInv
<1> QED
  BY <1>2, <1>3, <1>4, <1>5, <1>6, <1>7, <1>8, <1>9, <1>10,
     <1>11, <1>12 DEF HeadsetMove

\* The command on its way, through the steps of the host.
LEMMA HostRequest ==
    ASSUME Safe, HostMove, HostInv'
    PROVE  RequestInv'
<1>1. RequestInv /\ session \in SessionStates
  BY Facts DEF Safe
<1>2. CASE Admits
  BY <1>1, <1>2 DEF Admits, RequestInv, Safe, LinkInv, HeadsetStays
<1>3. CASE Serves
  BY <1>1, <1>3 DEF Serves, RequestInv, HeadsetStays
<1>4. CASE Drops
  BY <1>1, <1>4 DEF Drops, RequestInv, HeadsetStays
<1>5. CASE Breaks
  BY <1>1, <1>5 DEF Breaks, RequestInv, HeadsetStays
<1>6. CASE Watches
  BY <1>1, <1>6 DEF Watches, RequestInv, HeadsetStays, Locked, SessionStates
<1> QED
  BY <1>2, <1>3, <1>4, <1>5, <1>6 DEF HostMove

\* The two ends of a connection, through the steps of the headset.
LEMMA HeadsetWire ==
    ASSUME Safe, HeadsetMove, Noted
    PROVE  WireInv'
<1>1. WireInv /\ UNCHANGED <<now, session>> /\ now \in Nat
  BY Facts DEF Safe, Noted
<1>2. CASE Touch
  BY <1>1, <1>2 DEF Touch, WireInv, Agrees
<1>3. CASE Starts
  BY <1>1, <1>3 DEF Starts, WireInv, Agrees
<1>4. CASE Flags
  BY <1>1, <1>4 DEF Flags, WireInv, Agrees
<1>5. CASE Stopped
  BY <1>1, <1>5 DEF Stopped, WireInv, Agrees
<1>6. CASE Leaves
  <2>1. worker' = "exit" /\ policy' = InitialPolicy /\ request' = request
        /\ (link' = "open" => request = None /\ reply' = None)
    BY <1>6 DEF Leaves
  <2>2. InitialPolicy.feedback.serverNs = 0
    BY DEF InitialPolicy, NoFeedback
  <2> QED
    BY <1>1, <2>1, <2>2 DEF WireInv
<1>7. CASE Hears
  BY <1>1, <1>7
     DEF Hears, WireInv, Agrees, TakesUp, Safe, PolicyInv, InitialPolicy, ClientTypes,
         Feedbacks
<1>8. CASE Takes
  BY <1>1, <1>8 DEF Takes, WireInv, Agrees
<1>9. CASE Speaks
  BY <1>1, <1>9, OnTheWay DEF Speaks, WireInv, Agrees, Sends
<1>10. CASE Ends
  BY <1>1, <1>10 DEF Ends, WireInv, Agrees
<1>11. CASE Closes
  BY <1>1, <1>11 DEF Closes, WireInv, Agrees
<1>12. CASE Turns
  BY <1>1, <1>12 DEF Turns, WireInv, Agrees
<1> QED
  BY <1>2, <1>3, <1>4, <1>5, <1>6, <1>7, <1>8, <1>9, <1>10,
     <1>11, <1>12 DEF HeadsetMove

\* The two ends of a connection, through the steps of the host.
LEMMA HostWire ==
    ASSUME Safe, HostMove, HostInv'
    PROVE  WireInv'
<1>1. WireInv /\ session \in SessionStates /\ now \in Nat
  BY Facts DEF Safe
<1>2. CASE Admits
  <2>1. /\ session'.nonce = sessions + 1 /\ session'.challenge = challenges + 1
        /\ session'.sequence = 0 /\ session'.clientNs = 0 /\ ~session'.armed
    BY <1>2 DEF Admits, NewSession
  <2>2. session' \in SessionStates /\ driver'.tracked = TRUE
    BY DEF HostInv, SessionInv, Settled
  <2>3. /\ reply'.session = session'.nonce /\ reply'.challenge = session'.challenge
        /\ reply'.ack = session'.sequence /\ reply'.tracked /\ reply'.serverNs = now
        /\ reply'.armed = session'.armed
    BY <1>1, <1>2, <2>2, AnswerTypes DEF Admits
  <2>4. /\ request' = None /\ worker' = "open" /\ now' = now
        /\ policy'.feedback.serverNs = 0
    BY <1>2 DEF Admits, HeadsetStays, Safe, LinkInv, PolicyInv, InitialPolicy, NoFeedback
  <2> QED
    BY <1>1, <2>1, <2>3, <2>4 DEF WireInv
<1>3. CASE Serves
  <2>1. SUFFICES ASSUME link = "open" PROVE WireInv'
    BY <1>3 DEF Serves, WireInv
  <2>2. session' \in SessionStates /\ driver'.tracked = TRUE
    BY DEF HostInv, SessionInv, Settled
  <2>3. /\ reply'.session = session'.nonce /\ reply'.challenge = session'.challenge
        /\ reply'.ack = session'.sequence /\ reply'.tracked /\ reply'.serverNs = now
        /\ reply'.armed = session'.armed
    BY <1>1, <1>3, <2>1, <2>2, AnswerTypes DEF Serves
  <2>4. worker = "exchange"
    BY <1>1, <1>3, <2>1 DEF Serves, Safe, RequestInv, LinkInv, WireInv, ClientTypes
  <2>5. /\ policy.feedback.session = session.nonce
        /\ policy.feedback.challenge = session.challenge
        /\ policy.sequence = request.sequence /\ policy.clientNs = request.clientNs
        /\ policy.feedback.serverNs <= now
    BY <1>1, <1>3, <2>1, <2>4 DEF Serves, WireInv
  <2>6. /\ session'.nonce = session.nonce /\ session'.sequence = request.sequence
        /\ session'.clientNs = request.clientNs /\ session'.challenge = challenges + 1
        /\ request' = None /\ link' = link /\ now' = now
        /\ policy' = policy /\ worker' = worker
    BY <1>3 DEF Serves, HeadsetStays
  <2>7. policy'.feedback.challenge < reply'.challenge
    BY <2>3, <2>5, <2>6, Facts DEF SessionStates
  <2>8. session'.armed => request.kind = "aim"
    BY <1>3, NeverRefused DEF Serves, Obeys
  <2>9. reply'.armed => policy.pendingOperation = "aim" /\ ~policy.needsRelease
    BY <1>3, <2>3, <2>4, <2>8 DEF Serves, Safe, RequestInv
  <2> QED
    BY <1>1, <2>3, <2>4, <2>5, <2>6, <2>7, <2>9 DEF WireInv, Agrees
<1>4. CASE Drops
  BY <1>1, <1>4 DEF Drops, WireInv, HeadsetStays, Agrees
<1>5. CASE Breaks
  BY <1>1, <1>5 DEF Breaks, WireInv, HeadsetStays, Agrees
<1>6. CASE Watches
  <2>1. /\ session'.nonce = session.nonce /\ session'.challenge = session.challenge
        /\ session'.sequence = session.sequence /\ session'.clientNs = session.clientNs
        /\ session'.armed => session.armed
    BY <1>1, <1>6 DEF Watches, Locked, SessionStates
  <2>2. /\ \A n \in Nat : n <= now => n <= now'
        /\ HeadsetStays /\ UNCHANGED <<link, request, reply>>
    BY <1>1, <1>6 DEF Watches
  <2>3. policy.feedback.serverNs \in Nat /\ (reply # None => reply.serverNs \in Nat)
    BY DEF Safe, ClientTypes, Policies, Feedbacks
  <2> QED
    BY <1>1, <2>1, <2>2, <2>3 DEF WireInv, HeadsetStays, Agrees
<1> QED
  BY <1>2, <1>3, <1>4, <1>5, <1>6 DEF HostMove

\* The lease, through the steps of the host.
LEMMA HostLease ==
    ASSUME Safe, HostMove, HostInv'
    PROVE  LeaseBoundedByHand'
<1>1. LeaseBoundedByHand /\ session \in SessionStates
  BY Facts DEF Safe
<1>2. CASE Admits
  BY <1>1, <1>2 DEF Admits, LeaseBoundedByHand, NewSession, NoSession, Locked, SessionStates
<1>3. CASE Serves
  <2>1. SUFFICES ASSUME session'.armed
                 PROVE  session'.expiry <= granted' + IntentAge + ChallengeAge + ClientLease
    BY DEF LeaseBoundedByHand
  <2>2. /\ ToCommand(request).kind = "aim" /\ now <= session.issued + ChallengeAge
        /\ session'.expiry = now + ToCommand(request).lease
        /\ granted' = request.sampled /\ request # None
    BY <1>3, <2>1 DEF Serves, Obeys
  <2>3. ToCommand(request).lease = ClientLease /\ request.kind = "aim"
    BY <2>2, NeverRefused
  <2>4. /\ session.issued <= request.clientNs
        /\ request.clientNs <= request.sampled + IntentAge
        /\ request.clientNs \in Nat /\ request.sampled \in Nat
    BY <2>2, <2>3 DEF Safe, RequestInv, Requests
  <2> QED
    BY <1>1, <2>2, <2>3, <2>4, Facts, ClientAssumption, SessionAssumption DEF SessionStates
<1>4. CASE Drops
  BY <1>1, <1>4 DEF Drops, LeaseBoundedByHand, NewSession, NoSession, Locked, SessionStates
<1>5. CASE Breaks
  BY <1>1, <1>5 DEF Breaks, LeaseBoundedByHand, NewSession, NoSession, Locked, SessionStates
<1>6. CASE Watches
  BY <1>1, <1>6
     DEF Watches, LeaseBoundedByHand, NewSession, NoSession, Locked, SessionStates
<1> QED
  BY <1>2, <1>3, <1>4, <1>5, <1>6 DEF HostMove

\* The hand in this session, through the steps of the headset.
LEMMA HeadsetHand ==
    ASSUME Safe, HeadsetMove, Noted
    PROVE  HandInv'
<1>1. HandInv /\ UNCHANGED session /\ (pulled => pulled')
      /\ (~aim'.needsRelease => ~aim.needsRelease \/ pulled') /\ aim \in Aims(now) /\ now \in Nat
  BY Facts DEF Safe, Noted, ClientTypes
<1>2. CASE Touch
  BY <1>1, <1>2, Initials DEF Touch, HandInv
<1>3. CASE Starts
  BY <1>1, <1>3, Initials DEF Starts, HandInv
<1>4. CASE Flags
  BY <1>1, <1>4, Initials DEF Flags, HandInv
<1>5. CASE Stopped
  BY <1>1, <1>5, Initials DEF Stopped, HandInv
<1>6. CASE Leaves
  BY <1>1, <1>6, Initials DEF Leaves, HandInv
<1>7. CASE Hears
  BY <1>1, <1>7, Initials DEF Hears, HandInv
<1>8. CASE Takes
  BY <1>1, <1>8, Initials DEF Takes, HandInv
<1>9. CASE Speaks
  BY <1>1, <1>9, OnTheWay, Initials DEF Speaks, HandInv
<1>10. CASE Ends
  BY <1>1, <1>10, Initials DEF Ends, HandInv
<1>11. CASE Closes
  BY <1>1, <1>11, Initials DEF Closes, HandInv
<1>12. CASE Turns
  BY <1>1, <1>12, Initials DEF Turns, HandInv
<1> QED
  BY <1>2, <1>3, <1>4, <1>5, <1>6, <1>7, <1>8, <1>9, <1>10,
     <1>11, <1>12 DEF HeadsetMove

\* The hand in this session, through the steps of the host.
LEMMA HostHand ==
    ASSUME Safe, HostMove, HostInv'
    PROVE  HandInv'
<1>1. HandInv /\ session \in SessionStates
  BY Facts DEF Safe
<1>2. CASE Admits
  <2>1. ~session'.armed /\ request' = None
    BY <1>2 DEF Admits, NewSession, Safe, LinkInv
  <2>2. /\ aim.needsRelease /\ latest.operation = "hold" /\ ~state.connected
        /\ taken.intent.operation = "hold"
    BY <1>1, <1>2, Initials, Facts DEF Admits, HandInv, Safe, PolicyInv
  <2> QED
    BY <1>1, <1>2, <2>1, <2>2 DEF Admits, HandInv, HeadsetStays
<1>3. CASE Serves
  <2>1. session'.armed => request.kind = "aim"
    BY <1>3, NeverRefused DEF Serves, Obeys
  <2> QED
    BY <1>1, <1>3, <2>1 DEF Serves, HandInv, HeadsetStays
<1>4. CASE Drops
  BY <1>1, <1>4
     DEF Drops, HandInv, HeadsetStays, NewSession, NoSession, Locked, SessionStates
<1>5. CASE Breaks
  BY <1>1, <1>5
     DEF Breaks, HandInv, HeadsetStays, NewSession, NoSession, Locked, SessionStates
<1>6. CASE Watches
  BY <1>1, <1>6
     DEF Watches, HandInv, HeadsetStays, NewSession, NoSession, Locked, SessionStates
<1> QED
  BY <1>2, <1>3, <1>4, <1>5, <1>6 DEF HostMove

\* The hand behind the last lease, through the steps of the headset.
LEMMA HeadsetGrip ==
    ASSUME Safe, HeadsetMove, Noted
    PROVE  GripInv'
<1>1. /\ GripInv /\ UNCHANGED session /\ now \in Nat /\ ClientTypes
      /\ ~regrip' => ~regrip /\ (latest' = latest \/ latest'.operation # "hold")
      /\ ~letGo' => \/ worker = "wait" /\ worker' = "send"
                    \/ ~letGo /\ (latest' = latest \/ latest'.operation # "hold")
  BY Facts DEF Safe, Noted
<1>2. CASE Touch
  BY <1>1, <1>2, Initials DEF Touch, GripInv, ClientTypes, Intents
<1>3. CASE Starts
  BY <1>1, <1>3, Initials DEF Starts, GripInv, InitialPolicy
<1>4. CASE Flags
  BY <1>1, <1>4, Initials DEF Flags, GripInv, ClientTypes, Intents
<1>5. CASE Stopped
  BY <1>1, <1>5, Initials DEF Stopped, GripInv, ClientTypes, Intents
<1>6. CASE Leaves
  BY <1>1, <1>6, Initials DEF Leaves, GripInv, InitialPolicy
<1>7. CASE Hears
  BY <1>1, <1>7 DEF Hears, GripInv, TakesUp, Safe, WireInv
<1>8. CASE Takes
  BY <1>1, <1>8 DEF Takes, GripInv, Safe, RequestInv, ClientTypes, Intents
<1>9. CASE Speaks
  BY <1>1, <1>9, OnTheWay, Initials DEF Speaks, GripInv, Sends
<1>10. CASE Ends
  BY <1>1, <1>10, Initials DEF Ends, GripInv, ClientTypes, Intents
<1>11. CASE Closes
  BY <1>1, <1>11, Initials DEF Closes, GripInv, ClientTypes, Intents
<1>12. CASE Turns
  BY <1>1, <1>12, Initials DEF Turns, GripInv, ClientTypes, Intents
<1> QED
  BY <1>2, <1>3, <1>4, <1>5, <1>6, <1>7, <1>8, <1>9, <1>10,
     <1>11, <1>12 DEF HeadsetMove

\* The hand behind the last lease, through the steps of the host.
LEMMA HostGrip ==
    ASSUME Safe, HostMove, HostInv'
    PROVE  GripInv'
<1>1. GripInv /\ session \in SessionStates
  BY Facts DEF Safe
<1>2. CASE Admits
  BY <1>1, <1>2
     DEF Admits, GripInv, HeadsetStays, NewSession, NoSession, Locked, SessionStates,
         Safe, LinkInv, PolicyInv
<1>3. CASE Serves
  <2>1. /\ request # None /\ request' = None /\ UNCHANGED <<worker, policy, latest, taken, letGo>>
        /\ regrip' = IF session'.armed THEN letGo ELSE regrip
    BY <1>3 DEF Serves, HeadsetStays
  <2>2. /\ request.kind = "hold" \/ request.kind = "resetMap" \/ request.kind = "aim"
        /\ session'.armed => request.kind = "aim"
        /\ request.kind = "resetMap" => session'.needsRelease
        /\ request.kind = "aim" => session'.armed \/ session'.needsRelease
    BY <1>3, NeverRefused DEF Serves, Obeys, Safe, RequestInv, Requests
  <2>3. worker # "send"
    BY <2>1 DEF Safe, RequestInv
  <2>4. CASE session'.armed
    <3>1. request.kind = "aim" => ~policy.pendingRelease
      BY <2>1, <2>3 DEF Safe, RequestInv, PolicyInv, InitialPolicy
    <3> QED
      BY <1>1, <2>1, <2>2, <2>3, <2>4, <3>1 DEF GripInv
  <2>5. CASE ~session'.armed
    BY <1>1, <2>1, <2>2, <2>3, <2>5 DEF GripInv
  <2> QED
    BY <2>4, <2>5
<1>4. CASE Drops
  BY <1>1, <1>4
     DEF Drops, GripInv, HeadsetStays, NewSession, NoSession, Locked, SessionStates, Safe,
         LinkInv, PolicyInv
<1>5. CASE Breaks
  BY <1>1, <1>5
     DEF Breaks, GripInv, HeadsetStays, NewSession, NoSession, Locked, SessionStates,
         Safe, LinkInv, PolicyInv
<1>6. CASE Watches
  BY <1>1, <1>6
     DEF Watches, GripInv, HeadsetStays, NewSession, NoSession, Locked, SessionStates,
         Safe, LinkInv, PolicyInv
<1> QED
  BY <1>2, <1>3, <1>4, <1>5, <1>6 DEF HostMove

-------------------------------------------------------------------------------
(***************************************************************************)
(* The theorems                                                            *)
(***************************************************************************)
\* The invariant holds at the start.
LEMMA SafeInit == ControlInit => Safe
<1> SUFFICES ASSUME ControlInit PROVE Safe
  OBVIOUS
<1>1. SessionInv
  BY SessionInvInit DEF ControlInit
<1>2. now = 1 /\ now \in Nat
  BY DEF ControlInit, SessionInit
<1>3. /\ session.live = FALSE /\ session.armed = FALSE /\ driver.tracked = TRUE
  BY DEF ControlInit, SessionInit, NoSession, NewSession, InitialDriver
<1>4. ClientTypes
  <2>1. InitialAim \in Aims(now) /\ 0 \in 0..now /\ 0 \in 0..MaxStarts
    BY <1>2, ClientAssumption DEF InitialAim, Aims, NoTime
  <2> QED
    BY <1>2, <2>1, Initials DEF ControlInit, ClientInit, ClientTypes, NoTime
<1>5. HostInv /\ LinkInv /\ RequestInv /\ WireInv /\ LeaseBoundedByHand
  BY <1>1, <1>3 DEF ControlInit, ClientInit, HostInv, Timely, LinkInv, RequestInv, WireInv,
                    LeaseBoundedByHand
<1>6. PolicyInv /\ HandInv /\ GripInv
  BY <1>2, <1>3, Initials DEF ControlInit, ClientInit, PolicyInv, HandInv, GripInv, NoState,
                              InitialPolicy, InitialAim
<1> QED
  BY <1>4, <1>5, <1>6 DEF Safe

\* Every step keeps it.
LEMMA SafeStep == Safe /\ [ControlNext]_controlVars => Safe'
<1> SUFFICES ASSUME Safe, [ControlNext]_controlVars PROVE Safe'
  OBVIOUS
<1>1. CASE ClientStep
  <2>1. HeadsetMove /\ Noted
    BY <1>1, HeadsetMoves
  <2>2. HostInv'
    <3>1. UNCHANGED sessionVars
      BY <1>1 DEF ClientStep, Headset, sessionVars
    <3>2. SessionInv'
      BY <3>1, Hosted, SessionInvStep
    <3> QED
      BY <3>1, <3>2, Hosted DEF HostInv, Timely, sessionVars
  <2>3. LeaseBoundedByHand'
    BY <2>1 DEF Noted, Safe, LeaseBoundedByHand
  <2> QED
    BY <2>1, <2>2, <2>3, HeadsetTypes, HeadsetLink, HeadsetPolicy, HeadsetRequest,
       HeadsetWire,
       HeadsetHand, HeadsetGrip DEF Safe
<1>2. CASE HostStep
  <2>1. HostMove /\ HostInv'
    BY <1>2, HostMoves, HostKeeps
  <2> QED
    BY <2>1, HostTypes, HostLink, HostPolicy, HostRequest, HostWire, HostLease, HostHand,
       HostGrip DEF Safe
<1>3. CASE UNCHANGED controlVars
  <2>1. UNCHANGED sessionVars /\ HeadsetStays
        /\ UNCHANGED <<link, request, reply, granted, letGo, regrip, pulled>>
    BY <1>3 DEF controlVars, headsetVars, historyVars, HeadsetStays
  <2>2. SessionInv'
    BY <2>1, Hosted, SessionInvStep
  <2>3. HostInv'
    BY <2>1, <2>2, Hosted DEF HostInv, Timely, sessionVars
  <2>4. Breaks \/ Watches
    <3>1. now' = now /\ driver' = driver /\ session' = session
      BY <2>1 DEF sessionVars
    <3>2. now' \in Nat /\ now <= now'
      BY <3>1, Hosted
    <3>3. driver'.tracked = TRUE
      BY <3>1, Hosted
    <3> QED
      BY <2>1, <3>1, <3>2, <3>3 DEF Watches
  <2> QED
    BY <2>3, <2>4, HostTypes, HostLink, HostPolicy, HostRequest, HostWire, HostLease,
       HostHand,
       HostGrip DEF Safe, HostMove
<1> QED
  BY <1>1, <1>2, <1>3 DEF ControlNext

\* The invariant of the exchange between the headset and the host.
LEMMA ControlInvariant == ControlSpec => []Safe
  BY SafeInit, SafeStep, PTL DEF ControlSpec

\* A lease ends at most IntentAge + ChallengeAge + the lease after the frame whose intent it
\* came from, for every value of those limits and however long a message takes.
THEOREM LeaseEndsWithTheHand == ControlSpec => []LeaseBoundedByHand
<1>1. Safe => LeaseBoundedByHand
  BY DEF Safe
<1> QED
  BY <1>1, ControlInvariant, PTL

\* No session drives the axis unless the trigger was seen released since it began.
THEOREM HandBeforeMotion == ControlSpec => []EverySessionNeedsTheHand
<1>1. Safe => EverySessionNeedsTheHand
  BY DEF Safe, HandInv, EverySessionNeedsTheHand
<1> QED
  BY <1>1, ControlInvariant, PTL

\* A lease that has ended is followed by another only after the hand behind it let go.
THEOREM RearmingNeedsARelease == ControlSpec => RearmNeedsLettingGo
<1>1. Safe /\ [ControlNext]_controlVars
        => [~session.armed /\ session'.armed => regrip]_controlVars
  <2> SUFFICES ASSUME Safe, [ControlNext]_controlVars, ~session.armed, session'.armed
               PROVE  regrip
    OBVIOUS
  <2>1. ControlNext
    BY DEF controlVars, sessionVars
  <2>2. ~ClientStep
    BY DEF ClientStep, Headset, sessionVars
  <2>3. HostMove
    BY <2>1, <2>2, HostMoves DEF ControlNext
  <2>4. Serves
    <3>1. ~Admits
      BY DEF Admits, NewSession
    <3>2. ~Drops
      BY DEF Drops, NoSession, NewSession
    <3>3. ~Breaks /\ ~Watches
      BY Facts DEF Breaks, Watches, Locked, SessionStates
    <3> QED
      BY <2>3, <3>1, <3>2, <3>3 DEF HostMove
  <2>5. request # None /\ request.kind = "aim" /\ ~session.needsRelease
    BY <2>4, NeverRefused DEF Serves, Obeys
  <2> QED
    BY <2>5 DEF Safe, GripInv
<1> QED
  BY <1>1, ControlInvariant, PTL DEF ControlSpec, RearmNeedsLettingGo

\* The flag is up through all of Stop, and the worker waits at most one send period; once
\* the flag is up, at most one counted from it.
WaitInv ==
    /\ waiting \in {"no", "tested", "blocked"} /\ (waiting # "no" => worker = "wait")
    /\ xr # "frame" => stop
    /\ nextSend <= now + SendPeriod
    /\ worker = "wait" /\ stop => nextSend <= flagged + SendPeriod

\* The steps of the XR thread.
LEMMA XrWaits ==
    ASSUME Safe, WaitInv, XrStep, now' = now,
           flagged' = IF ~stop' THEN NoTime ELSE IF stop THEN flagged ELSE now
    PROVE  WaitInv'
<1>0. now \in Nat /\ nextSend \in Nat /\ SendPeriod \in Nat
  BY Facts, ClientAssumption DEF Safe, ClientTypes
<1>1. CASE UNCHANGED <<xr, stop, workerVars>>
  BY <1>1 DEF WaitInv, workerVars
<1>2. CASE Start
  <2>1. waiting = "no"
    BY <1>2 DEF Start, WaitInv
  <2> QED
    BY <1>2, <2>1 DEF Start, WaitInv
<1>3. CASE StopBegin
  BY <1>0, <1>3 DEF StopBegin, WaitInv, workerVars
<1>4. CASE StopNotify
  <2>1. waiting' \in {waiting, "no"} /\ xr = "notify"
    BY <1>4 DEF StopNotify
  <2> QED
    BY <1>4, <2>1 DEF StopNotify, WaitInv
<1>5. CASE StopClose
  BY <1>5 DEF StopClose, WaitInv, workerVars
<1>6. CASE StopEnd
  <2>1. waiting = "no"
    BY <1>6 DEF StopEnd, WaitInv
  <2> QED
    BY <1>6, <2>1 DEF StopEnd, WaitInv
<1>7. Start \/ StopBegin \/ StopNotify \/ StopClose \/ StopEnd
      \/ UNCHANGED <<xr, stop, workerVars>>
  BY DEF XrStep, Frame, MenuMode, RequestMapReset
<1> QED
  BY <1>1, <1>2, <1>3, <1>4, <1>5, <1>6, <1>7

\* Those of the worker.
LEMMA WorkerWaits ==
    ASSUME Safe, WaitInv, WorkerStep, now' = now,
           flagged' = IF ~stop' THEN NoTime ELSE IF stop THEN flagged ELSE now
    PROVE  WaitInv'
<1>0. now \in Nat /\ nextSend \in Nat /\ SendPeriod \in Nat
  BY Facts, ClientAssumption DEF Safe, ClientTypes
<1>1. UNCHANGED <<xr, stop>> /\ (stop => flagged' = flagged)
  <2>1. UNCHANGED <<xr, stop>>
    BY DEF WorkerStep, Opened, OpenFails, TestFlag, Block, WakeSpuriously, Take, Cancelled,
           Send, Receive, ExchangeFails, Exit, xrVars
  <2> QED
    BY <2>1
<1>2. ASSUME NEW error, Leave(error) PROVE WaitInv'
  <2>1. worker' = "exit" /\ waiting' = "no" /\ nextSend' = 0
    BY <1>2 DEF Leave, NoTime
  <2> QED
    BY <1>0, <1>1, <2>1 DEF WaitInv
<1>3. CASE Opened \/ Receive
  <2>1. CASE \E error \in {"protocol"} : Leave(error)
    BY <1>2, <2>1
  <2>2. CASE ~stop /\ worker' = "wait" /\ nextSend' \in {now, nextSend} /\ waiting' = waiting
             /\ worker # "wait"
    BY <1>0, <1>1, <2>2 DEF WaitInv
  <2> QED
    BY <1>3, <2>1, <2>2 DEF Opened, Receive
<1>4. CASE OpenFails \/ Cancelled \/ ExchangeFails
  <2>1. \E error \in {"none", "transport"} : Leave(error)
    BY <1>4 DEF OpenFails, Cancelled, ExchangeFails
  <2> QED
    BY <1>2, <2>1
<1>5. CASE TestFlag \/ Block \/ WakeSpuriously
  <2>1. worker = "wait" /\ UNCHANGED <<worker, nextSend>> /\ waiting' \in {"no", "tested", "blocked"}
    BY <1>5 DEF TestFlag, Block, WakeSpuriously, WaitInv
  <2> QED
    BY <1>0, <1>1, <2>1 DEF WaitInv
<1>6. CASE Take
  BY <1>0, <1>1, <1>6 DEF Take, WaitInv
<1>7. CASE Send
  <2>1. CASE Leave("protocol")
    BY <1>2, <2>1
  <2>2. CASE worker = "send" /\ worker' = "exchange" /\ nextSend' = now + SendPeriod
             /\ waiting' = waiting
    BY <1>0, <1>1, <2>2 DEF WaitInv
  <2> QED
    BY <1>7, <2>1, <2>2 DEF Send
<1>8. CASE Exit
  BY <1>0, <1>1, <1>8 DEF Exit, WaitInv
<1> QED
  BY <1>3, <1>4, <1>5, <1>6, <1>7, <1>8 DEF WorkerStep

\* A deadline within d of now is within d of any later moment.
LEMMA StillWithin == \A a, b, c, d \in Nat : a <= b /\ c <= a + d => c <= b + d
  OBVIOUS

\* And those of the host, where only the clock moves.
LEMMA AlwaysWaits == ControlSpec => []WaitInv
<1>1. ControlInit => WaitInv
  BY ClientAssumption DEF ControlInit, SessionInit, ClientInit, WaitInv, NoTime
<1>2. Safe /\ WaitInv /\ [ControlNext]_controlVars => WaitInv'
  <2>s. SUFFICES ASSUME Safe, WaitInv, [ControlNext]_controlVars PROVE WaitInv'
    OBVIOUS
  <2>0. now \in Nat /\ nextSend \in Nat /\ SendPeriod \in Nat
    BY <2>s, Facts, ClientAssumption DEF Safe, ClientTypes
  <2>1. CASE ClientStep
    <3>1. now' = now /\ flagged' = IF ~stop' THEN NoTime ELSE IF stop THEN flagged ELSE now
      BY <2>1 DEF ClientStep, Headset
    <3>2. XrStep \/ WorkerStep
      BY <2>1 DEF ClientStep, Headset, XrStep
    <3> QED
      BY <2>s, <3>1, <3>2, XrWaits, WorkerWaits
  <2>2. ASSUME UNCHANGED <<headsetVars, flagged>>, now' \in Nat, now <= now' PROVE WaitInv'
    <3>1. /\ xr' = xr /\ stop' = stop /\ worker' = worker /\ waiting' = waiting
          /\ nextSend' = nextSend /\ flagged' = flagged
      BY <2>2 DEF headsetVars
    <3>2. now' \in Nat /\ now <= now'
      BY <2>2, Zenon
    <3>3. nextSend <= now + SendPeriod => nextSend <= now' + SendPeriod
      BY <2>0, <3>2, StillWithin, Zenon
    <3> QED
      BY <2>s, <3>1, <3>3, Zenon DEF WaitInv
  <2>3. CASE HostStep
    <3>1. UNCHANGED <<headsetVars, flagged>>
      BY <2>3 DEF HostStep, Admit, Refuse, Serve, Drop, LoseLink, Watchdog, Passing,
                  historyVars
    <3>2. now' \in Nat /\ now <= now'
      <4>1. HostMove
        BY <2>s, <2>3, HostMoves
      <4> QED
        BY <2>0, <4>1 DEF HostMove, Admits, Serves, Drops, Breaks, Watches
    <3> QED
      BY <2>2, <3>1, <3>2
  <2>4. CASE UNCHANGED controlVars
    BY <2>0, <2>2, <2>4 DEF controlVars, historyVars, sessionVars
  <2> QED
    BY <2>s, <2>1, <2>3, <2>4 DEF ControlNext
<1> QED
  BY <1>1, <1>2, ControlInvariant, PTL DEF ControlSpec

\* The guards of StopEnd, OpenFails, Exit, ExchangeFails, Cancelled and Block, the steps
\* that wait for nothing once Stop has closed the connection; and a worker blocked past
\* the notify, which finds the flag at a deadline one send period after it at most.
GoesOn ==
    \/ worker \in {"none", "done"}
    \/ worker \in {"open", "exit"}
    \/ worker = "exchange" /\ link # "open"
    \/ worker \in {"wait", "send"} /\ stop /\ waiting = "no"
    \/ waiting = "tested"
    \/ waiting = "blocked" /\ stop /\ nextSend <= flagged + SendPeriod

\* Wherever the worker is when Stop joins it, a step of its own is open that waits for
\* nobody, or it is blocked at most until one send period after the flag.
THEOREM StopGoesOn == ControlSpec => [](xr = "join" => GoesOn)
<1>1. Safe /\ WaitInv => (xr = "join" => GoesOn)
  BY DEF Safe, LinkInv, ClientTypes, WaitInv, GoesOn
<1> QED
  BY <1>1, ControlInvariant, AlwaysWaits, PTL

\* The headset's two threads and the host's session agree: the two protocol machines never turn
\* down what the other legitimately sends, a client that waits for a release is idle, and
\* neither the network nor, past one send period, the condition variable holds the worker
\* that Stop joins.
THEOREM MachinesAgree == ControlSpec => []ControlInv
<1>1. Safe /\ WaitInv => ClientTypeOK
  BY DEF Safe, ClientTypes, ClientTypeOK, Aims, States, Policies, WaitInv
<1>2. Safe => LockedClientIsIdle
  BY DEF Safe, WireInv, LockedClientIsIdle
<1>3. Safe => NoFalseRejection
  <2> SUFFICES ASSUME Safe PROVE NoFalseRejection
    OBVIOUS
  <2>1. state.error # "protocol"
    BY DEF Safe, PolicyInv
  <2>2. request # None => ~HandleResult(ToCommand(request)).raised
    BY NeverRefused DEF HandlesWell
  <2> QED
    BY <2>1, <2>2 DEF NoFalseRejection
<1>4. Safe /\ WaitInv => StopNeverWaits
  BY DEF Safe, LinkInv, ClientTypes, WaitInv, StopNeverWaits
<1>5. Safe /\ WaitInv => ControlInv
  BY <1>1, <1>2, <1>3, <1>4 DEF ControlInv
<1> QED
  BY <1>5, ControlInvariant, AlwaysWaits, PTL
==============================================================================
