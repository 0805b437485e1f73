---------------------------- MODULE GimbalServer ----------------------------
(***************************************************************************)
(* SimulatedGimbalServer (tools/remote_scene/gimbal_server.py): the accept, *)
(* watchdog and client threads, and the thread that calls close(), around   *)
(* one GimbalSession.  A step is what a thread does while it holds the gate,*)
(* or one blocking call made without it.                                    *)
(***************************************************************************)
EXTENDS GimbalSession

CONSTANTS
  Conns,    \* the peers' connections; each is served by a thread of its own
  NoConn

ASSUME ConnsAssumption == NoConn \notin Conns

VARIABLES
  pc,         \* where the thread of each connection is in _serve
  link,       \* whether each connection's transport is still open
  client,     \* self.client: a connection or NoConn
  wrapped,    \* whether self.client is the TLS stream rather than the raw socket
  stopping,   \* the Event
  acceptor,   \* _accept: "run" or "done"
  watchdog,   \* _tick: "wait", "sample", "failed" (sample raised), "gate", "done"
  closer,     \* close(): "idle", "gate", "shutdown", "join", "done", "raised"
  captured    \* the client close() read under the gate, with its wrapped flag

threadVars == <<pc, link, client, wrapped, stopping, acceptor, watchdog, closer, captured>>
serverVars == <<sessionVars, threadVars>>

Points == {"none", "start", "wrap", "handshake", "session", "reply", "loop",
           "handle", "cleanup", "release", "crashed"}

\* A thread that may still touch the session or the client slot.
Serving(c) == pc[c] \notin {"none", "crashed"}

ServerInit ==
  /\ SessionInit
  /\ pc = [c \in Conns |-> "none"]
  /\ link = [c \in Conns |-> "shut"]
  /\ client = NoConn
  /\ wrapped = FALSE
  /\ stopping = FALSE
  /\ acceptor = "run"
  /\ watchdog = "wait"
  /\ closer = "idle"
  /\ captured = [conn |-> NoConn, wrapped |-> FALSE]

Goto(c, from, to) == pc[c] = from /\ pc' = [pc EXCEPT ![c] = to]

-----------------------------------------------------------------------------
\* Mutant: a second connection takes the slot.
AcceptAnyway(c) ==
  /\ acceptor = "run"
  /\ ~stopping
  /\ sessions < MaxSessions
  /\ Goto(c, "none", "start")
  /\ link' = [link EXCEPT ![c] = "open"]
  /\ client' = c
  /\ wrapped' = FALSE
  /\ UNCHANGED <<sessionVars, stopping, acceptor, watchdog, closer, captured>>

\* The accept thread.  A connection that finds the slot taken is closed at once.
Accept(c) ==
  /\ acceptor = "run"
  /\ client = NoConn
  /\ ~stopping
  /\ sessions < MaxSessions
  /\ Goto(c, "none", "start")
  /\ link' = [link EXCEPT ![c] = "open"]
  /\ client' = c
  /\ wrapped' = FALSE
  /\ UNCHANGED <<sessionVars, stopping, acceptor, watchdog, closer, captured>>

AcceptorExit ==
  /\ acceptor = "run"
  /\ stopping
  /\ acceptor' = "done"
  /\ UNCHANGED <<sessionVars, pc, link, client, wrapped, stopping, watchdog, closer, captured>>

-----------------------------------------------------------------------------
\* The thread of connection c, _serve.

\* wrap_socket takes the descriptor away from raw; self.client is still raw.
Wrap(c) ==
  /\ Goto(c, "start", IF link[c] = "open" THEN "wrap" ELSE "cleanup")
  /\ UNCHANGED <<sessionVars, link, client, wrapped, stopping, acceptor, watchdog, closer, captured>>

PublishStream(c) ==
  /\ Goto(c, "wrap", "handshake")
  /\ client' = c
  /\ wrapped' = TRUE
  /\ UNCHANGED <<sessionVars, link, stopping, acceptor, watchdog, closer, captured>>

\* Handshake and token succeed, or fail, or run into the two-second timeout.
Authenticate(c) ==
  /\ \/ link[c] = "open" /\ Goto(c, "handshake", "session")
     \/ Goto(c, "handshake", "cleanup")
  /\ UNCHANGED <<sessionVars, link, client, wrapped, stopping, acceptor, watchdog, closer, captured>>

BeginSession(c) ==
  /\ Goto(c, "session", "reply")
  /\ driver' = Hold(driver, now)
  /\ session' = NewSession(sessions + 1, challenges + 1, now)
  /\ sessions' = sessions + 1
  /\ challenges' = challenges + 1
  /\ UNCHANGED <<now, clearRequested, link, client, wrapped, stopping, acceptor, watchdog, closer, captured>>

\* sendall may fail, and may succeed although the peer has hung up.
SendReply(c) ==
  /\ Goto(c, "reply", "loop") \/ Goto(c, "reply", "cleanup")
  /\ UNCHANGED <<sessionVars, link, client, wrapped, stopping, acceptor, watchdog, closer, captured>>

\* Mutant: the loop does not test stopping.
ReceiveAfterStop(c) ==
  /\ Goto(c, "loop", "handle") \/ Goto(c, "loop", "cleanup")
  /\ UNCHANGED <<sessionVars, link, client, wrapped, stopping, acceptor, watchdog, closer, captured>>

\* The loop tests stopping before every recv, and only there.  A frame may still
\* arrive from a peer that has hung up; one that stays partial ends the loop.
Receive(c) ==
  /\ ~stopping
  /\ Goto(c, "loop", "handle") \/ Goto(c, "loop", "cleanup")
  /\ UNCHANGED <<sessionVars, link, client, wrapped, stopping, acceptor, watchdog, closer, captured>>

LeaveLoop(c) ==
  /\ stopping \/ link[c] = "shut"
  /\ Goto(c, "loop", "cleanup")
  /\ UNCHANGED <<sessionVars, link, client, wrapped, stopping, acceptor, watchdog, closer, captured>>

\* The frame that recv returned is any of Inputs.
Dispatch(c) ==
  /\ pc[c] = "handle"
  /\ \E input \in Inputs :
       /\ HandleCommand(input)
       /\ Goto(c, "handle", IF HandleResult(input).raised THEN "cleanup" ELSE "reply")
  /\ UNCHANGED <<link, client, wrapped, stopping, acceptor, watchdog, closer, captured>>

\* finally: a close that raises ends the thread with session and client in place.
Cleanup(c) ==
  /\ \/ /\ session.live
        /\ pc[c] = "cleanup"
        /\ EndSession
        /\ Goto(c, "cleanup", IF session'.live THEN "crashed" ELSE "release")
     \/ /\ ~session.live
        /\ Goto(c, "cleanup", "release")
        /\ UNCHANGED sessionVars
  /\ UNCHANGED <<link, client, wrapped, stopping, acceptor, watchdog, closer, captured>>

\* Mutant: compares self.client with the stream only.
ReleaseSlotStream(c) ==
  /\ Goto(c, "release", "none")
  /\ link' = [link EXCEPT ![c] = "shut"]
  /\ client' = IF client = c /\ wrapped THEN NoConn ELSE client
  /\ UNCHANGED <<sessionVars, wrapped, stopping, acceptor, watchdog, closer, captured>>

ReleaseSlot(c) ==
  /\ Goto(c, "release", "none")
  /\ link' = [link EXCEPT ![c] = "shut"]
  /\ client' = IF client = c THEN NoConn ELSE client
  /\ UNCHANGED <<sessionVars, wrapped, stopping, acceptor, watchdog, closer, captured>>

ServeStep(c) ==
  \/ Wrap(c) \/ PublishStream(c) \/ Authenticate(c) \/ BeginSession(c)
  \/ SendReply(c) \/ LeaveLoop(c) \/ Dispatch(c) \/ Cleanup(c) \/ ReleaseSlot(c)

\* The peer hangs up, or the network drops the connection.
HangUp(c) ==
  /\ Serving(c)
  /\ link[c] = "open"
  /\ link' = [link EXCEPT ![c] = "shut"]
  /\ UNCHANGED <<sessionVars, pc, client, wrapped, stopping, acceptor, watchdog, closer, captured>>

-----------------------------------------------------------------------------
\* Shutting the object self.client down reaches the transport unless that
\* object is the raw socket whose descriptor the TLS stream has taken over.
Shutdown(c, isStream) ==
  link' = IF c # NoConn /\ (isStream \/ pc[c] = "start")
          THEN [link EXCEPT ![c] = "shut"] ELSE link

\* The watchdog thread, _tick.
WatchdogWake ==
  /\ watchdog = "wait"
  /\ ~stopping
  /\ watchdog' = "sample"
  /\ UNCHANGED <<sessionVars, pc, link, client, wrapped, stopping, acceptor, closer, captured>>

WatchdogSample ==
  /\ watchdog = "sample"
  /\ Sample
  /\ watchdog' = IF SampleResult.raised THEN "failed" ELSE "wait"
  /\ UNCHANGED <<pc, link, client, wrapped, stopping, acceptor, closer, captured>>

WatchdogStop ==
  /\ watchdog = "failed"
  /\ watchdog' = "gate"
  /\ stopping' = TRUE
  /\ UNCHANGED <<sessionVars, pc, link, client, wrapped, acceptor, closer, captured>>

WatchdogFail ==
  /\ watchdog = "gate"
  /\ watchdog' = "done"
  /\ driver' = Hold(driver, now)
  /\ Shutdown(client, wrapped)
  /\ UNCHANGED <<now, session, challenges, sessions, clearRequested,
                 pc, client, wrapped, stopping, acceptor, closer, captured>>

WatchdogExit ==
  /\ watchdog = "wait"
  /\ stopping
  /\ watchdog' = "done"
  /\ UNCHANGED <<sessionVars, pc, link, client, wrapped, stopping, acceptor, closer, captured>>

\* The camera source samples the axis too (gimbal_demo.py sample), on the
\* thread that later calls close(); a raise there only ends its loop.
SourceSample ==
  /\ closer = "idle"
  /\ Sample
  /\ UNCHANGED threadVars

-----------------------------------------------------------------------------
\* close(), on the thread that owns the server.
CloseBegin ==
  /\ closer = "idle"
  /\ closer' = "gate"
  /\ stopping' = TRUE
  /\ UNCHANGED <<sessionVars, pc, link, client, wrapped, acceptor, watchdog, captured>>

CloseGate ==
  /\ closer = "gate"
  /\ \/ session.live /\ CloseSession
     \/ /\ ~session.live
        /\ driver' = Hold(driver, now)
        /\ UNCHANGED <<now, session, challenges, sessions, clearRequested>>
  /\ closer' = IF session.live /\ Close(driver, session, now).raised
               THEN "raised" ELSE "shutdown"
  /\ captured' = [conn |-> client, wrapped |-> wrapped]
  /\ UNCHANGED <<pc, link, client, wrapped, stopping, acceptor, watchdog>>

CloseShutdown ==
  /\ closer = "shutdown"
  /\ closer' = "join"
  /\ Shutdown(captured.conn, captured.wrapped)
  /\ UNCHANGED <<sessionVars, pc, client, wrapped, stopping, acceptor, watchdog, captured>>

CloseJoin ==
  /\ closer = "join"
  /\ acceptor = "done" /\ watchdog = "done"
  /\ \A c \in Conns : ~Serving(c)
  /\ closer' = "done"
  /\ UNCHANGED <<sessionVars, pc, link, client, wrapped, stopping, acceptor, watchdog, captured>>

\* join(3.) can only run out on a thread that close() could not reach: its
\* transport is open and it waits for the peer's handshake and token.
CloseDeadline ==
  /\ closer = "join"
  /\ \E c \in Conns : pc[c] = "handshake" /\ link[c] = "open"
  /\ closer' = "raised"
  /\ UNCHANGED <<sessionVars, pc, link, client, wrapped, stopping, acceptor, watchdog, captured>>

-----------------------------------------------------------------------------
Environment ==
  /\ \/ Elapse
     \/ \E tracked \in BOOLEAN : TrackingChange(tracked)
     \/ ServiceClear
  /\ UNCHANGED threadVars

ServerNext ==
  \/ \E c \in Conns : Accept(c) \/ Receive(c) \/ ServeStep(c) \/ HangUp(c)
  \/ AcceptorExit
  \/ WatchdogWake \/ WatchdogSample \/ WatchdogStop \/ WatchdogFail \/ WatchdogExit
  \/ SourceSample
  \/ CloseBegin \/ CloseGate \/ CloseShutdown \/ CloseJoin \/ CloseDeadline
  \/ Environment

ServerSpec == ServerInit /\ [][ServerNext]_serverVars

\* A thread that does not wait for its peer's next command moves on: every
\* blocking call has a timeout, and the gate is held only for computation.
Busy(c) ==
  \/ pc[c] \notin {"none", "crashed", "loop"}
  \/ pc[c] = "loop" /\ (stopping \/ link[c] = "shut")

MovesOn(c) == \E p \in Points \ {pc[c]} : pc' = [pc EXCEPT ![c] = p]

WatchdogMovesOn ==
  \E w \in {"wait", "sample", "failed", "gate", "done"} \ {watchdog} : watchdog' = w

CloserMovesOn ==
  \E p \in {"shutdown", "join", "raised"} \ {closer} : closer' = p

\* Whether a peer connects, sends or hangs up, and whether close() is ever
\* called, is not promised.
ServerFairness ==
  /\ \A c \in Conns : WF_pc(Busy(c) /\ MovesOn(c))
  /\ WF_serverVars(AcceptorExit)
  /\ WF_watchdog(watchdog # "done" /\ WatchdogMovesOn)
  /\ WF_closer(closer \in {"gate", "shutdown"} /\ CloserMovesOn)
  /\ WF_serverVars(CloseJoin \/ CloseDeadline)

FairServerSpec == ServerSpec /\ ServerFairness
-----------------------------------------------------------------------------
ServerTypeOK ==
  /\ TypeOK
  /\ pc \in [Conns -> Points]
  /\ link \in [Conns -> {"open", "shut"}]
  /\ client \in Conns \cup {NoConn}
  /\ wrapped \in BOOLEAN /\ stopping \in BOOLEAN
  /\ acceptor \in {"run", "done"}
  /\ watchdog \in {"wait", "sample", "failed", "gate", "done"}
  /\ closer \in {"idle", "gate", "shutdown", "join", "done", "raised"}
  /\ captured \in [conn: Conns \cup {NoConn}, wrapped: BOOLEAN]

(***************************************************************************)
(* The session belongs to the connection in the client slot: its thread has *)
(* opened it and has not yet cleaned up, and no other thread is anywhere    *)
(* where it could close or command that session (the slot is freed only     *)
(* after the session is gone, in _serve's finally).                         *)
(***************************************************************************)
SessionOwnedBySlot ==
  /\ session.live =>
       /\ client # NoConn
       /\ pc[client] \in {"reply", "loop", "handle", "cleanup", "crashed"}
  /\ \A c \in Conns : Serving(c) => client = c

(***************************************************************************)
(* Once close() has left its locked section the axis never moves again:     *)
(* a command that was already received, a session that opens late and the   *)
(* last watchdog sample find it held (close, _serve's loop test).           *)
(***************************************************************************)
NoMotionAfterClose ==
  [][(closer \in {"shutdown", "join", "done"}) => (driver'.pan = driver.pan)]_serverVars

(***************************************************************************)
(* A close() that returned has left nothing behind: no session, no client,  *)
(* no standing command, and every thread of the server has ended.           *)
(***************************************************************************)
ClosedIsEmpty ==
  closer = "done" =>
    /\ ~session.live /\ client = NoConn /\ driver.command = NoCommand
    /\ \A c \in Conns : link[c] = "shut" /\ ~Serving(c)

(***************************************************************************)
(* After the watchdog has failed and held the axis, it stays held: the      *)
(* session whose tick failed refuses whatever a client still sends, and its *)
(* thread, which crashes in close, keeps the slot from a next one.          *)
(***************************************************************************)
NoCommandAfterWatchdogFailure ==
  watchdog = "done" /\ closer = "idle" => driver.command = NoCommand

\* What the server's four threads keep together, in every interleaving.
ServerInv ==
  /\ ServerTypeOK
  /\ SessionOwnedBySlot
  /\ ClosedIsEmpty
  /\ NoCommandAfterWatchdogFailure
  /\ CommandOnlyWhileArmed

\* An expired lease is ended although its client sends nothing more.
LeaseEnds ==
  (session.armed /\ now >= session.expiry) ~> ~session.armed

\* The slot of a connection whose transport is gone becomes free.
SlotFreed ==
  \A c \in Conns : (client = c /\ link[c] = "shut") ~> (client # c)

\* close() comes to its end: the threads leave, or the join deadline raises.
CloseEnds == (closer = "gate") ~> (closer \in {"done", "raised"})

\* A connection that is gone frees its slot, and close() ends.
ServerSettles == SlotFreed /\ CloseEnds
=============================================================================
