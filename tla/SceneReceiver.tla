---------------------------- MODULE SceneReceiver ----------------------------
(***************************************************************************)
(* The headset's end of the scene stream: RemoteSceneReceiver (the XR      *)
(* thread that starts and stops it and the worker that reads) and the      *)
(* RemoteSceneMailbox between the worker and the frames that are drawn.    *)
(* A connection is a peer of the host's publisher.                         *)
(***************************************************************************)
EXTENDS SequenceHistory, Sequences

CONSTANTS Connections, NoFrame, NoConnection

VARIABLES
    mailbox,     \* what Read returns, and the mailbox's sequence history
    stop, running, connection, status,
    workers,     \* the worker thread of each connection: its pc, token and packet
    xr           \* the XR thread: idle, or joining the worker to stop it or to start another

receiverVars == <<mailbox, stop, running, connection, status, workers, xr>>

NoWorker == [pc |-> "none", generation |-> 0, packet |-> NoFrame]
Statuses == {"disconnected", "connecting", "receiving", "failed", "rejected"}

ReceiverInit ==
    /\ mailbox = [frame |-> NoFrame, from |-> NoConnection, generation |-> 0, revision |-> 0,
                  sequences |-> EmptyHistory]
    /\ stop = TRUE /\ running = FALSE /\ connection = NoConnection
    /\ status = "disconnected" /\ xr = "idle"
    /\ workers = [c \in Connections |-> NoWorker]

(***************************************************************************)
(* RemoteSceneMailbox                                                      *)
(***************************************************************************)
\* Mutant: Reset keeps the frame that is shown.
RetiredButShown(m) == [m EXCEPT !.revision = 0, !.generation = @ + 1, !.sequences = EmptyHistory]

\* Reset retires the frame, its history and every producer with an older token.
Retired(m) == [m EXCEPT !.frame = NoFrame, !.from = NoConnection, !.revision = 0,
                        !.generation = @ + 1, !.sequences = EmptyHistory]

Publishable(m, packet, generation) ==
    generation = m.generation /\ Accepts(m.sequences, packet)

\* The revision counts the changes of identity that were ever shown.
Published(m, packet, from) ==
    [m EXCEPT !.frame = packet, !.from = from, !.sequences = Record(@, packet),
              !.revision = IF m.frame = NoFrame THEN @ + 1
                           ELSE IF m.frame.identity # packet.identity THEN @ + 1 ELSE @]

(***************************************************************************)
(* The XR thread                                                           *)
(***************************************************************************)
\* Stop sets the flag and closes the connection, which ends the worker's read;
\* then it joins. A start first stops what was there.
StopReceiver(next) ==
    /\ xr = "idle" /\ xr' = next
    /\ stop' = TRUE
    /\ UNCHANGED <<mailbox, running, connection, status, workers>>

Joined == \A c \in Connections : c = connection => workers[c].pc = "done"

\* The join returned: the connection is dropped.
StopReturns ==
    /\ xr = "stopping" /\ Joined
    /\ xr' = "idle" /\ connection' = NoConnection /\ running' = FALSE
    /\ status' = "disconnected"
    /\ UNCHANGED <<mailbox, stop, workers>>

\* StartImpl after its Stop: a new connection object, a new mailbox token, a new
\* worker. The new connection is c.
StartWorker(c) ==
    /\ xr = "starting" /\ Joined /\ workers[c].pc = "none"
    /\ xr' = "idle" /\ connection' = c /\ running' = TRUE /\ stop' = FALSE
    /\ mailbox' = Retired(mailbox)
    /\ workers' = [workers EXCEPT ![c] = [pc |-> "connect", packet |-> NoFrame,
                                          generation |-> mailbox'.generation]]
    /\ status' = "connecting"

(***************************************************************************)
(* The worker                                                              *)
(***************************************************************************)
At(c, pc) == workers[c].pc = pc

\* Stop closed the connection's Java object, or its worker did when it exited.
ClosedByUs(c) == (stop /\ c = connection) \/ At(c, "done")

Goes(c, pc) == workers' = [workers EXCEPT ![c].pc = pc]

\* connect returned; with stop_ already set it is skipped.
Connected(c) ==
    /\ At(c, "connect") /\ Goes(c, "read")
    /\ UNCHANGED <<mailbox, stop, running, connection, status, xr>>

\* A whole frame was read. The stop flag is looked at before and after the read;
\* a worker that finds it set leaves by WorkerFails.
ReadFrame(c, packet) ==
    /\ At(c, "read") /\ ~ClosedByUs(c) /\ ~stop
    /\ workers' = [workers EXCEPT ![c].pc = "publish", ![c].packet = packet]
    /\ UNCHANGED <<mailbox, stop, running, connection, status, xr>>

\* The end of Run: the connection is closed and running_ cleared.
Exits(c, reason) ==
    /\ workers' = [workers EXCEPT ![c] = [NoWorker EXCEPT !.pc = "done"]]
    /\ running' = FALSE
    /\ status' = IF stop THEN status ELSE reason

\* Publish: token and sequence are judged under the mailbox's mutex.
PublishFrame(c) ==
    /\ At(c, "publish")
    /\ IF Publishable(mailbox, workers[c].packet, workers[c].generation)
       THEN /\ mailbox' = Published(mailbox, workers[c].packet, c)
            /\ status' = "receiving"
            /\ workers' = [workers EXCEPT ![c].pc = "read", ![c].packet = NoFrame]
            /\ UNCHANGED running
       ELSE Exits(c, "rejected") /\ UNCHANGED mailbox
    /\ UNCHANGED <<stop, connection, xr>>

\* The loop sees the flag, the source ends, or connecting or reading fails.
WorkerFails(c) ==
    /\ At(c, "connect") \/ At(c, "read")
    /\ Exits(c, "failed")
    /\ UNCHANGED <<mailbox, stop, connection, xr>>
==============================================================================
