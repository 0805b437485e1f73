--------------------------- MODULE LatestPublisher ---------------------------
(***************************************************************************)
(* publisher.py: one thread accepts connections, one thread serves each    *)
(* client (two at most), and every client is sent the latest packet it has *)
(* not seen. There is no queue: publishing replaces the packet.            *)
(*                                                                         *)
(* A peer is one connection attempt of a client. serving[p] says where its *)
(* thread is; "raw" and "tls" name the two socket objects the thread holds *)
(* one after the other, which is what close() can reach through clients.   *)
(***************************************************************************)
EXTENDS SequenceHistory, Sequences

CONSTANTS Peers,       \* connections that may be made
          NoPacket     \* nothing published yet

VARIABLES
    stopping, acceptor, clients, threads, history, version, wire,
    serving,           \* [Peers -> ServingStates]
    seen, held,        \* the version and the packet a thread copied last
    socket,            \* [Peers -> packets sent and not yet read, in order]
    closer, found,     \* where close() is, and what it copied under the condition
    cut                \* socket objects close() has shut down

publisherVars == <<stopping, acceptor, clients, threads, history, version, wire,
                   serving, seen, held, socket, closer, found, cut>>

MaxClients == 2
ServingStates == {"idle", "dialing", "wrap", "register", "handshake", "wait",
                  "send", "closing", "done"}
CloserStates == {"no", "copy", "listener", "shut", "join", "closed", "raised"}
Raw(p) == <<p, "raw">>
Tls(p) == <<p, "tls">>

\* __init__ and start: the listener is bound and the accepting thread runs.
PublisherInit ==
    /\ stopping = FALSE /\ acceptor = "listening"
    /\ clients = {} /\ threads = {} /\ history = EmptyHistory
    /\ version = 0 /\ wire = NoPacket
    /\ serving = [p \in Peers |-> "idle"]
    /\ seen = [p \in Peers |-> 0] /\ held = [p \in Peers |-> NoPacket]
    /\ socket = [p \in Peers |-> <<>>]
    /\ closer = "no" /\ found = [clients |-> {}, threads |-> {}] /\ cut = {}

\* publish under the condition: the history judges the packet before anything
\* changes; the packet replaces the one before it under a new version.
PublishAccepted(packet) ==
    /\ ~stopping /\ Accepts(history, packet)
    /\ history' = Record(history, packet)
    /\ wire' = packet /\ version' = version + 1
    /\ UNCHANGED <<stopping, acceptor, clients, threads, serving, seen, held, socket,
                   closer, found, cut>>

PublishRaises(packet) == stopping \/ ~Accepts(history, packet)

(***************************************************************************)
(* The accepting thread                                                    *)
(***************************************************************************)
\* accept() took a connection from the backlog; the condition is not held yet.
AcceptPeer(p) ==
    /\ acceptor = "listening" /\ closer \notin {"shut", "join", "closed", "raised"}
    /\ serving[p] = "dialing"
    /\ acceptor' = p
    /\ UNCHANGED <<stopping, clients, threads, history, version, wire, serving, seen,
                   held, socket, closer, found, cut>>

\* Mutant: stopping is not looked at again under the condition.
AdmitLate(p) ==
    /\ acceptor = p
    /\ acceptor' = "listening"
    /\ serving' = [serving EXCEPT ![p] = "wrap"]
    /\ clients' = clients \union {Raw(p)}
    /\ threads' = threads \union {p}
    /\ UNCHANGED <<stopping, history, version, wire, seen, held, socket, closer, found, cut>>

\* Under the condition: refuse when stopping or full, else start its thread.
Admit(p) ==
    /\ acceptor = p
    /\ acceptor' = "listening"
    /\ IF stopping \/ Cardinality(threads) >= MaxClients
       THEN /\ serving' = [serving EXCEPT ![p] = "done"]
            /\ UNCHANGED <<clients, threads>>
       ELSE /\ serving' = [serving EXCEPT ![p] = "wrap"]
            /\ clients' = clients \union {Raw(p)}
            /\ threads' = threads \union {p}
    /\ UNCHANGED <<stopping, history, version, wire, seen, held, socket, closer, found, cut>>

\* The loop ends when it sees stopping or its listener is closed.
AcceptorEnds ==
    /\ acceptor = "listening" /\ stopping
    /\ acceptor' = "done"
    /\ UNCHANGED <<stopping, clients, threads, history, version, wire, serving, seen,
                   held, socket, closer, found, cut>>

(***************************************************************************)
(* A serving thread                                                        *)
(***************************************************************************)
Moves(p, from, to) ==
    /\ serving[p] = from
    /\ serving' = [serving EXCEPT ![p] = to]

\* wrap_socket detaches the raw socket: from here close() cannot reach the
\* connection through clients until Register. On a closed socket it fails.
Wrap(p) ==
    /\ Moves(p, "wrap", IF Raw(p) \in cut THEN "closing" ELSE "register")
    /\ UNCHANGED <<stopping, acceptor, clients, threads, history, version, wire, seen,
                   held, socket, closer, found, cut>>

Register(p) ==
    /\ Moves(p, "register", "handshake")
    /\ clients' = (clients \ {Raw(p)}) \union {Tls(p)}
    /\ UNCHANGED <<stopping, acceptor, threads, history, version, wire, seen, held, socket,
                   closer, found, cut>>

\* The handshake completed and the 36 bytes carried the token.
Authenticate(p) ==
    /\ Tls(p) \notin cut /\ Moves(p, "handshake", "wait")
    /\ UNCHANGED <<stopping, acceptor, clients, threads, history, version, wire, seen,
                   held, socket, closer, found, cut>>

\* Mutant: the wait is for a new version only.
PickNewOnly(p) ==
    /\ version # seen[p] /\ Moves(p, "wait", "send")
    /\ seen' = [seen EXCEPT ![p] = version]
    /\ held' = [held EXCEPT ![p] = wire]
    /\ UNCHANGED <<stopping, acceptor, clients, threads, history, version, wire, socket,
                   closer, found, cut>>

\* One turn of the loop under the condition, which releases it while it waits.
Pick(p) ==
    /\ stopping \/ version # seen[p]
    /\ IF stopping
       THEN /\ Moves(p, "wait", "closing")
            /\ UNCHANGED <<seen, held>>
       ELSE /\ Moves(p, "wait", "send")
            /\ seen' = [seen EXCEPT ![p] = version]
            /\ held' = [held EXCEPT ![p] = wire]
    /\ UNCHANGED <<stopping, acceptor, clients, threads, history, version, wire, socket,
                   closer, found, cut>>

\* Mutant: the version is read when the send has ended.
SendMarksSeen(p) ==
    /\ Tls(p) \notin cut /\ socket[p] = <<>>
    /\ Moves(p, "send", "wait")
    /\ socket' = [socket EXCEPT ![p] = Append(@, held[p])]
    /\ held' = [held EXCEPT ![p] = NoPacket]
    /\ seen' = [seen EXCEPT ![p] = version]
    /\ UNCHANGED <<stopping, acceptor, clients, threads, history, version, wire, closer,
                   found, cut>>

\* sendall outside the condition; the peer's buffer holds one packet here.
Send(p) ==
    /\ Tls(p) \notin cut /\ socket[p] = <<>>
    /\ Moves(p, "send", "wait")
    /\ socket' = [socket EXCEPT ![p] = Append(@, held[p])]
    /\ held' = [held EXCEPT ![p] = NoPacket]
    /\ UNCHANGED <<stopping, acceptor, clients, threads, history, version, wire, seen,
                   closer, found, cut>>

\* An exception of the connection: a timeout, a wrong token, a peer that left,
\* or a socket that close() shut down.
Break(p) ==
    /\ serving[p] \in {"handshake", "send"}
    /\ serving' = [serving EXCEPT ![p] = "closing"]
    /\ UNCHANGED <<stopping, acceptor, clients, threads, history, version, wire, seen,
                   held, socket, closer, found, cut>>

\* finally: the connection is closed and, under the condition, the slot is free.
Leave(p) ==
    /\ Moves(p, "closing", "done")
    /\ clients' = clients \ {Raw(p), Tls(p)}
    /\ threads' = threads \ {p}
    /\ seen' = [seen EXCEPT ![p] = 0] /\ held' = [held EXCEPT ![p] = NoPacket]
    /\ UNCHANGED <<stopping, acceptor, history, version, wire, socket, closer, found, cut>>

Proceed(p) == Wrap(p) \/ Register(p) \/ Authenticate(p) \/ Pick(p) \/ Send(p) \/ Leave(p)

(***************************************************************************)
(* close()                                                                 *)
(***************************************************************************)
RequestStop ==
    /\ closer = "no"
    /\ stopping' = TRUE /\ closer' = "copy"
    /\ UNCHANGED <<acceptor, clients, threads, history, version, wire, serving, seen,
                   held, socket, found, cut>>

CopyThreads ==
    /\ closer = "copy" /\ closer' = "listener"
    /\ found' = [clients |-> clients, threads |-> threads]
    /\ UNCHANGED <<stopping, acceptor, clients, threads, history, version, wire, serving,
                   seen, held, socket, cut>>

\* Closing the listener also refuses what still waits in its backlog.
CloseListener ==
    /\ closer = "listener" /\ closer' = "shut"
    /\ serving' = [p \in Peers |-> IF serving[p] = "dialing" /\ acceptor # p
                                   THEN "done" ELSE serving[p]]
    /\ UNCHANGED <<stopping, acceptor, clients, threads, history, version, wire, seen,
                   held, socket, found, cut>>

\* shutdown and close of one copied client. Shutting a raw socket that was
\* detached in the meantime raises OSError and reaches nothing.
ShutClient ==
    /\ closer = "shut"
    /\ IF found.clients = {}
       THEN closer' = "join" /\ UNCHANGED <<found, cut>>
       ELSE \E c \in found.clients :
                /\ found' = [found EXCEPT !.clients = @ \ {c}]
                /\ cut' = cut \union {c}
                /\ UNCHANGED closer
    /\ UNCHANGED <<stopping, acceptor, clients, threads, history, version, wire, serving,
                   seen, held, socket>>

\* A thread that outlives the three seconds of its join: it waits for its peer
\* on a connection that nothing has cut.
Outlives(p) == serving[p] \in {"handshake", "send"} /\ Tls(p) \notin cut

Join ==
    /\ closer = "join"
    /\ \/ /\ acceptor = "done" /\ \A p \in found.threads : serving[p] = "done"
          /\ closer' = "closed"
       \/ /\ \E p \in found.threads : Outlives(p)
          /\ closer' = "raised"
    /\ UNCHANGED <<stopping, acceptor, clients, threads, history, version, wire, serving,
                   seen, held, socket, found, cut>>

Closing == CopyThreads \/ CloseListener \/ ShutClient \/ Join
==============================================================================
