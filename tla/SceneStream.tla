----------------------------- MODULE SceneStream -----------------------------
(***************************************************************************)
(* The live scene from the simulated camera's map to the headset: the loop *)
(* of stream.py on the gimbal demo source, the publisher, the headset's    *)
(* receiver, and the map generation that the control channel reports on    *)
(* its own. A packet's identity is its map generation: source, epoch,      *)
(* calibration and representation are fixed for one run of the host.       *)
(***************************************************************************)
EXTENDS SequenceHistory, Sequences

CONSTANTS Peers, NoPacket, NoPeer,
          MaxBatches,      \* bound: batches the host may be asked for
          MaxGeneration    \* bound: map generations that are reached

ASSUME StreamAssumption ==
    /\ MaxBatches \in Nat /\ MaxGeneration \in Nat
    /\ NoPeer \notin Peers /\ "listening" \notin Peers /\ "done" \notin Peers
    /\ NoPacket \notin [identity : Nat, sequence : Nat]

VARIABLES stopping, acceptor, clients, threads, history, version, wire, serving,
          seen, held, socket, closer, found, cut,
          mailbox, stop, running, connection, status, workers, xr,
          loop,            \* where the host's main thread is
          batches,         \* how many batches it was asked for
          sequence, packet,
          clearRequested,  \* the demo source's event
          generation, tracked,   \* the retained map's
          reported,        \* the demo source's map_generation, read by the control service
          feedback         \* the generation in the last feedback the headset took

Publisher == INSTANCE LatestPublisher
Receiver == INSTANCE SceneReceiver WITH Connections <- Peers, NoFrame <- NoPacket,
                                        NoConnection <- NoPeer

publisherVars == <<stopping, acceptor, clients, threads, history, version, wire, serving,
                   seen, held, socket, closer, found, cut>>
receiverVars == <<mailbox, stop, running, connection, status, workers, xr>>
loopVars == <<loop, batches, sequence, packet, generation, tracked>>
channelVars == <<clearRequested, reported, feedback>>
vars == <<publisherVars, receiverVars, loopVars, channelVars>>

HostStep == UNCHANGED <<receiverVars, loopVars, channelVars>>
HeadsetStep == UNCHANGED <<publisherVars, loopVars, channelVars>>

StreamInit ==
    /\ Publisher!PublisherInit /\ Receiver!ReceiverInit
    /\ loop = "service" /\ batches \in 1..MaxBatches /\ sequence = 1 /\ packet = NoPacket
    /\ clearRequested = FALSE /\ generation = 1 /\ tracked = TRUE
    /\ reported = 1 /\ feedback = 1

(***************************************************************************)
(* The host's main thread                                                  *)
(***************************************************************************)
\* service_clear reads the event and clears it; the map is cleared after that.
TakeClear ==
    /\ loop = "service" /\ sequence <= batches
    /\ loop' = IF clearRequested THEN "clear" ELSE "build"
    /\ clearRequested' = FALSE
    /\ UNCHANGED <<publisherVars, receiverVars, batches, sequence, packet, generation, tracked,
                   reported, feedback>>

\* Mutant: sequences start again with the new identity.
ClearRestarts ==
    /\ loop = "clear" /\ loop' = "build"
    /\ generation' = generation + 1 /\ reported' = generation' /\ sequence' = 1
    /\ UNCHANGED <<publisherVars, receiverVars, batches, packet, tracked, clearRequested,
                   feedback>>

ClearMap ==
    /\ loop = "clear" /\ loop' = "build"
    /\ generation' = generation + 1 /\ reported' = generation'
    /\ UNCHANGED <<publisherVars, receiverVars, batches, sequence, packet, tracked, clearRequested,
                   feedback>>

\* Mutant: a clear is serviced after the packet was built.
PublishThenClear ==
    /\ loop = "build" /\ UNCHANGED tracked
    /\ packet' = [identity |-> generation, sequence |-> sequence]
    /\ Publisher!PublishAccepted(packet') /\ loop' = "observe"
    /\ generation' = IF clearRequested THEN generation + 1 ELSE generation
    /\ reported' = generation' /\ clearRequested' = FALSE
    /\ UNCHANGED <<receiverVars, batches, sequence, feedback>>

\* sample and build_batch, where a lost tracking clears the map a second way,
\* then publish. A packet the publisher refuses ends the stream.
PublishBatch ==
    /\ loop = "build"
    /\ \E t \in BOOLEAN :
        /\ tracked' = t
        /\ generation' = IF tracked /\ ~t THEN generation + 1 ELSE generation
        /\ generation' <= MaxGeneration
        /\ packet' = [identity |-> generation', sequence |-> sequence]
    /\ \/ Publisher!PublishAccepted(packet') /\ loop' = "observe"
       \/ Publisher!PublishRaises(packet') /\ Publisher!RequestStop /\ loop' = "closing"
    /\ UNCHANGED <<receiverVars, batches, sequence, channelVars>>

Observe ==
    /\ loop = "observe" /\ loop' = "service"
    /\ reported' = packet.identity
    /\ sequence' = sequence + 1
    /\ UNCHANGED <<publisherVars, receiverVars, batches, packet, generation, tracked,
                   clearRequested, feedback>>

\* All batches were published, or the operator interrupts the host: the stack of
\* contexts closes the publisher.
EndStream ==
    /\ loop # "closing" /\ loop' = "closing"
    /\ Publisher!RequestStop
    /\ UNCHANGED <<receiverVars, batches, sequence, packet, generation, tracked, channelVars>>

ClosePublisher ==
    /\ loop = "closing" /\ Publisher!Closing
    /\ UNCHANGED <<receiverVars, loopVars, channelVars>>

Main == TakeClear \/ ClearMap \/ PublishBatch \/ Observe \/ ClosePublisher

Accept == \E p \in Peers : Publisher!AcceptPeer(p) /\ HostStep
Admit == \E p \in Peers : Publisher!Admit(p) /\ HostStep
AcceptorEnds == Publisher!AcceptorEnds /\ HostStep
Proceed(p) == Publisher!Proceed(p) /\ HostStep
Break(p) == Publisher!Break(p) /\ HostStep

(***************************************************************************)
(* The control channel                                                     *)
(***************************************************************************)
\* A reset was executed by the control session: request_clear sets the event.
RequestClear ==
    /\ ~clearRequested /\ generation < MaxGeneration
    /\ clearRequested' = TRUE
    /\ UNCHANGED <<publisherVars, receiverVars, loopVars, reported, feedback>>

\* The control service answers with the generation it reads from the source.
Feedback ==
    /\ feedback # reported /\ feedback' = reported
    /\ UNCHANGED <<publisherVars, receiverVars, loopVars, clearRequested, reported>>

(***************************************************************************)
(* The headset                                                             *)
(***************************************************************************)
Connect == Receiver!StopReceiver("starting") /\ HeadsetStep
Disconnect == Receiver!StopReceiver("stopping") /\ connection # NoPeer /\ HeadsetStep
StopReturns == Receiver!StopReturns /\ HeadsetStep
StartWorker == \E c \in Peers : /\ serving[c] = "idle" /\ workers[c].pc = "none"
                                /\ Receiver!StartWorker(c) /\ HeadsetStep

\* connect reaches the backlog of a listener that is still open.
Dial(c) ==
    /\ workers[c].pc = "connect" /\ ~stop /\ serving[c] = "idle"
    /\ closer \in {"no", "copy", "listener"}
    /\ serving' = [serving EXCEPT ![c] = "dialing"]
    /\ UNCHANGED <<stopping, acceptor, clients, threads, history, version, wire, seen, held,
                   socket, closer, found, cut, receiverVars, loopVars, channelVars>>

Connected(c) == /\ stop \/ serving[c] \in {"wait", "send"}
                /\ Receiver!Connected(c) /\ HeadsetStep

Read(c) ==
    /\ socket[c] # <<>> /\ Receiver!ReadFrame(c, Head(socket[c]))
    /\ socket' = [socket EXCEPT ![c] = Tail(@)]
    /\ UNCHANGED <<stopping, acceptor, clients, threads, history, version, wire, serving,
                   seen, held, closer, found, cut, loopVars, channelVars>>

PublishFrame(c) == Receiver!PublishFrame(c) /\ HeadsetStep
WorkerFails(c) == Receiver!WorkerFails(c) /\ HeadsetStep
Worker(c) == Dial(c) \/ Connected(c) \/ Read(c) \/ PublishFrame(c)

Headset == Connect \/ Disconnect \/ StopReturns \/ StartWorker \/ \E c \in Peers : Worker(c) \/ WorkerFails(c)

StreamNext ==
    \/ TakeClear \/ ClearMap \/ PublishBatch \/ Observe \/ EndStream \/ ClosePublisher
    \/ Accept \/ Admit \/ AcceptorEnds \/ \E p \in Peers : Proceed(p) \/ Break(p)
    \/ RequestClear \/ Feedback \/ Headset

\* Every thread runs on: none waits for ever for a lock. What may not happen at
\* all is left unfair: the user, the operator, the end of the batches, and a
\* connection that breaks, unless its own end has shut it down.
Fairness ==
    /\ WF_vars(Main) /\ WF_vars(Accept \/ Admit \/ AcceptorEnds) /\ WF_vars(Feedback)
    /\ \A p \in Peers : /\ WF_vars(Proceed(p) \/ (stopping /\ Break(p)))
                        /\ WF_vars(Worker(p) \/ (stop /\ WorkerFails(p)))
    /\ WF_vars(StopReturns \/ StartWorker)

(***************************************************************************)
(* Properties                                                              *)
(***************************************************************************)
Packets == [identity : 1..MaxGeneration + 1, sequence : 1..MaxBatches] \union {NoPacket}

StreamTypeOK ==
    /\ stopping \in BOOLEAN /\ acceptor \in {"listening", "done"} \union Peers
    /\ clients \subseteq Peers \X {"raw", "tls"} /\ threads \subseteq Peers
    /\ version \in 0..MaxBatches /\ wire \in Packets
    /\ serving \in [Peers -> Publisher!ServingStates]
    /\ seen \in [Peers -> 0..version] /\ held \in [Peers -> Packets]
    /\ closer \in Publisher!CloserStates /\ cut \subseteq Peers \X {"raw", "tls"}
    /\ mailbox.frame \in Packets /\ mailbox.from \in Peers \union {NoPeer}
    /\ stop \in BOOLEAN /\ running \in BOOLEAN /\ connection \in Peers \union {NoPeer}
    /\ status \in Receiver!Statuses /\ xr \in {"idle", "starting", "stopping"}
    /\ loop \in {"service", "clear", "build", "observe", "closing"}
    /\ generation \in 1..MaxGeneration + 1 /\ reported \in 1..MaxGeneration + 1
    /\ feedback \in 1..MaxGeneration + 1

\* When close() returns, nothing of the publisher runs: not a thread it copied,
\* not one the acceptor started meanwhile, not the acceptor.
NoThreadAfterClose ==
    closer = "closed" => /\ acceptor = "done" /\ threads = {} /\ clients = {}
                         /\ \A p \in Peers : serving[p] \in {"idle", "done"}

\* close() misses its deadline for one reason only: it caught a connection
\* between the two objects that stand for it, and shut down the dead one.
CloseRaisesOnlyWhileWrapping ==
    closer = "raised" => \E p \in Peers : Publisher!Raw(p) \in cut

\* What the host's history lets through, the headset's accepts: through skipped
\* packets, new identities, a full history and reconnections the headset never
\* ends a connection for a packet's sequence or identity.
HeadsetNeverRejects == status # "rejected"

\* One thread reads at a time: a worker that is not done belongs to the current
\* connection, and running_ tells the XR thread of it.
OneReader ==
    \A c \in Peers : workers[c].pc \in {"connect", "read", "publish"} =>
                        c = connection /\ running

\* The frame the headset shows as received came over the connection it has.
ShownCameFromHere ==
    connection # NoPeer /\ mailbox.frame # NoPacket => mailbox.from = connection

\* The publisher's threads come and go as close() expects them to.
PublisherInv == StreamTypeOK /\ NoThreadAfterClose /\ CloseRaisesOnlyWhileWrapping

\* The headset reads one connection at a time, accepts all it sends, shows its frames only.
HeadsetInv == HeadsetNeverRejects /\ OneReader /\ ShownCameFromHere

\* While one connection lasts the frames shown get newer, across identities too,
\* although each end only orders the sequences of one identity.
FramesInOrder ==
    [][mailbox'.generation = mailbox.generation /\ mailbox'.frame # mailbox.frame
         /\ mailbox.frame # NoPacket
         => mailbox'.frame.sequence > mailbox.frame.sequence]_mailbox

\* The generation in the feedback never falls: the client ends its session when
\* it does, and two ways of clearing the map race to report it.
FeedbackNeverGoesBack == [][feedback' >= feedback]_feedback

Receiving == \E c \in Peers : workers[c].pc \in {"read", "publish"} /\ ~stop
                                /\ serving[c] \in {"wait", "send"}

Shows(g) == mailbox.frame \in [identity : g..MaxGeneration + 1, sequence : 1..MaxBatches]

\* A headset that stays connected shows the latest packet, whatever it skipped.
LatestReachesHeadset == Receiving ~> ~Receiving \/ mailbox.frame = wire

\* A clear that was asked for is seen: the headset shows a newer map than the
\* one it wanted cleared, unless its connection or the stream ends first.
ClearReachesHeadset ==
    \A g \in 1..MaxGeneration - 1 :
        Receiving /\ clearRequested /\ generation = g /\ sequence < batches ~>
            ~Receiving \/ loop = "closing" \/ Shows(g + 1)

\* close() returns or reports its deadline, and every thread of it ends.
PublisherCloses == stopping ~> closer \in {"closed", "raised"} /\ threads = {}

\* A headset that stays connected catches up, with the packets and with the clears.
HeadsetCatchesUp == LatestReachesHeadset /\ ClearReachesHeadset

StreamSpec == StreamInit /\ [][StreamNext]_vars
FairStreamSpec == StreamSpec /\ Fairness
==============================================================================
