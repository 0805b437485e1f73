----------------------------- MODULE StreamProofs -----------------------------
(***************************************************************************)
(* The host's two ends proved: the scene stream for any number of          *)
(* connections, batches and generations, and after it the capture that     *)
(* feeds it, for any cameras, histories and traces.                        *)
(*                                                                         *)
(* The stream. StreamSafe's invariant Safe says where the host's loop is,  *)
(* what close() has found, which worker reads, and the order of all that   *)
(* is on its way over one connection.                                      *)
(***************************************************************************)
EXTENDS SceneStream, CameraCapture, FiniteSetTheorems, WellFoundedInduction, TLAPS
Serving(p) == serving[p] \in {"wrap", "register", "handshake", "wait", "send", "closing"}
Reads(p) == workers[p].pc \in {"connect", "read", "publish"}

\* What the publisher has let through: its identity is in the history.
Known == [identity : DOMAIN history, sequence : 1..MaxBatches] \union {NoPacket}
Generations == 1..MaxGeneration + 1

\* The loop: how far its counters are at each of its places, what it published
\* last, and how the map generations it makes reach the control channel.
LoopInv ==
    /\ loop \in {"service", "clear", "build", "observe", "closing"}
    /\ batches \in 1..MaxBatches /\ sequence \in 1..batches + 1
    /\ loop \in {"clear", "build", "observe"} => sequence <= batches
    /\ loop \in {"service", "clear", "build"} => sequence = version + 1
    /\ loop = "observe" => sequence = version
    /\ version \in Nat /\ version <= sequence /\ version <= batches
    /\ DOMAIN history \subseteq Generations
    /\ Cardinality(DOMAIN history) <= MaxIdentities
    /\ wire \in Known /\ (version = 0 <=> wire = NoPacket)
    /\ wire # NoPacket => wire.sequence = version
    /\ generation \in Generations /\ reported \in Generations /\ feedback \in Generations
    /\ feedback <= reported /\ reported <= generation
    /\ clearRequested \in BOOLEAN
    /\ clearRequested \/ loop = "clear" => generation <= MaxGeneration
    /\ clearRequested /\ loop = "clear" => generation < MaxGeneration
    /\ loop = "observe" => packet.identity = generation

\* The threads of the publisher, those that close() knows of, and how it can
\* reach their connections.
ThreadsInv ==
    /\ stopping \in BOOLEAN /\ acceptor \in {"listening", "done"} \union Peers
    /\ clients \subseteq Peers \X {"raw", "tls"} /\ threads \subseteq Peers
    /\ serving \in [Peers -> Publisher!ServingStates]
    /\ closer \in Publisher!CloserStates /\ cut \subseteq Peers \X {"raw", "tls"}
    /\ found \in [clients : SUBSET (Peers \X {"raw", "tls"}), threads : SUBSET Peers]
    /\ \A p \in Peers : p \in threads <=> Serving(p)
    /\ \A p \in threads : Publisher!Raw(p) \in clients \/ Publisher!Tls(p) \in clients
    /\ \A c \in clients : c[1] \in threads
    /\ \A p \in Peers : acceptor = p => serving[p] = "dialing"

CloseInv ==
    /\ (stopping <=> closer # "no") /\ (stopping <=> loop = "closing")
    /\ closer \notin {"no", "copy"} =>
         /\ threads \subseteq found.threads
         /\ \A p \in found.threads : \/ Publisher!Raw(p) \in found.clients \union cut
                                     \/ Publisher!Tls(p) \in found.clients \union cut
    /\ closer \in {"shut", "join", "closed", "raised"} =>
         \A p \in Peers : serving[p] = "dialing" => acceptor = p
    /\ closer \in {"join", "closed", "raised"} => found.clients = {}
    /\ closer = "closed" => acceptor = "done" /\ threads = {}
    /\ CloseRaisesOnlyWhileWrapping

\* One worker reads, with the mailbox's token; the mailbox's history is that of
\* the frames shown since it was reset.
ReaderInv ==
    /\ workers \in [Peers -> [pc : {"none", "connect", "read", "publish", "done"},
                              generation : Nat, packet : Known]]
    /\ mailbox \in [frame : Known, from : Peers \union {NoPeer}, generation : Nat,
                    revision : Nat, sequences : {mailbox.sequences}]
    /\ stop \in BOOLEAN /\ running \in BOOLEAN /\ connection \in Peers \union {NoPeer}
    /\ status \in Receiver!Statuses /\ xr \in {"idle", "starting", "stopping"}
    /\ HeadsetInv
    /\ \A p \in Peers : Reads(p) => workers[p].generation = mailbox.generation
    /\ \A p \in Peers : workers[p].pc = "none" => serving[p] = "idle"
    /\ \A p \in Peers : workers[p].pc = "publish" <=> workers[p].packet # NoPacket

\* The mailbox's history is that of the frames shown since it was reset.
ShownInv ==
    /\ mailbox.sequences \in [DOMAIN mailbox.sequences -> Nat]
    /\ DOMAIN mailbox.sequences \subseteq DOMAIN history
    /\ mailbox.frame = NoPacket => DOMAIN mailbox.sequences = {}
    /\ \A i \in DOMAIN mailbox.sequences : mailbox.sequences[i] <= mailbox.frame.sequence

\* What a connection carries, oldest first.
Shown(p) == IF p = connection THEN mailbox.frame ELSE NoPacket
Taken(p) == workers[p].packet
Sent(p) == IF socket[p] = <<>> THEN NoPacket ELSE Head(socket[p])

Before(a, b) == a # NoPacket /\ b # NoPacket => a.sequence < b.sequence

\* A packet is older than the one published last, unless the thread sent that one.
Published(p, a) ==
    a # NoPacket => /\ a.sequence <= version
                    /\ serving[p] \in {"wait", "send"} /\ seen[p] # version => a.sequence < version

OrderedOn(p) ==
    /\ Before(Shown(p), Taken(p)) /\ Before(Shown(p), Sent(p)) /\ Before(Shown(p), held[p])
    /\ Before(Taken(p), Sent(p)) /\ Before(Taken(p), held[p]) /\ Before(Sent(p), held[p])
    /\ Published(p, Shown(p)) /\ Published(p, Taken(p)) /\ Published(p, Sent(p))
    /\ Published(p, held[p])
    /\ seen[p] <= version /\ Len(socket[p]) <= 1
    /\ serving[p] \in {"idle", "dialing", "wrap", "register", "handshake"} =>
         Shown(p) = NoPacket /\ Taken(p) = NoPacket /\ Sent(p) = NoPacket
    /\ serving[p] \notin {"send", "closing"} => held[p] = NoPacket
    /\ serving[p] = "send" => held[p] # NoPacket

OrderInv ==
    /\ seen \in [Peers -> Nat] /\ held \in [Peers -> Known]
    /\ socket \in [Peers -> Seq(Known \ {NoPacket})]
    /\ \A p \in Peers : OrderedOn(p)

Safe == LoopInv /\ ThreadsInv /\ CloseInv /\ ReaderInv /\ ShownInv /\ OrderInv

\* The steps of the host's main thread and of the control channel; of all else
\* the loop and what it published stay as they are.
LEMMA LoopSteps ==
    ASSUME StreamNext
    PROVE  \/ TakeClear \/ ClearMap \/ PublishBatch \/ Observe \/ EndStream
           \/ RequestClear \/ Feedback
           \/ UNCHANGED <<loopVars, channelVars, version, wire, history>>
<1> USE DEF HostStep, HeadsetStep, publisherVars, receiverVars, loopVars, channelVars
<1>1. CASE ClosePublisher
    BY <1>1
       DEF ClosePublisher, Publisher!Closing, Publisher!CopyThreads,
           Publisher!CloseListener,
       Publisher!ShutClient, Publisher!Join
<1>2. CASE Accept \/ Admit \/ AcceptorEnds
    BY <1>2 DEF Accept, Admit, AcceptorEnds, Publisher!AcceptPeer, Publisher!Admit,
       Publisher!AcceptorEnds
<1>3. CASE \E p \in Peers : Proceed(p) \/ Break(p)
    BY <1>3 DEF Proceed, Break, Publisher!Proceed, Publisher!Wrap, Publisher!Register,
       Publisher!Authenticate, Publisher!Pick, Publisher!Send, Publisher!Leave, Publisher!Break
<1>4. CASE Headset
    <2>1. CASE Connect \/ Disconnect \/ StopReturns \/ StartWorker
        BY <2>1 DEF Connect, Disconnect, StopReturns, StartWorker
    <2>2. CASE \E c \in Peers : Worker(c) \/ WorkerFails(c)
        BY <2>2 DEF Worker, Dial, Connected, Read, PublishFrame, WorkerFails
    <2>q. QED BY <1>4, <2>1, <2>2, Zenon DEF Headset
<1>q. QED BY <1>1, <1>2, <1>3, <1>4, Zenon DEF StreamNext

\* A packet is accepted with its identity in the history that results, which
\* keeps those it had and stays within its limit.
LEMMA RecordKeeps ==
    ASSUME NEW p, p \in [identity : Generations, sequence : Nat],
           DOMAIN history \subseteq Generations, Cardinality(DOMAIN history) <= MaxIdentities,
           Accepts(history, p), history' = Record(history, p)
    PROVE  /\ DOMAIN history' = DOMAIN history \union {p.identity}
           /\ DOMAIN history' \subseteq Generations
           /\ Cardinality(DOMAIN history') <= MaxIdentities
<1>1. /\ DOMAIN history' = DOMAIN history \union {p.identity}
      /\ DOMAIN history' \subseteq Generations
    BY DEF Record
<1>2. IsFiniteSet(DOMAIN history) /\ Cardinality(DOMAIN history) \in Nat
    <2>1. IsFiniteSet(Generations)
        BY FS_Interval, StreamAssumption DEF Generations
    <2>q. QED BY <2>1, FS_Subset, FS_CardinalityType
<1>3. CASE p.identity \in DOMAIN history
    <2>1. DOMAIN history' = DOMAIN history
        BY <1>1, <1>3
    <2>q. QED BY <1>1, <2>1
<1>4. CASE p.identity \notin DOMAIN history
    <2>1. Cardinality(DOMAIN history') = Cardinality(DOMAIN history) + 1
        BY <1>1, <1>2, <1>4, FS_AddElement
    <2>2. Cardinality(DOMAIN history) < MaxIdentities
        BY <1>4 DEF Accepts
    <2>q. QED BY <1>1, <1>2, <2>1, <2>2, HistoryAssumption
<1>q. QED BY <1>3, <1>4

\* Both ends keep the same kind of history.
LEMMA OneHistory ==
    /\ \A h, p : Publisher!Accepts(h, p) <=> Accepts(h, p)
    /\ \A h, p : Publisher!Record(h, p) = Record(h, p)
    /\ \A h, p : Receiver!Accepts(h, p) <=> Accepts(h, p)
    /\ \A h, p : Receiver!Record(h, p) = Record(h, p)
    /\ Receiver!EmptyHistory = EmptyHistory /\ Publisher!EmptyHistory = EmptyHistory
<1>1. \A S : Publisher!Cardinality(S) = Cardinality(S) /\ Receiver!Cardinality(S) = Cardinality(S)
    BY DEF Publisher!Cardinality, Receiver!Cardinality, Cardinality
<1>q. QED BY <1>1 DEF Publisher!Accepts, Receiver!Accepts, Accepts, Publisher!Record,
             Receiver!Record, Record, Receiver!EmptyHistory, Publisher!EmptyHistory, EmptyHistory

\* What PublishBatch does to the loop and to what is published.
LEMMA PublishesNext ==
    ASSUME LoopInv, PublishBatch
    PROVE  /\ loop = "build" /\ loop' \in {"observe", "closing"}
           /\ generation' \in Generations
           /\ generation <= generation' /\ generation' <= MaxGeneration
           /\ packet' = [identity |-> generation', sequence |-> sequence]
           /\ UNCHANGED <<batches, sequence, channelVars>>
           /\ \/ /\ loop' = "observe" /\ wire' = packet' /\ version' = version + 1
                 /\ DOMAIN history' = DOMAIN history \union {generation'}
                 /\ DOMAIN history' \subseteq Generations
                 /\ Cardinality(DOMAIN history') <= MaxIdentities
              \/ loop' = "closing" /\ UNCHANGED <<version, wire, history>>
<1>1. PICK t \in BOOLEAN :
        /\ generation' = IF tracked /\ ~t THEN generation + 1 ELSE generation
        /\ generation' <= MaxGeneration
        /\ packet' = [identity |-> generation', sequence |-> sequence]
    BY DEF PublishBatch
<1>2. /\ generation' \in Generations /\ generation <= generation'
      /\ loop = "build" /\ UNCHANGED <<batches, sequence, channelVars>>
    BY <1>1, StreamAssumption DEF PublishBatch, LoopInv, Generations
<1>3. CASE Publisher!PublishAccepted(packet') /\ loop' = "observe"
    <2>1. Accepts(history, packet') /\ history' = Record(history, packet')
        BY <1>3, OneHistory DEF Publisher!PublishAccepted
    <2>2. packet' \in [identity : Generations, sequence : Nat]
        BY <1>1, <1>2 DEF LoopInv
    <2>3. packet'.identity = generation'
        BY <1>1
    <2>4. wire' = packet' /\ version' = version + 1
        BY <1>3 DEF Publisher!PublishAccepted
    <2>5. DOMAIN history \subseteq Generations /\ Cardinality(DOMAIN history) <= MaxIdentities
        BY DEF LoopInv
    <2>q. QED BY <1>1, <1>2, <1>3, <2>1, <2>2, <2>3, <2>4, <2>5, RecordKeeps
<1>4. CASE /\ Publisher!PublishRaises(packet') /\ Publisher!RequestStop /\ loop' = "closing"
    BY <1>1, <1>2, <1>4 DEF Publisher!RequestStop
<1>q. QED BY <1>3, <1>4 DEF PublishBatch

\* What was let through stays known.
LEMMA KnownGrows ==
    ASSUME LoopInv, StreamNext
    PROVE  DOMAIN history \subseteq DOMAIN history' /\ Known \subseteq Known'
<1>1. CASE PublishBatch
    BY <1>1, PublishesNext DEF Known
<1>2. CASE UNCHANGED history
    BY <1>2 DEF Known
<1>q. QED BY <1>1, <1>2, LoopSteps DEF TakeClear, ClearMap, Observe, EndStream, RequestClear,
             Feedback, publisherVars, Publisher!RequestStop

\* The loop's steps keep its invariant.
LEMMA LoopStep ==
    ASSUME LoopInv, StreamNext
    PROVE  LoopInv'
<1> USE StreamAssumption DEF LoopInv, Generations
<1>1. CASE TakeClear
    BY <1>1 DEF TakeClear, publisherVars, Known
<1>2. CASE ClearMap
    BY <1>2 DEF ClearMap, publisherVars, Known
<1>3. CASE PublishBatch
    <2> HIDE DEF LoopInv, Generations
    <2>1. /\ loop = "build" /\ loop' \in {"observe", "closing"}
          /\ generation' \in Generations /\ generation <= generation' /\ generation' <= MaxGeneration
          /\ packet' = [identity |-> generation', sequence |-> sequence]
          /\ batches' = batches /\ sequence' = sequence
          /\ reported' = reported /\ feedback' = feedback /\ clearRequested' = clearRequested
        BY <1>3, PublishesNext DEF channelVars
    <2>2. CASE /\ loop' = "observe" /\ wire' = packet' /\ version' = version + 1
               /\ DOMAIN history' = DOMAIN history \union {generation'}
               /\ DOMAIN history' \subseteq Generations
               /\ Cardinality(DOMAIN history') <= MaxIdentities
        <3>1. wire' # NoPacket /\ wire' \in Known' /\ wire'.sequence = version'
            BY <2>1, <2>2 DEF Known, LoopInv, Generations
        <3>q. QED BY <2>1, <2>2, <3>1 DEF LoopInv, Generations
    <2>3. CASE loop' = "closing" /\ UNCHANGED <<version, wire, history>>
        BY <2>1, <2>3 DEF Known, LoopInv, Generations
    <2>q. QED BY <1>3, <2>2, <2>3, PublishesNext
<1>4. CASE Observe
    BY <1>4 DEF Observe, publisherVars, Known
<1>5. CASE EndStream
    BY <1>5 DEF EndStream, Publisher!RequestStop, channelVars, Known
<1>6. CASE RequestClear
    BY <1>6 DEF RequestClear, publisherVars, loopVars, Known
<1>7. CASE Feedback
    BY <1>7 DEF Feedback, publisherVars, loopVars, Known
<1>8. CASE UNCHANGED <<loopVars, channelVars, version, wire, history>>
    BY <1>8 DEF loopVars, channelVars, Known
<1>q. QED BY <1>1, <1>2, <1>3, <1>4, <1>5, <1>6, <1>7, <1>8, LoopSteps

(***************************************************************************)
(* The publisher's threads and close()                                     *)
(***************************************************************************)
threadVars == <<stopping, acceptor, clients, threads, serving, closer, found, cut>>

\* The loop is told to end, or goes on, or has been told before.
Ends == /\ loop # "closing" /\ loop' = "closing" /\ closer = "no"
        /\ stopping' = TRUE /\ closer' = "copy"
        /\ UNCHANGED <<acceptor, clients, threads, serving, found, cut>>
GoesOn == loop' = "closing" <=> loop = "closing"

ThreadStep(p) ==
    \/ Publisher!AcceptPeer(p) \/ Publisher!Admit(p) \/ Publisher!Wrap(p)
    \/ Publisher!Register(p) \/ Publisher!Authenticate(p) \/ Publisher!Pick(p)
    \/ Publisher!Send(p) \/ Publisher!Leave(p) \/ Publisher!Break(p)

\* The steps that close() and the publisher's threads are made of; no other
\* step changes what they are about.
LEMMA ThreadSteps ==
    ASSUME StreamNext
    PROVE  \/ Ends
           \/ GoesOn /\ \/ Publisher!CopyThreads \/ Publisher!CloseListener
                        \/ Publisher!ShutClient \/ Publisher!Join \/ Publisher!AcceptorEnds
                        \/ \E p \in Peers : ThreadStep(p)
                        \/ \E p \in Peers : Dial(p)
                        \/ UNCHANGED threadVars
<1> USE DEF GoesOn, HostStep, HeadsetStep, publisherVars, receiverVars, loopVars, channelVars
<1>1. CASE PublishBatch \/ EndStream
    BY <1>1
       DEF PublishBatch, EndStream, Publisher!PublishAccepted, Publisher!RequestStop,
           Ends,
       threadVars
<1>2. CASE TakeClear \/ ClearMap \/ Observe \/ RequestClear \/ Feedback
    BY <1>2 DEF TakeClear, ClearMap, Observe, RequestClear, Feedback, threadVars
<1>3. CASE ClosePublisher
    BY <1>3 DEF ClosePublisher, Publisher!Closing
<1>4. CASE Accept \/ Admit \/ AcceptorEnds
    BY <1>4 DEF Accept, Admit, AcceptorEnds, ThreadStep
<1>5. CASE \E p \in Peers : Proceed(p) \/ Break(p)
    BY <1>5 DEF Proceed, Break, Publisher!Proceed, ThreadStep
<1>6. CASE Connect \/ Disconnect \/ StopReturns \/ StartWorker
    BY <1>6 DEF Connect, Disconnect, StopReturns, StartWorker, threadVars
<1>7. CASE \E c \in Peers : Worker(c) \/ WorkerFails(c)
    BY <1>7 DEF Worker, Dial, Connected, Read, PublishFrame, WorkerFails, threadVars
<1>q. QED BY <1>1, <1>2, <1>3, <1>4, <1>5, <1>6, <1>7, Zenon DEF StreamNext, Headset

\* A thread is listed from its admission to its end, with one of its sockets.
LEMMA ThreadsStep ==
    ASSUME ThreadsInv, StreamNext
    PROVE  ThreadsInv'
<1> USE StreamAssumption DEF ThreadsInv, Serving, Publisher!Raw, Publisher!Tls,
        Publisher!ServingStates, Publisher!CloserStates
<1>1. CASE Ends
    BY <1>1 DEF Ends
<1>2. CASE Publisher!CopyThreads
    BY <1>2 DEF Publisher!CopyThreads
<1>3. CASE Publisher!CloseListener
    BY <1>3 DEF Publisher!CloseListener
<1>4. CASE Publisher!ShutClient
    BY <1>4 DEF Publisher!ShutClient
<1>5. CASE Publisher!Join
    BY <1>5 DEF Publisher!Join
<1>6. CASE Publisher!AcceptorEnds
    BY <1>6 DEF Publisher!AcceptorEnds
<1>7. ASSUME NEW p \in Peers, ThreadStep(p) PROVE ThreadsInv'
    <2>1. CASE Publisher!AcceptPeer(p)
        BY <2>1 DEF Publisher!AcceptPeer
    <2>2. CASE Publisher!Admit(p)
        <3>1. serving[p] = "dialing" /\ p \notin threads /\ \A q \in Peers : acceptor' # q
            BY <2>2 DEF Publisher!Admit
        <3>2. CASE /\ serving' = [serving EXCEPT ![p] = "done"]
                   /\ UNCHANGED <<clients, threads>>
            BY <2>2, <3>1, <3>2 DEF Publisher!Admit
        <3>3. CASE /\ serving' = [serving EXCEPT ![p] = "wrap"]
                   /\ clients' = clients \union {<<p, "raw">>}
                   /\ threads' = threads \union {p}
            BY <2>2, <3>1, <3>3 DEF Publisher!Admit
        <3>q. QED BY <2>2, <3>2, <3>3, Zenon DEF Publisher!Admit, Publisher!Raw
    <2>3. CASE Publisher!Wrap(p)
        BY <2>3 DEF Publisher!Wrap, Publisher!Moves
    <2>4. CASE Publisher!Register(p)
        BY <2>4 DEF Publisher!Register, Publisher!Moves
    <2>5. CASE Publisher!Authenticate(p)
        BY <2>5 DEF Publisher!Authenticate, Publisher!Moves
    <2>6. CASE Publisher!Pick(p)
        BY <2>6 DEF Publisher!Pick, Publisher!Moves
    <2>7. CASE Publisher!Send(p)
        BY <2>7 DEF Publisher!Send, Publisher!Moves
    <2>8. CASE Publisher!Leave(p)
        BY <2>8 DEF Publisher!Leave, Publisher!Moves
    <2>9. CASE Publisher!Break(p)
        BY <2>9 DEF Publisher!Break
    <2>q. QED BY <1>7, <2>1, <2>2, <2>3, <2>4, <2>5, <2>6, <2>7, <2>8, <2>9, Zenon DEF ThreadStep
<1>8. ASSUME NEW p \in Peers, Dial(p) PROVE ThreadsInv'
    BY <1>8 DEF Dial
<1>9. CASE UNCHANGED threadVars
    BY <1>9 DEF threadVars
<1>q. QED BY <1>1, <1>2, <1>3, <1>4, <1>5, <1>6, <1>7, <1>8, <1>9, ThreadSteps, Zenon

\* What close() copied covers every thread, and every copied connection is cut.
LEMMA CloseStep ==
    ASSUME ThreadsInv, CloseInv, StreamNext
    PROVE  CloseInv'
<1> USE StreamAssumption DEF ThreadsInv, CloseInv, Serving, Publisher!Raw, Publisher!Tls,
        CloseRaisesOnlyWhileWrapping
<1>1. CASE Ends
    BY <1>1 DEF Ends
<1>2. CASE GoesOn /\ Publisher!CopyThreads
    BY <1>2 DEF GoesOn, Publisher!CopyThreads
<1>3. CASE GoesOn /\ Publisher!CloseListener
    BY <1>3 DEF GoesOn, Publisher!CloseListener
<1>4. CASE GoesOn /\ Publisher!ShutClient
    BY <1>4 DEF GoesOn, Publisher!ShutClient
<1>5. CASE GoesOn /\ Publisher!Join
    BY <1>5 DEF GoesOn, Publisher!Join, Publisher!Outlives
<1>6. CASE GoesOn /\ Publisher!AcceptorEnds
    BY <1>6 DEF GoesOn, Publisher!AcceptorEnds
<1>7. ASSUME NEW p \in Peers, GoesOn, ThreadStep(p) PROVE CloseInv'
    <2>1. CASE Publisher!AcceptPeer(p)
        BY <1>7, <2>1 DEF GoesOn, Publisher!AcceptPeer
    <2>2. CASE Publisher!Admit(p)
        <3>1. CASE stopping
            <4>1. /\ acceptor = p /\ acceptor' = "listening"
                  /\ serving' = [serving EXCEPT ![p] = "done"]
                  /\ UNCHANGED <<clients, threads, stopping, closer, found, cut, loop>>
                BY <1>7, <2>2, <3>1 DEF GoesOn, Publisher!Admit
            <4>2. serving'[p] = "done" /\ \A q \in Peers : q # p => serving'[q] = serving[q]
                BY <4>1
            <4>3. \A q \in Peers : serving'[q] = "dialing" => serving[q] = "dialing" /\ q # p
                BY <4>2
            <4>4. closer' \in {"shut", "join", "closed", "raised"} =>
                    \A q \in Peers : serving'[q] = "dialing" => acceptor' = q
                BY <4>1, <4>3
            <4>5. closer # "closed"
                BY <4>1, StreamAssumption
            <4>6. closer' = "raised" => CloseRaisesOnlyWhileWrapping'
                BY <4>1, <4>2
            <4>q. QED BY <4>1, <4>4, <4>5, <4>6
        <3>2. CASE ~stopping
            <4>1. closer' = "no" /\ ~stopping' /\ loop' # "closing"
                BY <1>7, <2>2, <3>2 DEF GoesOn, Publisher!Admit
            <4>q. QED BY <4>1
        <3>q. QED BY <3>1, <3>2
    <2>3. CASE Publisher!Wrap(p)
        BY <1>7, <2>3 DEF GoesOn, Publisher!Wrap, Publisher!Moves
    <2>4. CASE Publisher!Register(p)
        BY <1>7, <2>4 DEF GoesOn, Publisher!Register, Publisher!Moves
    <2>5. CASE Publisher!Authenticate(p)
        BY <1>7, <2>5 DEF GoesOn, Publisher!Authenticate, Publisher!Moves
    <2>6. CASE Publisher!Pick(p)
        BY <1>7, <2>6 DEF GoesOn, Publisher!Pick, Publisher!Moves
    <2>7. CASE Publisher!Send(p)
        BY <1>7, <2>7 DEF GoesOn, Publisher!Send, Publisher!Moves
    <2>8. CASE Publisher!Leave(p)
        BY <1>7, <2>8 DEF GoesOn, Publisher!Leave, Publisher!Moves
    <2>9. CASE Publisher!Break(p)
        BY <1>7, <2>9 DEF GoesOn, Publisher!Break
    <2>q. QED BY <1>7, <2>1, <2>2, <2>3, <2>4, <2>5, <2>6, <2>7, <2>8, <2>9, Zenon DEF ThreadStep
<1>8. ASSUME NEW p \in Peers, GoesOn, Dial(p) PROVE CloseInv'
    BY <1>8 DEF GoesOn, Dial
<1>9. CASE GoesOn /\ UNCHANGED threadVars
    BY <1>9 DEF GoesOn, threadVars
<1>q. QED BY <1>1, <1>2, <1>3, <1>4, <1>5, <1>6, <1>7, <1>8, <1>9, ThreadSteps, Zenon

(***************************************************************************)
(* The headset                                                             *)
(***************************************************************************)
\* A connection that was never begun is not dialled, and none is given up again.
LEMMA IdleUntilDialled ==
    ASSUME ThreadsInv, StreamNext, NEW p \in Peers, workers[p].pc = "none", serving[p] = "idle"
    PROVE  serving'[p] = "idle"
<1> USE DEF ThreadsInv, Publisher!ServingStates
<1>1. CASE Ends \/ UNCHANGED threadVars
    BY <1>1 DEF Ends, threadVars
<1>2. CASE Publisher!CopyThreads \/ Publisher!ShutClient \/ Publisher!Join \/ Publisher!AcceptorEnds
    BY <1>2
       DEF Publisher!CopyThreads, Publisher!ShutClient, Publisher!Join,
           Publisher!AcceptorEnds
<1>3. CASE Publisher!CloseListener
    BY <1>3 DEF Publisher!CloseListener
<1>4. ASSUME NEW q \in Peers, ThreadStep(q) PROVE serving'[p] = "idle"
    BY <1>4 DEF ThreadStep, Publisher!AcceptPeer, Publisher!Admit, Publisher!Wrap,
       Publisher!Register, Publisher!Authenticate, Publisher!Pick, Publisher!Send, Publisher!Leave,
       Publisher!Break, Publisher!Moves
<1>5. ASSUME NEW q \in Peers, Dial(q) PROVE serving'[p] = "idle"
    BY <1>5 DEF Dial
<1>q. QED BY <1>1, <1>2, <1>3, <1>4, <1>5, ThreadSteps, Zenon

\* A frame that was read is accepted: the mailbox has room for all the host's
\* history has, and the frame is newer than the one it shows.
LEMMA FrameAccepted ==
    ASSUME LoopInv, ReaderInv, ShownInv, OrderInv, NEW p \in Peers, workers[p].pc = "publish"
    PROVE  /\ p = connection /\ running /\ workers[p].generation = mailbox.generation
           /\ workers[p].packet \in Known \ {NoPacket}
           /\ Accepts(mailbox.sequences, workers[p].packet)
<1>1. /\ p = connection /\ running /\ workers[p].generation = mailbox.generation
      /\ workers[p].packet \in Known \ {NoPacket}
    BY DEF ReaderInv, HeadsetInv, OneReader, Reads
<1>2. PICK i \in DOMAIN history, s \in 1..MaxBatches :
        workers[p].packet = [identity |-> i, sequence |-> s]
    BY <1>1 DEF Known
<1>3. CASE i \in DOMAIN mailbox.sequences
    <2>1. mailbox.frame # NoPacket /\ mailbox.sequences[i] <= mailbox.frame.sequence
        BY <1>3 DEF ShownInv
    <2>2. mailbox.frame.sequence < s
        <3>1. Before(Shown(p), Taken(p))
            BY DEF OrderInv, OrderedOn
        <3>2. Shown(p) = mailbox.frame /\ Taken(p) # NoPacket /\ Taken(p).sequence = s
            BY <1>1, <1>2 DEF Shown, Taken
        <3>q. QED BY <2>1, <3>1, <3>2 DEF Before
    <2>3. mailbox.frame.sequence \in Nat /\ mailbox.sequences[i] \in Nat /\ s \in Nat
        BY <1>3, <2>1, StreamAssumption DEF ReaderInv, Known, ShownInv
    <2>q. QED BY <1>1, <1>2, <1>3, <2>1, <2>2, <2>3 DEF Accepts
<1>4. CASE i \notin DOMAIN mailbox.sequences
    <2>1. IsFiniteSet(DOMAIN history) /\ Cardinality(DOMAIN history) <= MaxIdentities
        <3>1. IsFiniteSet(Generations)
            BY FS_Interval, StreamAssumption DEF Generations
        <3>q. QED BY <3>1, FS_Subset DEF LoopInv
    <2>2. DOMAIN mailbox.sequences \union {i} \subseteq DOMAIN history
        BY DEF ShownInv
    <2>3. IsFiniteSet(DOMAIN mailbox.sequences)
        BY <2>1, <2>2, FS_Subset
    <2>4. /\ Cardinality(DOMAIN mailbox.sequences \union {i})
               = Cardinality(DOMAIN mailbox.sequences) + 1
          /\ Cardinality(DOMAIN mailbox.sequences) \in Nat
        BY <1>4, <2>3, FS_AddElement, FS_CardinalityType
    <2>5. /\ Cardinality(DOMAIN mailbox.sequences \union {i}) <= Cardinality(DOMAIN history)
          /\ Cardinality(DOMAIN history) \in Nat
        BY <2>1, <2>2, FS_Subset, FS_CardinalityType
    <2>6. Cardinality(DOMAIN mailbox.sequences) < MaxIdentities
        BY <2>1, <2>4, <2>5, HistoryAssumption
    <2>q. QED BY <1>1, <1>2, <1>4, <2>6 DEF Accepts
<1>q. QED BY <1>3, <1>4

\* So PublishFrame shows it.
LEMMA FrameShown ==
    ASSUME LoopInv, ReaderInv, ShownInv, OrderInv, NEW p \in Peers, PublishFrame(p)
    PROVE  /\ workers[p].pc = "publish" /\ p = connection /\ running
           /\ workers[p].generation = mailbox.generation
           /\ workers[p].packet \in Known \ {NoPacket}
           /\ mailbox' \in [frame : {workers[p].packet}, from : {p}, revision : Nat,
                            generation : {mailbox.generation},
                            sequences : {Record(mailbox.sequences, workers[p].packet)}]
           /\ workers' = [workers EXCEPT ![p].pc = "read", ![p].packet = NoPacket]
           /\ status' = "receiving" /\ UNCHANGED <<stop, running, connection, xr>>
           /\ HeadsetStep
<1>1. /\ workers[p].pc = "publish" /\ HeadsetStep
    BY DEF PublishFrame, Receiver!PublishFrame, Receiver!At
<1>2. /\ p = connection /\ running /\ workers[p].generation = mailbox.generation
      /\ workers[p].packet \in Known \ {NoPacket}
      /\ Accepts(mailbox.sequences, workers[p].packet)
    BY <1>1, FrameAccepted
<1>3. Receiver!Publishable(mailbox, workers[p].packet, workers[p].generation)
    BY <1>2, OneHistory DEF Receiver!Publishable
<1>4. /\ mailbox' = Receiver!Published(mailbox, workers[p].packet, p)
      /\ workers' = [workers EXCEPT ![p].pc = "read", ![p].packet = NoPacket]
      /\ status' = "receiving" /\ UNCHANGED <<stop, running, connection, xr>>
    BY <1>3 DEF PublishFrame, Receiver!PublishFrame
<1>5. Receiver!Record(mailbox.sequences, workers[p].packet)
        = Record(mailbox.sequences, workers[p].packet)
    BY OneHistory
<1>6. mailbox' \in [frame : {workers[p].packet}, from : {p}, revision : Nat,
                    generation : {mailbox.generation},
                    sequences : {Record(mailbox.sequences, workers[p].packet)}]
    <2>1. mailbox \in [frame : Known, from : Peers \union {NoPeer}, generation : Nat,
                       revision : Nat, sequences : {mailbox.sequences}]
        BY DEF ReaderInv
    <2> DEFINE r == IF mailbox.frame = NoPacket THEN mailbox.revision + 1
                    ELSE IF mailbox.frame.identity # workers[p].packet.identity
                         THEN mailbox.revision + 1 ELSE mailbox.revision
    <2>2. mailbox' = [mailbox EXCEPT !.frame = workers[p].packet, !.from = p,
                                     !.sequences = Record(mailbox.sequences, workers[p].packet),
                                     !.revision = r]
        BY <1>4, <1>5, Zenon DEF Receiver!Published
    <2>3. r \in Nat
        BY <2>1
    <2> HIDE DEF r
    <2>q. QED BY <2>1, <2>2, <2>3
<1>q. QED BY <1>1, <1>2, <1>4, <1>6

ReaderStep(p) == Connected(p) \/ Read(p) \/ PublishFrame(p) \/ WorkerFails(p)

\* The steps of the headset.
LEMMA HeadsetSteps ==
    ASSUME StreamNext
    PROVE  \/ Connect \/ Disconnect \/ StopReturns \/ StartWorker
           \/ \E p \in Peers : ReaderStep(p)
           \/ UNCHANGED receiverVars
<1> USE DEF HostStep, publisherVars, loopVars, channelVars
<1>1. CASE Headset
    BY <1>1 DEF Headset, Worker, Dial, ReaderStep, receiverVars
<1>2. CASE \/ TakeClear \/ ClearMap \/ PublishBatch \/ Observe \/ EndStream \/ ClosePublisher
           \/ RequestClear \/ Feedback
    BY <1>2 DEF TakeClear, ClearMap, PublishBatch, Observe, EndStream, ClosePublisher,
       RequestClear, Feedback
<1>3. CASE Accept \/ Admit \/ AcceptorEnds \/ \E p \in Peers : Proceed(p) \/ Break(p)
    BY <1>3 DEF Accept, Admit, AcceptorEnds, Proceed, Break
<1>q. QED BY <1>1, <1>2, <1>3, Zenon DEF StreamNext

\* The headset's steps keep its part, whatever the host does meanwhile.
LEMMA ReaderHolds ==
    ASSUME LoopInv, ThreadsInv, ReaderInv, ShownInv, OrderInv, StreamNext
    PROVE  ReaderInv'
<1> DEFINE Workers == [pc : {"none", "connect", "read", "publish", "done"}, generation : Nat,
                       packet : Known']
           Mailboxes == [frame : Known', from : Peers \union {NoPeer}, generation : Nat,
                         revision : Nat, sequences : {mailbox.sequences}]
<1>1. Known \subseteq Known' /\ NoPacket \in Known
    BY KnownGrows DEF Known
<1>2. \A p \in Peers : workers[p].pc = "none" => serving'[p] = "idle"
    BY IdleUntilDialled DEF ReaderInv
<1>3. workers \in [Peers -> Workers] /\ mailbox \in Mailboxes
    BY <1>1 DEF ReaderInv
<1> USE StreamAssumption DEF ReaderInv, HeadsetInv, HeadsetNeverRejects, OneReader,
        ShownCameFromHere, Reads, Receiver!Statuses
<1>4. CASE Connect \/ Disconnect
    BY <1>1, <1>2, <1>3, <1>4 DEF Connect, Disconnect, Receiver!StopReceiver
<1>5. CASE StopReturns
    BY <1>1, <1>2, <1>5 DEF StopReturns, Receiver!StopReturns, Receiver!Joined
<1>6. CASE StartWorker
    <2>1. PICK c \in Peers : workers[c].pc = "none" /\ Receiver!StartWorker(c) /\ HeadsetStep
        BY <1>6 DEF StartWorker
    <2>2. /\ mailbox' \in [frame : {NoPacket}, from : {NoPeer}, generation : {mailbox.generation + 1},
                           revision : {0}, sequences : {EmptyHistory}]
        BY <2>1, OneHistory DEF Receiver!StartWorker, Receiver!Retired
    <2>3. \A p \in Peers : ~Reads(p)
        BY <2>1 DEF Receiver!StartWorker, Receiver!Joined
    <2>4. /\ workers' = [workers EXCEPT ![c] = [pc |-> "connect", packet |-> NoPacket,
                                              generation |-> mailbox.generation + 1]]
          /\ c \in Peers /\ connection' = c /\ running' = TRUE /\ stop' = FALSE /\ xr' = "idle"
          /\ status' = "connecting"
        BY <2>1, <2>2 DEF Receiver!StartWorker
    <2>5. workers' \in [Peers -> Workers] /\ \A p \in Peers : p # c => workers'[p] = workers[p]
        BY <1>1, <1>3, <2>1, <2>4
    <2>6. /\ workers'[c].pc = "connect" /\ workers'[c].packet = NoPacket
          /\ workers'[c].generation = mailbox'.generation
        BY <1>3, <2>2, <2>4
    <2>7. /\ mailbox' \in [frame : Known', from : Peers \union {NoPeer}, generation : Nat,
                           revision : Nat, sequences : {mailbox'.sequences}]
          /\ mailbox'.frame = NoPacket
        BY <1>1, <1>3, <2>2
    <2>8. \A p \in Peers : /\ Reads(p)' => p = c /\ workers'[p].generation = mailbox'.generation
                           /\ workers'[p].pc = "none" => serving'[p] = "idle"
                           /\ workers'[p].pc = "publish" <=> workers'[p].packet # NoPacket
        BY <1>2, <2>3, <2>5, <2>6
    <2>9. status' # "rejected" /\ status' \in Receiver!Statuses
        BY <2>4
    <2> HIDE DEF Workers
    <2>10. workers' \in [Peers -> [pc : {"none", "connect", "read", "publish", "done"},
                                  generation : Nat, packet : Known']]
        BY <2>5 DEF Workers
    <2>11. HeadsetInv'
        <3>1. running'
            BY <2>4, Zenon
        <3>2. OneReader'
            BY <2>4, <2>8, <3>1
        <3>3. ShownCameFromHere'
            BY <2>7
        <3>q. QED BY <2>9, <3>2, <3>3
    <2>12. /\ stop' \in BOOLEAN /\ running' \in BOOLEAN /\ connection' \in Peers \union {NoPeer}
           /\ xr' \in {"idle", "starting", "stopping"}
        BY <2>4
    <2> HIDE DEF HeadsetInv, Receiver!Statuses
    <2>q. QED BY <2>7, <2>8, <2>9, <2>10, <2>11, <2>12
<1>7. ASSUME NEW c \in Peers, ReaderStep(c) PROVE ReaderInv'
    <2>1. CASE Connected(c)
        BY <1>1, <1>2, <2>1 DEF Connected, Receiver!Connected, Receiver!At, Receiver!Goes
    <2>2. CASE Read(c)
        <3>1. Head(socket[c]) \in Known \ {NoPacket}
            BY <2>2 DEF Read, OrderInv
        <3>2. /\ workers[c].pc = "read" /\ UNCHANGED <<mailbox, stop, running, connection, status, xr>>
              /\ workers' = [workers EXCEPT ![c].pc = "publish", ![c].packet = Head(socket[c])]
            BY <2>2 DEF Read, Receiver!ReadFrame, Receiver!At
        <3>q. QED BY <1>1, <1>2, <3>1, <3>2
    <2>3. CASE PublishFrame(c)
        <3>1. /\ workers[c].pc = "publish" /\ c = connection /\ running
              /\ workers[c].generation = mailbox.generation /\ workers[c].packet \in Known \ {NoPacket}
              /\ workers' = [workers EXCEPT ![c].pc = "read", ![c].packet = NoPacket]
              /\ status' = "receiving" /\ UNCHANGED <<stop, running, connection, xr>>
            BY <2>3, FrameShown
        <3>2. /\ mailbox'.frame = workers[c].packet /\ mailbox'.from = c
              /\ mailbox'.generation = mailbox.generation
              /\ mailbox' \in [frame : Known', from : Peers \union {NoPeer}, generation : Nat,
                               revision : Nat, sequences : {mailbox'.sequences}]
            <4>1. mailbox' \in [frame : {workers[c].packet}, from : {c}, revision : Nat,
                                generation : {mailbox.generation},
                                sequences : {Record(mailbox.sequences, workers[c].packet)}]
                BY <2>3, FrameShown
            <4>q. QED BY <1>1, <1>3, <3>1, <4>1
        <3>q. QED BY <1>1, <1>2, <1>3, <3>1, <3>2
    <2>4. CASE WorkerFails(c)
        <3>1. /\ workers' \in [Peers -> [pc : {"none", "connect", "read", "publish", "done"},
                                       generation : Nat, packet : Known']]
              /\ workers'[c].pc = "done" /\ workers'[c].packet = NoPacket
              /\ \A p \in Peers : p # c => workers'[p] = workers[p]
            BY <1>1, <1>2, <2>4
               DEF WorkerFails, Receiver!WorkerFails, Receiver!At, Receiver!Exits,
               Receiver!NoWorker
        <3>2. /\ UNCHANGED <<mailbox, stop, connection, xr>> /\ running' = FALSE
              /\ status' \in {status, "failed"} /\ workers[c].pc # "none" /\ Reads(c)
            BY <1>1, <2>4, <3>1
               DEF WorkerFails, Receiver!WorkerFails, Receiver!At, Receiver!Exits
        <3>3. /\ \A p \in Peers : Reads(p)' => Reads(p) /\ p # c
              /\ \A p \in Peers : workers'[p].pc = "publish" <=> workers'[p].packet # NoPacket
              /\ \A p \in Peers : workers'[p].pc = "none" => workers[p].pc = "none"
            BY <3>1
        <3>4. \A p \in Peers : ~Reads(p)'
            BY <3>2, <3>3
        <3>q. QED BY <1>1, <1>2, <3>1, <3>2, <3>3, <3>4
    <2>q. QED BY <1>7, <2>1, <2>2, <2>3, <2>4, Zenon DEF ReaderStep
<1>8. CASE UNCHANGED receiverVars
    BY <1>1, <1>2, <1>8 DEF receiverVars
<1>q. QED BY <1>4, <1>5, <1>6, <1>7, <1>8, HeadsetSteps, Zenon

\* The mailbox's history never has more than the host's.
LEMMA ShownHolds ==
    ASSUME LoopInv, ReaderInv, ShownInv, OrderInv, StreamNext
    PROVE  ShownInv'
<1>1. DOMAIN history \subseteq DOMAIN history'
    BY KnownGrows
<1>2. CASE UNCHANGED mailbox
    BY <1>1, <1>2 DEF ShownInv
<1>3. CASE StartWorker
    <2>1. mailbox'.sequences = EmptyHistory
        BY <1>3, OneHistory
           DEF StartWorker, Receiver!StartWorker, Receiver!Retired, ReaderInv
    <2>2. DOMAIN mailbox'.sequences = {} /\ mailbox'.sequences \in [{} -> Nat]
        BY <2>1 DEF EmptyHistory
    <2>q. QED BY <2>2 DEF ShownInv
<1>4. ASSUME NEW p \in Peers, PublishFrame(p) PROVE ShownInv'
    <2> DEFINE new == workers[p].packet
    <2>1. /\ mailbox'.frame = new /\ mailbox'.sequences = Record(mailbox.sequences, new)
          /\ p = connection /\ new \in Known \ {NoPacket}
        BY <1>4, FrameShown
    <2>2. new.identity \in DOMAIN history /\ new.sequence \in Nat
        BY <2>1, StreamAssumption DEF Known
    <2>3. mailbox.frame # NoPacket
            => mailbox.frame.sequence < new.sequence /\ mailbox.frame.sequence \in Nat
        <3>1. Before(Shown(p), Taken(p))
            BY DEF OrderInv, OrderedOn
        <3>q. QED BY <2>1, <3>1, StreamAssumption DEF Before, Shown, Taken, ReaderInv, Known
    <2>4. \A i \in DOMAIN mailbox.sequences :
            mailbox.sequences[i] \in Nat /\ mailbox.sequences[i] <= new.sequence
        BY <2>2, <2>3 DEF ShownInv
    <2> HIDE DEF new
    <2>5. /\ DOMAIN mailbox'.sequences = DOMAIN mailbox.sequences \union {new.identity}
          /\ mailbox'.sequences \in [DOMAIN mailbox'.sequences -> Nat]
          /\ \A i \in DOMAIN mailbox'.sequences : mailbox'.sequences[i] <= new.sequence
        BY <2>1, <2>2, <2>4 DEF Record
    <2>q. QED BY <1>1, <2>1, <2>2, <2>5 DEF ShownInv
<1>5. ASSUME NEW p \in Peers, Connected(p) \/ Read(p) \/ WorkerFails(p) PROVE UNCHANGED mailbox
    BY <1>5 DEF Connected, Receiver!Connected, Read, Receiver!ReadFrame, WorkerFails,
       Receiver!WorkerFails
<1>6. ASSUME Connect \/ Disconnect \/ StopReturns PROVE UNCHANGED mailbox
    BY <1>6
       DEF Connect, Disconnect, Receiver!StopReceiver, StopReturns, Receiver!StopReturns
<1>q. QED BY <1>2, <1>3, <1>4, <1>5, <1>6, HeadsetSteps DEF ReaderStep, receiverVars

(***************************************************************************)
(* The order of what a connection carries                                  *)
(***************************************************************************)
carriedVars == <<version, serving, seen, held, socket, workers, connection, mailbox>>

\* The steps that touch what is on its way.
LEMMA CarryingSteps ==
    ASSUME LoopInv, StreamNext
    PROVE  \/ version' = version + 1 /\ UNCHANGED <<serving, seen, held, socket, receiverVars>>
           \/ Publisher!CloseListener /\ UNCHANGED receiverVars
           \/ \E p \in Peers : ThreadStep(p) /\ UNCHANGED receiverVars
           \/ \E p \in Peers : Dial(p) \/ ReaderStep(p)
           \/ StopReturns \/ StartWorker
           \/ UNCHANGED carriedVars
<1> USE DEF HostStep, HeadsetStep, publisherVars, receiverVars, loopVars, channelVars, carriedVars
<1>1. CASE PublishBatch \/ EndStream
    BY <1>1 DEF PublishBatch, EndStream, Publisher!PublishAccepted, Publisher!RequestStop
<1>2. CASE TakeClear \/ ClearMap \/ Observe \/ RequestClear \/ Feedback
    BY <1>2 DEF TakeClear, ClearMap, Observe, RequestClear, Feedback
<1>3. CASE ClosePublisher
    BY <1>3
       DEF ClosePublisher, Publisher!Closing, Publisher!CopyThreads, Publisher!ShutClient,
       Publisher!Join
<1>4. CASE Accept \/ Admit \/ AcceptorEnds
    BY <1>4 DEF Accept, Admit, AcceptorEnds, ThreadStep, Publisher!AcceptorEnds
<1>5. CASE \E p \in Peers : Proceed(p) \/ Break(p)
    BY <1>5 DEF Proceed, Break, Publisher!Proceed, ThreadStep
<1>6. CASE Connect \/ Disconnect
    BY <1>6 DEF Connect, Disconnect, Receiver!StopReceiver
<1>7. CASE \E c \in Peers : Worker(c) \/ WorkerFails(c)
    BY <1>7, Zenon DEF Worker, ReaderStep
<1>q. QED BY <1>1, <1>2, <1>3, <1>4, <1>5, <1>6, <1>7, Zenon DEF StreamNext, Headset

\* Nothing changes for a connection by a step of another.
LEMMA OrderedElsewhere ==
    ASSUME NEW p \in Peers, OrderedOn(p), version' = version,
           serving'[p] = serving[p], seen'[p] = seen[p], held'[p] = held[p],
           socket'[p] = socket[p], Taken(p)' = Taken(p), Shown(p)' \in {Shown(p), NoPacket}
    PROVE  OrderedOn(p)'
<1>1. Sent(p)' = Sent(p)
    BY DEF Sent
<1>q. QED BY <1>1 DEF OrderedOn, Before, Published

\* The carried packets keep their types when they only move.
LEMMA CarriedTypes ==
    ASSUME LoopInv, StreamNext, OrderInv
    PROVE  /\ seen \in [Peers -> Nat] /\ held \in [Peers -> Known']
           /\ socket \in [Peers -> Seq(Known' \ {NoPacket})]
           /\ \A p \in Peers : Shown(p) \in Known => Shown(p) \in Known'
<1>1. Known \subseteq Known'
    BY KnownGrows
<1>2. \A s \in Seq(Known \ {NoPacket}) : s \in Seq(Known' \ {NoPacket})
    BY <1>1
<1>q. QED BY <1>1, <1>2 DEF OrderInv

\* A thread sends its packets in the order they were published.
LEMMA ThreadsSendInOrder ==
    ASSUME LoopInv, ThreadsInv, ReaderInv, OrderInv, StreamNext,
           NEW p \in Peers, ThreadStep(p), UNCHANGED receiverVars
    PROVE  OrderInv'
<1>1. /\ \A q \in Peers : OrderedOn(q)
      /\ seen \in [Peers -> Nat] /\ held \in [Peers -> Known'] /\ wire \in Known'
      /\ socket \in [Peers -> Seq(Known' \ {NoPacket})]
      /\ NoPacket \in Known' /\ version \in Nat
    BY CarriedTypes, KnownGrows DEF OrderInv, LoopInv, Known
<1>2. \A q \in Peers : Taken(q)' = Taken(q) /\ Shown(q)' = Shown(q)
    BY DEF receiverVars, Taken, Shown
<1>3. serving \in [Peers -> Publisher!ServingStates]
    BY DEF ThreadsInv
<1>4. /\ version' = version /\ wire' = wire
      /\ \A q \in Peers \ {p} : /\ serving'[q] = serving[q] /\ seen'[q] = seen[q]
                                /\ held'[q] = held[q] /\ socket'[q] = socket[q]
    BY <1>1, <1>3 DEF ThreadStep, Publisher!AcceptPeer, Publisher!Admit, Publisher!Wrap,
       Publisher!Register, Publisher!Authenticate, Publisher!Pick, Publisher!Send, Publisher!Leave,
       Publisher!Break, Publisher!Moves
<1>5. \A q \in Peers \ {p} : OrderedOn(q)'
    BY <1>1, <1>2, <1>4, OrderedElsewhere
<1>6. SUFFICES /\ OrderedOn(p)'
               /\ seen' \in [Peers -> Nat] /\ held' \in [Peers -> Known']
               /\ socket' \in [Peers -> Seq(Known' \ {NoPacket})]
    BY <1>5 DEF OrderInv
<1>7. /\ Published(p, Shown(p)) /\ Published(p, Taken(p)) /\ Published(p, Sent(p))
      /\ Published(p, held[p]) /\ seen[p] <= version /\ Len(socket[p]) <= 1
      /\ Before(Shown(p), Taken(p)) /\ Before(Shown(p), Sent(p)) /\ Before(Shown(p), held[p])
      /\ Before(Taken(p), Sent(p)) /\ Before(Taken(p), held[p]) /\ Before(Sent(p), held[p])
    BY <1>1 DEF OrderedOn
<1>8. CASE Publisher!AcceptPeer(p)
    BY <1>1, <1>2, <1>4, <1>8, OrderedElsewhere DEF Publisher!AcceptPeer
<1>9. CASE /\ serving[p] \in {"dialing", "wrap", "register", "handshake"}
           /\ serving'[p] # "send" /\ UNCHANGED <<seen, held, socket>>
    <2>1. /\ Shown(p)' = NoPacket /\ Taken(p)' = NoPacket /\ Sent(p)' = NoPacket
          /\ held'[p] = NoPacket /\ seen'[p] <= version' /\ Len(socket'[p]) <= 1
        BY <1>1, <1>2, <1>4, <1>9 DEF OrderedOn, Sent
    <2>q. QED BY <1>1, <1>9, <2>1 DEF OrderedOn, Before, Published
<1>10. CASE Publisher!Pick(p)
    <2>1. CASE stopping
        <3>1. serving'[p] = "closing" /\ UNCHANGED <<seen, held, socket>>
            BY <1>3, <1>10, <2>1 DEF Publisher!Pick, Publisher!Moves
        <3>q. QED BY <1>1, <1>2, <1>4, <1>7, <3>1 DEF OrderedOn, Published, Sent
    <2>2. CASE ~stopping
        <3>1. /\ serving[p] = "wait" /\ serving'[p] = "send" /\ seen[p] # version
              /\ seen' = [seen EXCEPT ![p] = version] /\ held' = [held EXCEPT ![p] = wire]
              /\ UNCHANGED socket
            BY <1>3, <1>10, <2>2 DEF Publisher!Pick, Publisher!Moves
        <3>2. wire # NoPacket /\ wire.sequence = version
            BY <1>1, <1>7, <3>1 DEF LoopInv, OrderInv
        <3>3. seen'[p] = version /\ held'[p] = wire /\ Sent(p)' = Sent(p)
            BY <1>1, <3>1 DEF Sent
        <3>4. OrderedOn(p)'
            BY <1>1, <1>2, <1>4, <1>7, <3>1, <3>2, <3>3 DEF OrderedOn, Published, Before
        <3>q. QED BY <1>1, <3>1, <3>4
    <2>q. QED BY <2>1, <2>2
<1>11. CASE Publisher!Send(p)
    <2>1. /\ serving[p] = "send" /\ serving'[p] = "wait" /\ socket[p] = <<>>
          /\ socket' = [socket EXCEPT ![p] = Append(socket[p], held[p])]
          /\ held' = [held EXCEPT ![p] = NoPacket] /\ UNCHANGED seen
        BY <1>3, <1>11 DEF Publisher!Send, Publisher!Moves
    <2>2. held[p] \in Known' \ {NoPacket}
        BY <1>1, <2>1 DEF OrderedOn
    <2>3. socket'[p] = <<held[p]>> /\ held'[p] = NoPacket /\ socket'[p] \in Seq(Known' \ {NoPacket})
        BY <1>1, <2>1, <2>2
    <2>4. Sent(p)' = held[p] /\ Len(socket'[p]) = 1
        BY <2>3 DEF Sent
    <2>5. OrderedOn(p)'
        BY <1>1, <1>2, <1>4, <1>7, <2>1, <2>3, <2>4 DEF OrderedOn, Published, Before
    <2>6. socket' \in [Peers -> Seq(Known' \ {NoPacket})] /\ held' \in [Peers -> Known']
        BY <1>1, <2>1, <2>3
    <2>q. QED BY <1>1, <2>1, <2>5, <2>6
<1>12. CASE Publisher!Leave(p)
    <2>1. /\ serving'[p] = "done" /\ seen' = [seen EXCEPT ![p] = 0]
          /\ held' = [held EXCEPT ![p] = NoPacket] /\ UNCHANGED socket
        BY <1>3, <1>12 DEF Publisher!Leave, Publisher!Moves
    <2>2. seen'[p] = 0 /\ held'[p] = NoPacket /\ Sent(p)' = Sent(p)
        BY <1>1, <2>1 DEF Sent
    <2>3. OrderedOn(p)'
        BY <1>1, <1>2, <1>4, <1>7, <2>1, <2>2 DEF OrderedOn, Published, Before
    <2>q. QED BY <1>1, <2>1, <2>3
<1>13. CASE Publisher!Break(p) /\ serving[p] = "send"
    <2>1. serving'[p] = "closing" /\ UNCHANGED <<seen, held, socket>>
        BY <1>3, <1>13 DEF Publisher!Break
    <2>q. QED BY <1>1, <1>2, <1>4, <1>7, <2>1 DEF OrderedOn, Published, Sent
<1>14. ASSUME \/ Publisher!Admit(p) \/ Publisher!Wrap(p) \/ Publisher!Register(p)
              \/ Publisher!Authenticate(p)
              \/ Publisher!Break(p) /\ serving[p] # "send"
       PROVE  /\ serving[p] \in {"dialing", "wrap", "register", "handshake"}
              /\ serving'[p] # "send" /\ UNCHANGED <<seen, held, socket>>
    BY <1>3, <1>14
       DEF Publisher!Admit, Publisher!Wrap, Publisher!Register, Publisher!Authenticate,
       Publisher!Break, Publisher!Moves, ThreadsInv
<1>15. CASE \/ Publisher!Admit(p) \/ Publisher!Wrap(p) \/ Publisher!Register(p)
            \/ Publisher!Authenticate(p)
    BY <1>9, <1>14, <1>15
<1>16. CASE Publisher!Break(p)
    BY <1>9, <1>13, <1>14, <1>16
<1>q. QED BY <1>8, <1>10, <1>11, <1>12, <1>15, <1>16, Zenon DEF ThreadStep

\* The worker takes and shows what the connection brings in its order.
LEMMA ReaderTakesInOrder ==
    ASSUME LoopInv, ThreadsInv, ReaderInv, ShownInv, OrderInv, StreamNext,
           NEW p \in Peers, Dial(p) \/ ReaderStep(p)
    PROVE  OrderInv'
<1>1. /\ \A q \in Peers : OrderedOn(q)
      /\ seen \in [Peers -> Nat] /\ held \in [Peers -> Known']
      /\ socket \in [Peers -> Seq(Known' \ {NoPacket})] /\ NoPacket \in Known'
    BY CarriedTypes, KnownGrows DEF OrderInv, Known
<1>2. /\ serving \in [Peers -> Publisher!ServingStates]
      /\ workers \in [Peers -> [pc : {"none", "connect", "read", "publish", "done"},
                                generation : Nat, packet : Known]]
    BY DEF ThreadsInv, ReaderInv
<1>3. /\ version' = version /\ UNCHANGED <<seen, held, connection>>
      /\ \A q \in Peers \ {p} : /\ serving'[q] = serving[q] /\ socket'[q] = socket[q]
                                /\ workers'[q] = workers[q]
    BY <1>1, <1>2 DEF Dial, ReaderStep, Connected, Read, PublishFrame, WorkerFails,
       Receiver!Connected, Receiver!ReadFrame, Receiver!PublishFrame, Receiver!WorkerFails,
       Receiver!Exits, Receiver!Goes, HeadsetStep, publisherVars, receiverVars
<1>4. \A q \in Peers \ {p} : Shown(q)' \in {Shown(q), NoPacket}
    <2>1. CASE PublishFrame(p)
        <3>1. p = connection /\ connection' = connection
            BY <1>3, <2>1, FrameShown
        <3>q. QED BY <3>1 DEF Shown
    <2>2. CASE mailbox' = mailbox
        BY <1>3, <2>2 DEF Shown
    <2>q. QED BY <2>1, <2>2 DEF ReaderStep, Dial, Connected, Read, WorkerFails, receiverVars,
              Receiver!Connected, Receiver!ReadFrame, Receiver!WorkerFails
<1>5. \A q \in Peers \ {p} : OrderedOn(q)'
    BY <1>1, <1>3, <1>4, OrderedElsewhere DEF Taken
<1>6. /\ Published(p, Shown(p)) /\ Published(p, Taken(p)) /\ Published(p, Sent(p))
      /\ Published(p, held[p]) /\ seen[p] <= version /\ Len(socket[p]) <= 1
      /\ Before(Shown(p), Taken(p)) /\ Before(Shown(p), Sent(p)) /\ Before(Shown(p), held[p])
      /\ Before(Taken(p), Sent(p)) /\ Before(Taken(p), held[p]) /\ Before(Sent(p), held[p])
    BY <1>1 DEF OrderedOn
<1>7. CASE Dial(p)
    <2>1. /\ serving[p] = "idle" /\ serving'[p] = "dialing"
          /\ UNCHANGED <<socket, workers, mailbox>>
        BY <1>2, <1>7 DEF Dial, receiverVars
    <2>2. /\ Shown(p)' = NoPacket /\ Taken(p)' = NoPacket /\ Sent(p)' = NoPacket
          /\ held'[p] = NoPacket
        BY <1>1, <1>3, <2>1 DEF OrderedOn, Shown, Taken, Sent
    <2>q. QED BY <1>1, <1>3, <1>5, <1>6, <2>1, <2>2 DEF OrderInv, OrderedOn, Before, Published
<1>8. CASE Connected(p)
    <2>1. UNCHANGED <<serving, socket, mailbox>> /\ Taken(p)' = Taken(p)
        BY <1>2, <1>8
           DEF Connected, Receiver!Connected, Receiver!Goes, HeadsetStep, publisherVars,
           Taken
    <2>q. QED BY <1>1, <1>3, <1>5, <2>1, OrderedElsewhere DEF OrderInv, Shown
<1>9. CASE Read(p)
    <2>1. /\ socket[p] # <<>> /\ workers[p].pc = "read" /\ UNCHANGED <<serving, mailbox>>
          /\ workers' = [workers EXCEPT ![p].pc = "publish", ![p].packet = Head(socket[p])]
          /\ socket' = [socket EXCEPT ![p] = Tail(socket[p])]
        BY <1>9 DEF Read, Receiver!ReadFrame, Receiver!At
    <2>2. Taken(p)' = Sent(p)
        BY <1>2, <2>1 DEF Taken, Sent
    <2>3. socket'[p] = <<>> /\ socket' \in [Peers -> Seq(Known' \ {NoPacket})]
        BY <1>1, <1>6, <2>1
    <2>4. Sent(p)' = NoPacket /\ Len(socket'[p]) = 0 /\ Sent(p) # NoPacket /\ Shown(p)' = Shown(p)
        <3>1. Head(socket[p]) \in Known' \ {NoPacket}
            BY <1>1, <2>1
        <3>q. QED BY <1>3, <2>1, <2>3, <3>1 DEF Sent, Shown
    <2>5. OrderedOn(p)'
        BY <1>1, <1>3, <1>6, <2>1, <2>2, <2>4 DEF OrderedOn, Before, Published
    <2>q. QED BY <1>1, <1>3, <1>5, <2>3, <2>5 DEF OrderInv
<1>10. CASE PublishFrame(p)
    <2>1. /\ p = connection /\ mailbox'.frame = workers[p].packet
          /\ workers' = [workers EXCEPT ![p].pc = "read", ![p].packet = NoPacket]
          /\ UNCHANGED <<serving, socket>>
        BY <1>10, FrameShown DEF HeadsetStep, publisherVars
    <2>2. Shown(p)' = Taken(p) /\ Taken(p)' = NoPacket /\ Sent(p)' = Sent(p)
        BY <1>2, <1>3, <2>1 DEF Shown, Taken, Sent
    <2>3. OrderedOn(p)'
        BY <1>1, <1>3, <1>6, <2>1, <2>2 DEF OrderedOn, Before, Published
    <2>q. QED BY <1>1, <1>3, <1>5, <2>1, <2>3 DEF OrderInv
<1>11. CASE WorkerFails(p)
    <2>1. /\ workers' = [workers EXCEPT ![p] = [Receiver!NoWorker EXCEPT !.pc = "done"]]
          /\ UNCHANGED <<serving, socket, mailbox>>
        BY <1>11
           DEF WorkerFails, Receiver!WorkerFails, Receiver!Exits, HeadsetStep,
               publisherVars
    <2>2. Shown(p)' = Shown(p) /\ Taken(p)' = NoPacket /\ Sent(p)' = Sent(p)
        BY <1>2, <1>3, <2>1 DEF Shown, Taken, Sent, Receiver!NoWorker
    <2>3. OrderedOn(p)'
        BY <1>1, <1>3, <1>6, <2>1, <2>2 DEF OrderedOn, Before, Published
    <2>q. QED BY <1>1, <1>3, <1>5, <2>1, <2>3 DEF OrderInv
<1>q. QED BY <1>7, <1>8, <1>9, <1>10, <1>11, Zenon DEF ReaderStep

\* Every step keeps the order.
LEMMA OrderHolds ==
    ASSUME LoopInv, ThreadsInv, ReaderInv, ShownInv, OrderInv, StreamNext
    PROVE  OrderInv'
<1>1. /\ \A q \in Peers : OrderedOn(q)
      /\ seen \in [Peers -> Nat] /\ held \in [Peers -> Known']
      /\ socket \in [Peers -> Seq(Known' \ {NoPacket})]
    BY CarriedTypes DEF OrderInv
<1>2. CASE version' = version + 1 /\ UNCHANGED <<serving, seen, held, socket, receiverVars>>
    <2>1. ASSUME NEW q \in Peers PROVE OrderedOn(q)'
        <3>1. OrderedOn(q) /\ version \in Nat /\ seen[q] \in Nat
            BY <1>1 DEF LoopInv
        <3>2. /\ Shown(q)' = Shown(q) /\ Taken(q)' = Taken(q) /\ Sent(q)' = Sent(q)
              /\ held'[q] = held[q] /\ seen'[q] = seen[q] /\ socket'[q] = socket[q]
              /\ serving'[q] = serving[q]
            BY <1>2 DEF receiverVars, Shown, Taken, Sent
        <3>3. \A a : Published(q, a) /\ (a # NoPacket => a.sequence \in Nat) => Published(q, a)'
            BY <1>2, <3>1, <3>2 DEF Published
        <3>4. \A a \in {Shown(q), Taken(q), Sent(q), held[q]} : a # NoPacket => a.sequence \in Nat
            <4>1. Shown(q) \in Known /\ Taken(q) \in Known
                BY DEF ReaderInv, Shown, Taken, Known
            <4>2. held[q] \in Known /\ Sent(q) \in Known
                BY DEF OrderInv, Sent, Known
            <4>q. QED BY <4>1, <4>2, StreamAssumption DEF Known
        <3>q. QED BY <1>2, <3>1, <3>2, <3>3, <3>4 DEF OrderedOn, Before
    <2>q. QED BY <1>1, <1>2, <2>1 DEF OrderInv
<1>3. CASE Publisher!CloseListener /\ UNCHANGED receiverVars
    <2>1. ASSUME NEW q \in Peers PROVE OrderedOn(q)'
        <3>1. /\ UNCHANGED <<version, seen, held, socket>>
              /\ Shown(q)' = Shown(q) /\ Taken(q)' = Taken(q)
            BY <1>3 DEF Publisher!CloseListener, receiverVars, Shown, Taken
        <3>2. \/ serving'[q] = serving[q]
              \/ serving[q] = "dialing" /\ serving'[q] = "done"
            BY <1>3, <2>1 DEF Publisher!CloseListener
        <3>3. CASE serving'[q] = serving[q]
            BY <1>1, <3>1, <3>3, OrderedElsewhere
        <3>4. CASE serving[q] = "dialing" /\ serving'[q] = "done"
            BY <1>1, <3>1, <3>4 DEF OrderedOn, Before, Published, Sent
        <3>q. QED BY <3>2, <3>3, <3>4
    <2>q. QED BY <1>1, <1>3, <2>1 DEF OrderInv, Publisher!CloseListener
<1>4. ASSUME NEW p \in Peers, ThreadStep(p), UNCHANGED receiverVars PROVE OrderInv'
    BY <1>4, ThreadsSendInOrder
<1>5. ASSUME NEW p \in Peers, Dial(p) \/ ReaderStep(p) PROVE OrderInv'
    BY <1>5, ReaderTakesInOrder
<1>6. CASE StopReturns
    <2>1. /\ UNCHANGED publisherVars /\ workers' = workers /\ mailbox' = mailbox
          /\ connection' = NoPeer
        BY <1>6 DEF StopReturns, Receiver!StopReturns, HeadsetStep
    <2>2. \A q \in Peers : OrderedOn(q)'
        BY <1>1, <2>1, OrderedElsewhere, StreamAssumption DEF publisherVars, Shown, Taken
    <2>q. QED BY <1>1, <2>1, <2>2 DEF OrderInv, publisherVars
<1>7. CASE StartWorker
    <2>1. /\ UNCHANGED publisherVars /\ mailbox'.frame = NoPacket
          /\ \A q \in Peers : workers'[q].packet = workers[q].packet
        BY <1>7
           DEF StartWorker, Receiver!StartWorker, Receiver!Retired, HeadsetStep, ReaderInv
    <2>2. \A q \in Peers : OrderedOn(q)'
        BY <1>1, <2>1, OrderedElsewhere DEF publisherVars, Shown, Taken
    <2>q. QED BY <1>1, <2>1, <2>2 DEF OrderInv, publisherVars
<1>8. CASE UNCHANGED carriedVars
    <2>1. \A q \in Peers : OrderedOn(q)'
        BY <1>1, <1>8, OrderedElsewhere DEF carriedVars, Shown, Taken
    <2>q. QED BY <1>1, <1>8, <2>1 DEF OrderInv, carriedVars
<1>q. QED BY <1>2, <1>3, <1>4, <1>5, <1>6, <1>7, <1>8, CarryingSteps, Zenon

(***************************************************************************)
(* Theorems                                                                *)
(***************************************************************************)
\* A stream begins safely.
LEMMA SafeAtFirst ==
    ASSUME StreamInit
    PROVE  Safe
<1> USE StreamAssumption, HistoryAssumption DEF StreamInit, Publisher!PublisherInit,
        Receiver!ReceiverInit, Receiver!NoWorker
<1>1. history = EmptyHistory /\ mailbox.sequences = EmptyHistory /\ DOMAIN EmptyHistory = {}
    BY OneHistory DEF EmptyHistory
<1>2. LoopInv
    <2>1. Cardinality({}) = 0
        BY FS_EmptySet
    <2>2. DOMAIN history = {} /\ Cardinality(DOMAIN history) = 0
        BY <1>1, <2>1
    <2>3. DOMAIN history \subseteq Generations /\ Cardinality(DOMAIN history) <= MaxIdentities
        BY <2>2
    <2>4. wire = NoPacket /\ wire \in Known /\ version = 0
        BY DEF Known
    <2>5. /\ generation = 1 /\ reported = 1 /\ feedback = 1 /\ sequence = 1 /\ 1 \in Generations
          /\ loop = "service" /\ clearRequested = FALSE
        BY DEF Generations
    <2>6. /\ batches \in 1..MaxBatches /\ sequence \in 1..batches + 1
          /\ version \in Nat /\ version <= sequence /\ version <= batches
        BY <2>4, <2>5
    <2>7. /\ feedback <= reported /\ reported <= generation
          /\ sequence = version + 1
        BY <2>4, <2>5
    <2>8. loop # "clear" /\ loop # "observe" /\ ~clearRequested
          /\ loop \in {"service", "clear", "build", "observe", "closing"}
        BY <2>5
    <2>9. /\ generation \in Generations /\ reported \in Generations /\ feedback \in Generations
          /\ sequence <= batches
        BY <2>5, <2>6
    <2>10. clearRequested \in BOOLEAN
        BY <2>5
    <2> HIDE DEF StreamInit, Publisher!PublisherInit, Receiver!ReceiverInit
    <2>q. QED BY <2>3, <2>4, <2>6, <2>7, <2>8, <2>9, <2>10 DEF LoopInv
<1>3. ThreadsInv /\ CloseInv
    BY DEF ThreadsInv, CloseInv, Serving, Publisher!ServingStates, Publisher!CloserStates,
       CloseRaisesOnlyWhileWrapping
<1>4. ReaderInv
    BY DEF ReaderInv, HeadsetInv, HeadsetNeverRejects, OneReader, ShownCameFromHere,
       Reads, Known,
       Receiver!Statuses
<1>5. ShownInv
    BY <1>1 DEF ShownInv
<1>6. OrderInv
    <2>1. \A p \in Peers : /\ Shown(p) = NoPacket /\ Taken(p) = NoPacket /\ Sent(p) = NoPacket
                           /\ held[p] = NoPacket /\ seen[p] = 0 /\ Len(socket[p]) = 0
                           /\ serving[p] = "idle"
        BY DEF Shown, Taken, Sent
    <2>2. \A p \in Peers : OrderedOn(p)
        BY <1>2, <2>1 DEF OrderedOn, Before, Published, LoopInv
    <2>q. QED BY <2>2 DEF OrderInv, Known
<1>q. QED BY <1>2, <1>3, <1>4, <1>5, <1>6 DEF Safe

\* And every step keeps it safe.
LEMMA SafeStep ==
    ASSUME Safe, [StreamNext]_vars
    PROVE  Safe'
<1>1. CASE StreamNext
    BY <1>1, LoopStep, ThreadsStep, CloseStep, ReaderHolds, ShownHolds, OrderHolds DEF Safe
<1>2. CASE UNCHANGED vars
    <2>1. UNCHANGED <<publisherVars, receiverVars, loopVars, channelVars>>
        BY <1>2 DEF vars
    <2>2. Known' = Known /\ UNCHANGED <<version, wire, history>>
        BY <2>1 DEF publisherVars, Known
    <2>3. LoopInv'
        BY <2>1, <2>2 DEF Safe, LoopInv, loopVars, channelVars, Generations
    <2>4. ThreadsInv' /\ CloseInv'
        BY <2>1 DEF Safe, ThreadsInv, CloseInv, Serving, publisherVars, loopVars,
           CloseRaisesOnlyWhileWrapping
    <2>5. ReaderInv' /\ ShownInv'
        BY <2>1, <2>2
           DEF Safe, ReaderInv, ShownInv, receiverVars, publisherVars, HeadsetInv,
           HeadsetNeverRejects, OneReader, ShownCameFromHere, Reads
    <2>6. OrderInv'
        <3>1. \A p \in Peers : OrderedOn(p)'
            BY <2>1, OrderedElsewhere
               DEF Safe, OrderInv, publisherVars, receiverVars, Shown, Taken
        <3>q. QED BY <2>1, <2>2, <3>1 DEF Safe, OrderInv, publisherVars
    <2>q. QED BY <2>3, <2>4, <2>5, <2>6 DEF Safe
<1>q. QED BY <1>1, <1>2

\* Hence it is always safe.
THEOREM StreamSafe == StreamSpec => []Safe
<1>1. StreamInit => Safe
    BY SafeAtFirst
<1>2. Safe /\ [StreamNext]_vars => Safe'
    BY SafeStep
<1>q. QED BY <1>1, <1>2, PTL DEF StreamSpec

\* What the publisher's threads promise (publisher.py: close waits for all it
\* started), for any number of connections.
THEOREM PublisherHolds == StreamSpec => []PublisherInv
<1>1. Safe => PublisherInv
    <2> SUFFICES ASSUME Safe PROVE PublisherInv
        OBVIOUS
    <2>1. Known \subseteq Packets
        BY DEF Safe, LoopInv, Known, Packets, Generations
    <2>2. version \in 0..MaxBatches
        BY StreamAssumption DEF Safe, LoopInv
    <2>3. seen \in [Peers -> 0..version]
        <3>1. \A p \in Peers : seen[p] \in Nat /\ seen[p] <= version
            BY DEF Safe, OrderInv, OrderedOn
        <3>2. \A p \in Peers : seen[p] \in 0..version
            BY <2>2, <3>1
        <3>q. QED BY <3>2 DEF Safe, OrderInv
    <2>4. StreamTypeOK
        BY <2>1, <2>2, <2>3
           DEF Safe, StreamTypeOK, LoopInv, ThreadsInv, ReaderInv, OrderInv, Generations
    <2>5. NoThreadAfterClose
        <3> SUFFICES ASSUME closer = "closed" PROVE NoThreadAfterClose
            BY DEF NoThreadAfterClose
        <3>1. acceptor = "done" /\ threads = {} /\ clients = {}
            BY DEF Safe, ThreadsInv, CloseInv
        <3>2. \A p \in Peers : ~Serving(p) /\ serving[p] # "dialing"
            BY <3>1, StreamAssumption DEF Safe, ThreadsInv, CloseInv
        <3>q. QED BY <3>1, <3>2 DEF NoThreadAfterClose, Safe, ThreadsInv, Serving,
                  Publisher!ServingStates
    <2>q. QED BY <2>4, <2>5 DEF PublisherInv, Safe, CloseInv
<1>q. QED BY <1>1, StreamSafe, PTL

\* The headset reads one connection, rejects nothing its host let through, and
\* shows no frame of another connection (remote_scene_receiver.cpp).
THEOREM HeadsetHolds == StreamSpec => []HeadsetInv
<1>1. Safe => HeadsetInv
    BY DEF Safe, ReaderInv
<1>q. QED BY <1>1, StreamSafe, PTL

\* Frames of one connection are shown in the order they were produced, whatever
\* is skipped, cleared or sent late (RemoteSceneMailbox::Publish).
THEOREM ShownInOrder == StreamSpec => FramesInOrder
<1> DEFINE Newer == mailbox'.generation = mailbox.generation /\ mailbox'.frame # mailbox.frame
                      /\ mailbox.frame # NoPacket
                    => mailbox'.frame.sequence > mailbox.frame.sequence
<1>1. ASSUME Safe, [StreamNext]_vars PROVE [Newer]_mailbox
    <2>1. ASSUME NEW p \in Peers, StreamNext, PublishFrame(p) PROVE Newer
        <3>1. /\ p = connection /\ mailbox'.frame = workers[p].packet
              /\ workers[p].packet \in Known \ {NoPacket}
            BY <1>1, <2>1, FrameShown DEF Safe
        <3>2. Before(Shown(p), Taken(p)) /\ mailbox.frame \in Known
            BY <1>1 DEF Safe, OrderInv, OrderedOn, ReaderInv
        <3>q. QED BY <3>1, <3>2, StreamAssumption DEF Before, Shown, Taken, Known
    <2>2. ASSUME StartWorker PROVE Newer
        BY <1>1, <2>2
           DEF StartWorker, Receiver!StartWorker, Receiver!Retired, Safe, ReaderInv
    <2>3. ASSUME \/ Connect \/ Disconnect \/ StopReturns \/ UNCHANGED receiverVars
                 \/ \E p \in Peers : Connected(p) \/ Read(p) \/ WorkerFails(p)
          PROVE  UNCHANGED mailbox
        BY <2>3
           DEF Connect, Disconnect, Receiver!StopReceiver, StopReturns,
               Receiver!StopReturns,
           Connected, Receiver!Connected, Read, Receiver!ReadFrame, WorkerFails,
           Receiver!WorkerFails, receiverVars
    <2>4. CASE StreamNext
        BY <2>1, <2>2, <2>3, <2>4, HeadsetSteps DEF ReaderStep
    <2>5. CASE UNCHANGED vars
        BY <2>5 DEF vars, receiverVars
    <2>q. QED BY <1>1, <2>4, <2>5
<1>q. QED BY <1>1, StreamSafe, PTL DEF StreamSpec, FramesInOrder

\* The generation in the feedback never falls, though two ways of clearing the
\* map race to report it (gimbal_demo.py: map_generation).
THEOREM GenerationNeverFalls == StreamSpec => FeedbackNeverGoesBack
<1>1. ASSUME Safe, [StreamNext]_vars PROVE [feedback' >= feedback]_feedback
    <2>1. CASE StreamNext
        BY <1>1, <2>1, LoopSteps
           DEF Safe, LoopInv, Generations, TakeClear, ClearMap, PublishBatch,
           Observe, EndStream, RequestClear, Feedback, channelVars
    <2>2. CASE UNCHANGED vars
        BY <2>2 DEF vars, channelVars
    <2>q. QED BY <1>1, <2>1, <2>2
<1>q. QED BY <1>1, StreamSafe, PTL DEF StreamSpec, FeedbackNeverGoesBack

(***************************************************************************)
(* The capture. What makes a pose trustworthy is that a history is a       *)
(* segment of all that was ever measured: a time that a segment brackets   *)
(* is bracketed by the same samples in the whole.                          *)
(***************************************************************************)

Samples == [stamp : Nat, tracked : BOOLEAN]

\* history stands in log from the place after offset on.
StandsAt(poses, log, offset) ==
    /\ offset \in Nat /\ offset + Len(poses) <= Len(log)
    /\ \A i \in 1..Len(poses) : poses[i] = log[offset + i]
Segment(poses, log) == \E offset \in Nat : StandsAt(poses, log, offset)

\* history is what log ends with, and empty only if log is.
EndOf(poses, log) ==
    /\ StandsAt(poses, log, Len(log) - Len(poses))
    /\ poses = <<>> => log = <<>>

(***************************************************************************)
(* Histories                                                               *)
(***************************************************************************)
\* What a history in order is.
LEMMA OrderIs ==
    ASSUME NEW h, InOrder(h)
    PROVE  /\ h \in Seq(Samples) /\ Len(h) \in Nat /\ DOMAIN h = 1..Len(h)
           /\ \A i \in 1..Len(h) : h[i] \in Samples /\ h[i].stamp \in Nat
           /\ \A i, j \in 1..Len(h) : i < j => h[i].stamp < h[j].stamp
<1>1. h \in Seq(Samples) /\ Len(h) \in Nat /\ DOMAIN h = 1..Len(h)
    BY DEF InOrder, Samples
<1>2. \A i \in 1..Len(h) : h[i] \in Samples
    BY <1>1
<1>3. \A s \in Samples : s.stamp \in Nat
    BY DEF Samples
<1>q. QED BY <1>1, <1>2, <1>3 DEF InOrder

\* A sample that _append accepts leaves a history in order, and only adds to it.
LEMMA GrownIs ==
    ASSUME NEW poses, InOrder(poses), NEW x \in Samples,
           poses # <<>> => Last(poses).stamp < x.stamp
    PROVE  /\ InOrder(Append(poses, x)) /\ StandsAt(poses, Append(poses, x), 0)
           /\ Len(Append(poses, x)) = Len(poses) + 1
<1> DEFINE g == Append(poses, x)
           n == Len(poses)
<1>1. poses \in Seq(Samples) /\ n \in Nat
    BY DEF InOrder, Samples
<1>2. /\ g \in Seq(Samples) /\ Len(g) = n + 1 /\ g[n + 1] = x
      /\ \A i \in 1..n : g[i] = poses[i]
    BY <1>1
<1>3. ASSUME NEW i \in 1..n PROVE poses[i].stamp < x.stamp
    <2>1. poses # <<>> /\ poses[n].stamp < x.stamp /\ n \in 1..n
        BY <1>1, <1>3 DEF Last
    <2>2. i = n \/ poses[i].stamp < poses[n].stamp
        BY <1>1, <1>3, <2>1 DEF InOrder
    <2>3. poses[i] \in Samples /\ poses[n] \in Samples
        BY <1>1, <1>3, <2>1
    <2>q. QED BY <2>1, <2>2, <2>3 DEF Samples
<1>4. \A i, j \in 1..(n + 1) : i < j => g[i].stamp < g[j].stamp
    <2> SUFFICES ASSUME NEW i \in 1..(n + 1), NEW j \in 1..(n + 1), i < j
                 PROVE  g[i].stamp < g[j].stamp
        OBVIOUS
    <2>1. i \in 1..n /\ g[i] = poses[i]
        BY <1>1, <1>2
    <2>2. CASE j = n + 1
        BY <1>2, <1>3, <2>1, <2>2
    <2>3. CASE j \in 1..n
        BY <1>2, <2>1, <2>3 DEF InOrder
    <2>q. QED BY <1>1, <2>2, <2>3
<1> HIDE DEF g, n
<1>5. InOrder(g)
    BY <1>2, <1>4 DEF InOrder, Samples
<1>6. StandsAt(poses, g, 0)
    BY <1>1, <1>2 DEF StandsAt, n
<1>q. QED BY <1>2, <1>5, <1>6 DEF g, n

\* Extended keeps the order, the bound and at least one sample.
LEMMA ExtendedIs ==
    ASSUME NEW poses, InOrder(poses), NEW stamp \in Nat, NEW fixed \in BOOLEAN,
           Appends(poses, stamp), Len(poses) <= Capacity
    PROVE  LET g == Append(poses, [stamp |-> stamp, tracked |-> fixed])
               h == Extended(poses, stamp, fixed)
           IN /\ InOrder(h) /\ Len(h) <= Capacity /\ h # <<>>
              /\ Len(h) <= Len(g) /\ StandsAt(h, g, Len(g) - Len(h))
<1> DEFINE x == [stamp |-> stamp, tracked |-> fixed]
           g == Append(poses, x)
<1>1. x \in Samples /\ x.stamp = stamp
    BY DEF Samples
<1>2. InOrder(g) /\ Len(g) = Len(poses) + 1
    BY <1>1, GrownIs DEF Appends
<1>3. Len(poses) \in Nat /\ Capacity \in Nat /\ Capacity >= 2
    BY HistorySizeAssumption DEF InOrder
<1> HIDE DEF g, x
<1>4. CASE Len(g) <= Capacity
    <2>1. Extended(poses, stamp, fixed) = g
        BY <1>2, <1>3, <1>4 DEF Extended, g, x
    <2>2. StandsAt(g, g, 0) /\ g # <<>> /\ Len(g) \in Nat
        BY <1>2, <1>3 DEF StandsAt
    <2>q. QED BY <1>2, <1>4, <2>1, <2>2 DEF g, x
<1>5. CASE Len(g) > Capacity
    <2> DEFINE h == Tail(g)
    <2>1. Extended(poses, stamp, fixed) = h
        BY <1>5 DEF Extended, g, x
    <2>2. g \in Seq(Samples) /\ g # <<>>
        BY <1>2, <1>3 DEF InOrder, Samples
    <2>3. /\ h \in Seq(Samples) /\ Len(h) = Len(g) - 1 /\ Len(h) = Len(poses)
          /\ \A i \in 1..Len(h) : h[i] = g[i + 1]
        BY <1>2, <1>3, <2>2
    <2>4. Len(g) - Len(h) = 1 /\ Len(h) \in Nat /\ Len(h) > 0
        BY <1>2, <1>3, <1>5, <2>3
    <2>5. \A i, j \in 1..Len(h) : i < j => h[i].stamp < h[j].stamp
        <3> SUFFICES ASSUME NEW i \in 1..Len(h), NEW j \in 1..Len(h), i < j
                     PROVE  h[i].stamp < h[j].stamp
            OBVIOUS
        <3>1. i + 1 \in 1..Len(g) /\ j + 1 \in 1..Len(g) /\ i + 1 < j + 1
            BY <2>3, <2>4
        <3>q. QED BY <1>2, <2>3, <3>1 DEF InOrder
    <2>6. InOrder(h)
        BY <2>3, <2>5 DEF InOrder, Samples
    <2>7. StandsAt(h, g, 1)
        BY <1>2, <1>3, <2>3, <2>4 DEF StandsAt
    <2> HIDE DEF h
    <2>q. QED BY <2>1, <2>3, <2>4, <2>6, <2>7, <1>3 DEF g, x
<1>6. Len(g) \in Nat
    BY <1>2, <1>3
<1>q. QED BY <1>3, <1>4, <1>5, <1>6

\* The samples around a time that a segment can answer are those around it in
\* the whole log.
LEMMA SegmentAround ==
    ASSUME NEW poses, NEW log, InOrder(poses), InOrder(log), NEW offset,
           StandsAt(poses, log, offset), NEW t \in Nat, Around(poses, t) # {}
    PROVE  /\ Around(log, t) = {offset + i : i \in Around(poses, t)}
           /\ \E i \in Around(poses, t) : poses[i].stamp <= t
           /\ \E i \in Around(poses, t) : poses[i].stamp >= t
<1>1. /\ poses \in Seq(Samples) /\ log \in Seq(Samples) /\ offset \in Nat
      /\ Len(poses) \in Nat /\ Len(log) \in Nat
      /\ DOMAIN poses = 1..Len(poses) /\ DOMAIN log = 1..Len(log)
    BY OrderIs DEF StandsAt
<1>2. \A i \in 1..Len(poses) : /\ offset + i \in 1..Len(log) /\ poses[i] = log[offset + i]
                               /\ poses[i].stamp \in Nat
    BY <1>1, OrderIs DEF StandsAt
<1>3. \A i, j \in 1..Len(log) : i < j => log[i].stamp < log[j].stamp
    BY OrderIs
<1>4. \A j \in 1..Len(log) : log[j].stamp \in Nat
    BY OrderIs
<1>5. CASE \E i \in DOMAIN poses : poses[i].stamp = t
    <2>1. PICK i \in 1..Len(poses) : poses[i].stamp = t
        BY <1>1, <1>5
    <2>2. offset + i \in 1..Len(log) /\ log[offset + i].stamp = t
        BY <1>2, <2>1
    <2>3. \A j \in 1..Len(log) : log[j].stamp = t => j = offset + i
        BY <1>3, <1>4, <2>2
    <2>4. \A j \in 1..Len(poses) : poses[j].stamp = t => j = i
        BY <1>1, <1>2, <2>3
    <2>5. Around(poses, t) = {i}
        BY <1>1, <2>1, <2>4 DEF Around
    <2>6. Around(log, t) = {offset + i}
        BY <1>1, <2>2, <2>3 DEF Around
    <2>q. QED BY <1>2, <2>1, <2>5, <2>6
<1>6. CASE \A i \in DOMAIN poses : poses[i].stamp # t
    <2>1. PICK i \in 1..Len(poses) : /\ i + 1 \in 1..Len(poses)
                                     /\ poses[i].stamp < t /\ t < poses[i + 1].stamp
        <3>1. PICK j \in Around(poses, t) : TRUE
            OBVIOUS
        <3>2. j \in 1..Len(poses)
              /\ \/ j < Len(poses) /\ poses[j].stamp < t /\ t < poses[j + 1].stamp
                 \/ j > 1 /\ poses[j - 1].stamp < t /\ t < poses[j].stamp
            BY <1>1, <1>6 DEF Around
        <3>3. CASE j < Len(poses) /\ poses[j].stamp < t /\ t < poses[j + 1].stamp
            BY <1>1, <3>2, <3>3
        <3>4. CASE j > 1 /\ poses[j - 1].stamp < t /\ t < poses[j].stamp
            <4>1. j - 1 \in 1..Len(poses) /\ (j - 1) + 1 = j
                BY <1>1, <3>2, <3>4
            <4>q. QED BY <3>2, <3>4, <4>1
        <3>q. QED BY <3>2, <3>3, <3>4
    <2> DEFINE a == offset + i
    <2>2. /\ a \in 1..Len(log) /\ a + 1 \in 1..Len(log)
          /\ log[a].stamp < t /\ t < log[a + 1].stamp
        <3>1. (offset + i) + 1 = offset + (i + 1)
            BY <1>1, <2>1
        <3>q. QED BY <1>2, <2>1, <3>1
    <2>3. \A j \in 1..Len(log) : /\ j <= a => log[j].stamp < t
                                 /\ j >= a + 1 => t < log[j].stamp
        <3> SUFFICES ASSUME NEW j \in 1..Len(log)
                     PROVE  /\ j <= a => log[j].stamp < t
                            /\ j >= a + 1 => t < log[j].stamp
            OBVIOUS
        <3>1. j < a => log[j].stamp < log[a].stamp
            BY <1>3, <2>2
        <3>2. j > a + 1 => log[a + 1].stamp < log[j].stamp
            BY <1>3, <2>2
        <3>3. a \in Nat /\ j \in Nat
            BY <1>1, <2>1
        <3>4. log[a].stamp \in Nat /\ log[a + 1].stamp \in Nat /\ log[j].stamp \in Nat
            BY <1>4, <2>2
        <3> HIDE DEF a
        <3>5. j < a \/ j = a \/ j = a + 1 \/ j > a + 1
            BY <3>3
        <3>6. CASE j < a
            BY <2>2, <3>1, <3>3, <3>4, <3>6
        <3>7. CASE j = a
            BY <2>2, <3>3, <3>7
        <3>8. CASE j = a + 1
            BY <2>2, <3>3, <3>8
        <3>9. CASE j > a + 1
            BY <2>2, <3>2, <3>3, <3>4, <3>9
        <3>q. QED BY <3>5, <3>6, <3>7, <3>8, <3>9
    <2>4. Around(log, t) = {a, a + 1}
        <3>1. \A j \in 1..Len(log) : log[j].stamp # t
            BY <1>1, <1>4, <2>2, <2>3
        <3>2. \A j \in 1..Len(log) : j < Len(log) /\ log[j].stamp < t /\ t < log[j + 1].stamp => j = a
            <4>1. \A j \in 1..Len(log) : j < Len(log) => j + 1 \in 1..Len(log)
                BY <1>1
            <4>2. \A j \in 1..Len(log) : log[j].stamp < t => ~(j >= a + 1)
                BY <1>4, <2>3
            <4>3. \A j \in 1..Len(log) : t < log[j].stamp => ~(j <= a)
                BY <1>4, <2>3
            <4>4. a \in Nat
                BY <1>1, <2>1
            <4> HIDE DEF a
            <4>q. QED BY <4>1, <4>2, <4>3, <4>4
        <3>3. \A j \in 1..Len(log) : j > 1 /\ log[j - 1].stamp < t /\ t < log[j].stamp => j = a + 1
            <4>1. \A j \in 1..Len(log) : j > 1 => j - 1 \in 1..Len(log)
                BY <1>1
            <4>2. \A j \in 1..Len(log) : log[j].stamp < t => ~(j >= a + 1)
                BY <1>4, <2>3
            <4>3. \A j \in 1..Len(log) : t < log[j].stamp => ~(j <= a)
                BY <1>4, <2>3
            <4>4. a \in Nat
                BY <1>1, <2>1
            <4> HIDE DEF a
            <4>q. QED BY <4>1, <4>2, <4>3, <4>4
        <3>4. a < Len(log) /\ a + 1 > 1 /\ (a + 1) - 1 = a
            BY <1>1, <2>1, <2>2
        <3>5. \A j : j \in Around(log, t) => j \in {a, a + 1}
            BY <1>1, <3>1, <3>2, <3>3 DEF Around
        <3>6. a \in Around(log, t) /\ a + 1 \in Around(log, t)
            <4> HIDE DEF a
            <4>q. QED BY <1>1, <2>2, <3>1, <3>4 DEF Around
        <3>q. QED BY <3>5, <3>6
    <2>5. Around(poses, t) = {i, i + 1}
        <3>1. \A j \in 1..Len(poses) : /\ j <= i => poses[j].stamp < t
                                       /\ j >= i + 1 => t < poses[j].stamp
            <4> SUFFICES ASSUME NEW j \in 1..Len(poses)
                         PROVE  /\ j <= i => poses[j].stamp < t
                                /\ j >= i + 1 => t < poses[j].stamp
                OBVIOUS
            <4>1. offset + j \in 1..Len(log) /\ poses[j] = log[offset + j]
                BY <1>2
            <4>2. (j <= i => offset + j <= a) /\ (j >= i + 1 => offset + j >= a + 1)
                BY <1>1, <2>1
            <4>q. QED BY <2>3, <4>1, <4>2
        <3>2. \A j \in 1..Len(poses) :
                j < Len(poses) /\ poses[j].stamp < t /\ t < poses[j + 1].stamp => j = i
            <4>1. \A j \in 1..Len(poses) : j < Len(poses) => j + 1 \in 1..Len(poses)
                BY <1>1
            <4>2. ASSUME NEW j \in 1..Len(poses), poses[j].stamp < t PROVE ~(j >= i + 1)
                <5>1. poses[j].stamp \in Nat /\ (j >= i + 1 => t < poses[j].stamp)
                    BY <1>2, <3>1
                <5>q. QED BY <4>2, <5>1
            <4>3. ASSUME NEW j \in 1..Len(poses), t < poses[j].stamp PROVE ~(j <= i)
                <5>1. poses[j].stamp \in Nat /\ (j <= i => poses[j].stamp < t)
                    BY <1>2, <3>1
                <5>q. QED BY <4>3, <5>1
            <4>q. QED BY <2>1, <4>1, <4>2, <4>3
        <3>3. \A j \in 1..Len(poses) :
                j > 1 /\ poses[j - 1].stamp < t /\ t < poses[j].stamp => j = i + 1
            <4>1. \A j \in 1..Len(poses) : j > 1 => j - 1 \in 1..Len(poses)
                BY <1>1
            <4>2. ASSUME NEW j \in 1..Len(poses), poses[j].stamp < t PROVE ~(j >= i + 1)
                <5>1. poses[j].stamp \in Nat /\ (j >= i + 1 => t < poses[j].stamp)
                    BY <1>2, <3>1
                <5>q. QED BY <4>2, <5>1
            <4>3. ASSUME NEW j \in 1..Len(poses), t < poses[j].stamp PROVE ~(j <= i)
                <5>1. poses[j].stamp \in Nat /\ (j <= i => poses[j].stamp < t)
                    BY <1>2, <3>1
                <5>q. QED BY <4>3, <5>1
            <4>q. QED BY <2>1, <4>1, <4>2, <4>3
        <3>4. i < Len(poses) /\ i + 1 > 1 /\ (i + 1) - 1 = i
            BY <1>1, <2>1
        <3>5. \A j : j \in Around(poses, t) => j \in {i, i + 1}
            BY <1>1, <1>6, <3>2, <3>3 DEF Around
        <3>6. i \in Around(poses, t) /\ i + 1 \in Around(poses, t)
            BY <1>1, <1>6, <2>1, <3>4 DEF Around
        <3>q. QED BY <3>5, <3>6
    <2>6. {offset + j : j \in Around(poses, t)} = {a, a + 1}
        <3>1. offset + (i + 1) = a + 1
            BY <1>1, <2>1
        <3>q. QED BY <2>5, <3>1
    <2>7. /\ \E k \in Around(poses, t) : poses[k].stamp <= t
          /\ \E k \in Around(poses, t) : poses[k].stamp >= t
        BY <1>2, <2>1, <2>5
    <2>q. QED BY <2>4, <2>6, <2>7
<1>q. QED BY <1>5, <1>6

\* What a segment answers is what the whole log answers.
LEMMA SegmentAnswers ==
    ASSUME NEW poses, NEW log, InOrder(poses), InOrder(log),
           Segment(poses, log), NEW t \in Nat
    PROVE  Support(poses, t) \in {{}, Support(log, t)}
<1>1. PICK offset \in Nat : StandsAt(poses, log, offset)
    BY DEF Segment
<1>2. CASE Around(poses, t) = {}
    BY <1>2 DEF Support, Stamps
<1>3. CASE Around(poses, t) # {}
    <2> DEFINE around == Around(poses, t)
               whole == Around(log, t)
    <2>1. whole = {offset + i : i \in around}
        BY <1>1, <1>3, SegmentAround
    <2>2. \A i \in around : i \in 1..Len(poses) /\ poses[i] = log[offset + i]
        <3>1. \A i \in around : i \in DOMAIN poses
            BY DEF Around
        <3>2. DOMAIN poses = 1..Len(poses)
            BY OrderIs
        <3> HIDE DEF around
        <3>q. QED BY <1>1, <3>1, <3>2 DEF StandsAt
    <2> HIDE DEF around, whole
    <2>0. (\A i \in around : offset + i \in whole) /\ (\A j \in whole : \E i \in around : j = offset + i)
        BY <2>1
    <2>3. Stamps(log, whole) = Stamps(poses, around)
        BY <2>1, <2>2 DEF Stamps
    <2>4. (\A i \in whole : log[i].tracked) <=> (\A i \in around : poses[i].tracked)
        BY <2>0, <2>2, Zenon
    <2>5. (\A i, j \in whole : log[j].stamp - log[i].stamp <= MaxGap)
            <=> (\A i, j \in around : poses[j].stamp - poses[i].stamp <= MaxGap)
        <3>1. ASSUME \A i, j \in whole : log[j].stamp - log[i].stamp <= MaxGap,
                     NEW i \in around, NEW j \in around
              PROVE  poses[j].stamp - poses[i].stamp <= MaxGap
            <4>1. log[offset + j].stamp - log[offset + i].stamp <= MaxGap
                BY <2>0, <3>1, Zenon
            <4>q. QED BY <2>2, <4>1, Zenon
        <3>2. ASSUME \A i, j \in around : poses[j].stamp - poses[i].stamp <= MaxGap,
                     NEW k \in whole, NEW l \in whole
              PROVE  log[l].stamp - log[k].stamp <= MaxGap
            <4>1. PICK i \in around : k = offset + i
                BY <2>0, Zenon
            <4>2. PICK j \in around : l = offset + j
                BY <2>0, Zenon
            <4>3. poses[j].stamp - poses[i].stamp <= MaxGap
                BY <3>2, Zenon
            <4>q. QED BY <2>2, <4>1, <4>2, <4>3, Zenon
        <3>q. QED BY <3>1, <3>2, Zenon
    <2>q. QED BY <2>3, <2>4, <2>5, Zenon DEF Support, around, whole
<1>q. QED BY <1>2, <1>3

\* A window that a segment measures is measured in the whole log.
LEMMA SegmentWindows ==
    ASSUME NEW poses, NEW log, InOrder(poses), InOrder(log), Segment(poses, log),
           NEW start \in Nat, NEW end \in Nat, WindowMeasured(poses, start, end)
    PROVE  WindowMeasured(log, start, end)
<1>1. PICK offset \in Nat : StandsAt(poses, log, offset)
    BY DEF Segment
<1> DEFINE Between(h) == {t \in Stamps(h, DOMAIN h) : start < t /\ t < end}
<1>2. Measured(poses, start) /\ Measured(poses, end)
    BY DEF WindowMeasured
<1>3. Around(poses, start) # {} /\ Around(poses, end) # {}
    BY <1>2 DEF Measured, Support, Stamps
<1>4. PICK first \in Around(poses, start) : poses[first].stamp <= start
    BY <1>1, <1>3, SegmentAround
<1>5. PICK last \in Around(poses, end) : poses[last].stamp >= end
    BY <1>1, <1>3, SegmentAround
<1>6. /\ DOMAIN poses = 1..Len(poses) /\ DOMAIN log = 1..Len(log)
      /\ Len(poses) \in Nat /\ Len(log) \in Nat /\ offset + Len(poses) <= Len(log)
      /\ \A i \in 1..Len(poses) : poses[i] = log[offset + i] /\ offset + i \in 1..Len(log)
      /\ \A j \in 1..Len(log) : log[j].stamp \in Nat
    BY <1>1, OrderIs DEF StandsAt
<1>7. first \in 1..Len(poses) /\ last \in 1..Len(poses)
    BY <1>6 DEF Around
<1>8. \A j \in 1..Len(log) : start < log[j].stamp /\ log[j].stamp < end =>
         j - offset \in 1..Len(poses) /\ offset + (j - offset) = j
    <2> SUFFICES ASSUME NEW j \in 1..Len(log), start < log[j].stamp, log[j].stamp < end
                 PROVE  j - offset \in 1..Len(poses) /\ offset + (j - offset) = j
        OBVIOUS
    <2>1. /\ log[offset + first].stamp <= start /\ end <= log[offset + last].stamp
          /\ offset + first \in 1..Len(log) /\ offset + last \in 1..Len(log)
        BY <1>4, <1>5, <1>6, <1>7
    <2>2. /\ j < offset + first => log[j].stamp < log[offset + first].stamp
          /\ offset + last < j => log[offset + last].stamp < log[j].stamp
        BY <2>1, OrderIs
    <2>3. ~(j < offset + first) /\ ~(offset + last < j)
        BY <1>6, <2>1, <2>2
    <2>q. QED BY <1>6, <1>7, <2>3
<1>9. Between(log) = Between(poses)
    <2>1. \A t : t \in Between(log) => t \in Between(poses)
        <3> SUFFICES ASSUME NEW j \in 1..Len(log), start < log[j].stamp, log[j].stamp < end
                     PROVE  log[j].stamp \in Between(poses)
            BY <1>6 DEF Stamps
        <3>1. j - offset \in 1..Len(poses) /\ poses[j - offset] = log[j]
            BY <1>6, <1>8
        <3>q. QED BY <1>6, <3>1 DEF Stamps
    <2>2. \A t : t \in Between(poses) => t \in Between(log)
        BY <1>6 DEF Stamps
    <2> HIDE DEF Between
    <2>q. QED BY <2>1, <2>2
<1> DEFINE knots == {start, end} \union Between(poses)
<1>10. \A t \in knots : t \in Nat
    BY <1>6 DEF Stamps
<1>11. \A t \in knots : Measured(log, t)
    <2>1. \A t \in knots : Measured(poses, t)
        BY DEF WindowMeasured
    <2>q. QED BY <1>10, <2>1, SegmentAnswers DEF Measured
<1>12. \A a, b \in knots : a < b /\ ~(\E t \in knots : a < t /\ t < b) => b - a <= MaxGap
    BY DEF WindowMeasured
<1>q. QED BY <1>9, <1>11, <1>12 DEF WindowMeasured

(***************************************************************************)
(* The inductive invariant                                                 *)
(***************************************************************************)
ConfigInv ==
    /\ config \in [version : {1, 2}, posed : BOOLEAN, trace : BOOLEAN,
                   color : SUBSET RgbCameras, radius : Radii]
    /\ config.version = 1 => config.color = {}

HistoryInv(poses, log) ==
    /\ InOrder(poses) /\ InOrder(log) /\ EndOf(poses, log)
    /\ Len(poses) <= Capacity \/ config.trace

PosesInv == HistoryInv(robot, robotLog) /\ HistoryInv(gimbal, gimbalLog)

Frames == [depth : Nat, image : Nat, usable : BOOLEAN]
Exposures == [depth : Nat, image : Nat]

PollTypeOK ==
    /\ now \in Nat /\ now > 0 /\ started \in Nat /\ phase \in Phases /\ tracking \in BOOLEAN
    /\ pipelines \subseteq Cameras /\ (phase = "stopped" => pipelines = {})
    /\ remaining \subseteq Cameras /\ (remaining # {} => phase = "polling")
    /\ previous \in [Cameras -> Exposures] /\ delivered \in [Cameras -> Exposures]
    /\ lastImages \in [Cameras -> Nat] /\ frames \in [Cameras -> Frames]
    /\ batch \in [frames : [Cameras -> Frames], tracking : BOOLEAN, produced : Nat]

\* How what a camera delivered lies to what the capture remembers of it, and both to
\* the frame that the poll under way has for it.
InTurn(c) ==
    /\ lastImages[c] <= now /\ (lastImages[c] # 0 => Rgb(c))
    /\ delivered[c].depth <= previous[c].depth
    /\ Rgb(c) /\ phase # "stopped" => delivered[c].image <= lastImages[c]

FrameInTurn(c) == LET f == frames[c] IN
    /\ f.depth \in delivered[c].depth + 1 .. now /\ f.depth <= previous[c].depth
    /\ f.image \in 1 .. now
    /\ f.usable => Paired(f.depth, f.image)
    /\ f.usable /\ Rgb(c) /\ phase # "stopped" => f.image \in delivered[c].image .. lastImages[c]

PollInv ==
    /\ PollTypeOK
    /\ phase = "polling" => now > batch.produced
    /\ \A c \in Cameras : InTurn(c) /\ (frames[c] # NoFrame => FrameInTurn(c))

FrameMeasured(c, f) ==
    config.posed /\ f # NoFrame =>
        /\ Posed(robotLog, gimbalLog, c, f.depth)
        /\ f.usable => Posed(robotLog, gimbalLog, c, f.image)
        /\ f.usable /\ Rgb(c) => GatePasses(c, f.depth, f.image, TRUE, robotLog, gimbalLog)

MeasuredInv ==
    \A c \in Cameras : FrameMeasured(c, frames[c]) /\ FrameMeasured(c, batch.frames[c])

CaptureSafe == ConfigInv /\ PosesInv /\ PollInv /\ MeasuredInv

\* A segment of a segment is a segment.
LEMMA SegmentOfSegment ==
    ASSUME NEW a, NEW b, NEW c, NEW m, NEW n, Len(a) \in Nat, Len(b) \in Nat, Len(c) \in Nat,
           StandsAt(a, b, m), StandsAt(b, c, n)
    PROVE  StandsAt(a, c, m + n)
<1>1. /\ m \in Nat /\ n \in Nat /\ m + Len(a) <= Len(b) /\ n + Len(b) <= Len(c)
      /\ \A i \in 1..Len(a) : a[i] = b[m + i] /\ \A j \in 1..Len(b) : b[j] = c[n + j]
    BY DEF StandsAt
<1>2. \A i \in 1..Len(a) : m + i \in 1..Len(b) /\ (m + n) + i = n + (m + i)
    BY <1>1
<1>3. \A i \in 1..Len(a) : a[i] = c[(m + n) + i]
    BY <1>1, <1>2 DEF StandsAt
<1>4. m + n \in Nat /\ (m + n) + Len(a) <= Len(c)
    BY <1>1
<1>q. QED BY <1>3, <1>4 DEF StandsAt

\* A new sample goes to the end of the history and of the log.
LEMMA HistoryGrows ==
    ASSUME NEW poses, NEW log, HistoryInv(poses, log), ~config.trace,
           NEW stamp \in Nat, NEW fixed \in BOOLEAN, Appends(poses, stamp)
    PROVE  LET longer == Append(log, [stamp |-> stamp, tracked |-> fixed])
               new == Extended(poses, stamp, fixed)
               grown == Append(poses, [stamp |-> stamp, tracked |-> fixed])
           IN /\ InOrder(new) /\ InOrder(longer) /\ EndOf(new, longer) /\ Len(new) <= Capacity
              /\ Segment(log, longer)
              /\ InOrder(grown) /\ Segment(poses, grown) /\ Segment(new, grown)
<1> DEFINE x == [stamp |-> stamp, tracked |-> fixed]
           longer == Append(log, x)
           grown == Append(poses, x)
           new == Extended(poses, stamp, fixed)
<1>1. x \in Samples /\ x.stamp = stamp
    BY DEF Samples
<1>2. /\ InOrder(poses) /\ InOrder(log) /\ EndOf(poses, log) /\ Len(poses) <= Capacity
      /\ Len(poses) \in Nat /\ Len(log) \in Nat
    BY OrderIs DEF HistoryInv
<1>3. log # <<>> => Last(log).stamp < stamp
    <2> SUFFICES ASSUME log # <<>> PROVE Last(log).stamp < stamp
        OBVIOUS
    <2>1. poses # <<>> /\ Last(poses).stamp < stamp
        BY <1>2 DEF EndOf, Appends
    <2>2. Len(poses) \in 1..Len(poses)
        BY <1>2, <2>1, OrderIs
    <2>3. poses[Len(poses)] = log[(Len(log) - Len(poses)) + Len(poses)]
        BY <1>2, <2>2 DEF EndOf, StandsAt
    <2>4. (Len(log) - Len(poses)) + Len(poses) = Len(log)
        BY <1>2
    <2>q. QED BY <2>1, <2>3, <2>4 DEF Last
<1>4. InOrder(longer) /\ StandsAt(log, longer, 0) /\ Len(longer) = Len(log) + 1
    BY <1>1, <1>2, <1>3, GrownIs
<1>5. InOrder(grown) /\ StandsAt(poses, grown, 0) /\ Len(grown) = Len(poses) + 1
    BY <1>1, <1>2, GrownIs DEF Appends
<1>6. /\ InOrder(new) /\ Len(new) <= Capacity /\ new # <<>> /\ Len(new) <= Len(grown)
      /\ StandsAt(new, grown, Len(grown) - Len(new))
    BY <1>2, ExtendedIs
<1>7. StandsAt(grown, longer, Len(log) - Len(poses))
    <2> DEFINE o == Len(log) - Len(poses)
    <2>1. /\ o \in Nat /\ \A i \in 1..Len(poses) : poses[i] = log[o + i] /\ o + i \in 1..Len(log)
        BY <1>2 DEF EndOf, StandsAt
    <2>2. /\ \A i \in 1..Len(poses) : grown[i] = poses[i]
          /\ grown[Len(poses) + 1] = x /\ longer[Len(log) + 1] = x
          /\ \A i \in 1..Len(log) : longer[i] = log[i]
        BY <1>2, OrderIs
    <2>3. o + (Len(poses) + 1) = Len(log) + 1 /\ o + Len(grown) <= Len(longer)
        BY <1>2, <1>4, <1>5
    <2> HIDE DEF grown, longer, x
    <2>4. ASSUME NEW i \in 1..Len(grown) PROVE grown[i] = longer[o + i]
        <3>1. i \in 1..Len(poses) \/ i = Len(poses) + 1
            BY <1>2, <1>5
        <3>2. CASE i \in 1..Len(poses)
            BY <2>1, <2>2, <3>2
        <3>3. CASE i = Len(poses) + 1
            BY <2>2, <2>3, <3>3
        <3>q. QED BY <3>1, <3>2, <3>3
    <2>q. QED BY <2>1, <2>3, <2>4 DEF StandsAt
<1> HIDE DEF x, longer, grown, new
<1>8. Len(new) \in Nat /\ Len(grown) \in Nat /\ Len(longer) \in Nat
    BY <1>4, <1>5, <1>6, OrderIs
<1>9. EndOf(new, longer)
    <2>1. StandsAt(new, longer, (Len(grown) - Len(new)) + (Len(log) - Len(poses)))
        BY <1>6, <1>7, <1>8, SegmentOfSegment
    <2>2. (Len(grown) - Len(new)) + (Len(log) - Len(poses)) = Len(longer) - Len(new)
        BY <1>2, <1>4, <1>5, <1>8
    <2>q. QED BY <1>6, <2>1, <2>2 DEF EndOf
<1>10. Segment(log, longer) /\ Segment(poses, grown) /\ Segment(new, grown)
    BY <1>4, <1>5, <1>6, <1>8 DEF Segment
<1>q. QED BY <1>4, <1>5, <1>6, <1>9, <1>10 DEF x, longer, grown, new

(***************************************************************************)
(* The steps                                                               *)
(***************************************************************************)
\* Only localization touches the histories.
LEMMA PoseSteps ==
    ASSUME CaptureNext
    PROVE  /\ config' = config
           /\ \/ \E stamp \in 1 .. now, fixed \in BOOLEAN :
                   MeasureRobot(stamp, fixed) \/ MeasureGimbal(stamp, fixed)
              \/ UNCHANGED poseVars
<1> USE DEF poseVars
<1>1. CASE StartCamera \/ Opened \/ Stop \/ Tick \/ BeginPoll \/ NoFrameSet \/ FinishPoll
    BY <1>1 DEF StartCamera, Opened, Stop, Tick, BeginPoll, NoFrameSet, FinishPoll
<1>2. CASE ReadFrameSet
    <2>1. PICK depth \in 0 .. now, image \in (0 .. now) \union {Missing} :
              LET c == Min(remaining) IN
              \/ Skip(c, depth, image)
              \/ LosePose(c, depth, image)
              \/ \E calm \in BOOLEAN : Emit(c, depth, image, calm)
        BY <1>2 DEF ReadFrameSet
    <2>q. QED BY <2>1 DEF Skip, LosePose, Emit
<1>3. CASE \E stamp \in 1 .. now, fixed \in BOOLEAN :
             MeasureRobot(stamp, fixed) \/ MeasureGimbal(stamp, fixed)
    BY <1>3 DEF MeasureRobot, MeasureGimbal
<1>q. QED BY <1>1, <1>2, <1>3 DEF CaptureNext

\* A log is a segment of itself.
LEMMA SegmentOfItself ==
    ASSUME NEW log, InOrder(log)
    PROVE  Segment(log, log)
<1>1. Len(log) \in Nat
    BY OrderIs
<1>2. StandsAt(log, log, 0)
    BY <1>1 DEF StandsAt
<1>q. QED BY <1>2 DEF Segment

\* The histories stay segments of the logs, and the logs only grow.
LEMMA PosesStep ==
    ASSUME ConfigInv, PosesInv, now \in Nat, CaptureNext
    PROVE  /\ PosesInv'
           /\ Segment(robotLog, robotLog') /\ Segment(gimbalLog, gimbalLog')
<1>1. config' = config /\ InOrder(robotLog) /\ InOrder(gimbalLog)
    BY PoseSteps DEF PosesInv, HistoryInv
<1>2. CASE UNCHANGED poseVars
    BY <1>1, <1>2, SegmentOfItself DEF PosesInv, HistoryInv, poseVars
<1>3. ASSUME NEW stamp \in 1 .. now, NEW fixed \in BOOLEAN, MeasureRobot(stamp, fixed)
      PROVE  /\ PosesInv'
             /\ Segment(robotLog, robotLog') /\ Segment(gimbalLog, gimbalLog')
    <2>1. /\ ~config.trace /\ Appends(robot, stamp) /\ stamp \in Nat
          /\ robot' = Extended(robot, stamp, fixed)
          /\ robotLog' = Append(robotLog, [stamp |-> stamp, tracked |-> fixed])
          /\ gimbal' = gimbal /\ gimbalLog' = gimbalLog
        BY <1>3 DEF MeasureRobot
    <2>2. /\ InOrder(robot') /\ InOrder(robotLog') /\ EndOf(robot', robotLog')
          /\ Len(robot') <= Capacity /\ Segment(robotLog, robotLog')
        BY <2>1, HistoryGrows DEF PosesInv
    <2>q. QED BY <1>1, <2>1, <2>2, SegmentOfItself DEF PosesInv, HistoryInv
<1>4. ASSUME NEW stamp \in 1 .. now, NEW fixed \in BOOLEAN, MeasureGimbal(stamp, fixed)
      PROVE  /\ PosesInv'
             /\ Segment(robotLog, robotLog') /\ Segment(gimbalLog, gimbalLog')
    <2>1. /\ ~config.trace /\ Appends(gimbal, stamp) /\ stamp \in Nat
          /\ gimbal' = Extended(gimbal, stamp, fixed)
          /\ gimbalLog' = Append(gimbalLog, [stamp |-> stamp, tracked |-> fixed])
          /\ robot' = robot /\ robotLog' = robotLog
        BY <1>4 DEF MeasureGimbal
    <2>2. /\ InOrder(gimbal') /\ InOrder(gimbalLog') /\ EndOf(gimbal', gimbalLog')
          /\ Len(gimbal') <= Capacity /\ Segment(gimbalLog, gimbalLog')
        BY <2>1, HistoryGrows DEF PosesInv
    <2>q. QED BY <1>1, <2>1, <2>2, SegmentOfItself DEF PosesInv, HistoryInv
<1>q. QED BY <1>2, <1>3, <1>4, PoseSteps

\* A pose that segments give is given by the whole logs.
LEMMA PosedInWhole ==
    ASSUME NEW r, NEW g, NEW rlog, NEW glog, InOrder(r), InOrder(g), InOrder(rlog), InOrder(glog),
           Segment(r, rlog), Segment(g, glog), NEW c
    PROVE  /\ \A t \in Nat : Posed(r, g, c, t) => Posed(rlog, glog, c, t)
           /\ \A depth, image \in Nat : \A calm : config.radius \in Nat =>
                (GatePasses(c, depth, image, calm, r, g) => GatePasses(c, depth, image, TRUE, rlog, glog))
<1>1. ASSUME NEW t \in Nat, Posed(r, g, c, t) PROVE Posed(rlog, glog, c, t)
    BY <1>1, SegmentAnswers DEF Posed, Measured
<1>2. ASSUME NEW depth \in Nat, NEW image \in Nat, NEW calm, config.radius \in Nat,
             GatePasses(c, depth, image, calm, r, g)
      PROVE  GatePasses(c, depth, image, TRUE, rlog, glog)
    <2> DEFINE first == IF depth < image THEN depth ELSE image
               last == IF depth < image THEN image ELSE depth
    <2>1. /\ config.posed /\ first > config.radius
          /\ MotionMeasured(r, g, c, first - config.radius, last + config.radius)
        BY <1>2 DEF GatePasses
    <2>2. first - config.radius \in Nat /\ last + config.radius \in Nat
        BY <1>2, <2>1
    <2> HIDE DEF first, last
    <2>3. MotionMeasured(rlog, glog, c, first - config.radius, last + config.radius)
        BY <2>1, <2>2, SegmentWindows DEF MotionMeasured
    <2>q. QED BY <2>1, <2>3 DEF GatePasses, first, last
<1>q. QED BY <1>1, <1>2

\* So what a frame was given stays measured when the logs grow.
LEMMA MeasuredStays ==
    ASSUME NEW c, NEW f \in Frames, ConfigInv, PosesInv, PosesInv', config' = config,
           Segment(robotLog, robotLog'), Segment(gimbalLog, gimbalLog'), FrameMeasured(c, f)
    PROVE  FrameMeasured(c, f)'
<1>1. f.depth \in Nat /\ f.image \in Nat /\ config.radius \in Nat
    BY CaptureAssumption DEF Frames, ConfigInv
<1>2. InOrder(robotLog) /\ InOrder(gimbalLog) /\ InOrder(robotLog') /\ InOrder(gimbalLog')
    BY DEF PosesInv, HistoryInv
<1>3. /\ \A t \in Nat : Posed(robotLog, gimbalLog, c, t) => Posed(robotLog', gimbalLog', c, t)
      /\ GatePasses(c, f.depth, f.image, TRUE, robotLog, gimbalLog)
           => GatePasses(c, f.depth, f.image, TRUE, robotLog', gimbalLog')
    BY <1>1, <1>2, PosedInWhole
<1>4. \A r, g : GatePasses(c, f.depth, f.image, TRUE, r, g)
                  <=> GatePasses(c, f.depth, f.image, TRUE, r, g)'
    BY DEF GatePasses, MotionMeasured, WindowMeasured, Stamps, Measured, Support, Around
<1>q. QED BY <1>1, <1>3, <1>4 DEF FrameMeasured, Rgb

\* The camera that is started or read next is one of those that remain.
LEMMA NextCamera ==
    ASSUME NEW rest, rest \subseteq Cameras, rest # {}
    PROVE  Min(rest) \in rest
<1> DEFINE R == {ss \in Nat \X Nat : ss[1] < ss[2]}
<1>1. IsWellFoundedOn(R, Nat)
    BY NatLessThanWellFounded DEF OpToRel
<1>2. rest \subseteq Nat
    BY CaptureAssumption
<1> HIDE DEF R
<1>3. PICK x \in rest : \A y \in rest : ~(<<y, x>> \in R)
    BY <1>1, <1>2, WFMin
<1>4. ASSUME NEW y \in rest PROVE x <= y
    <2>1. x \in Nat /\ y \in Nat /\ <<y, x>> \in Nat \X Nat
        BY <1>2
    <2>2. ~(<<y, x>>[1] < <<y, x>>[2])
        BY <1>3, <2>1 DEF R
    <2>q. QED BY <2>1, <2>2
<1>q. QED BY <1>4 DEF Min

\* What a frame set that is emitted had to satisfy.
LEMMA EmitIs ==
    ASSUME ConfigInv, PollInv, NEW c \in Cameras, NEW depth \in 0 .. now,
           NEW image \in (0 .. now) \union {Missing}, NEW calm \in BOOLEAN,
           Emit(c, depth, image, calm)
    PROVE  \E stamp \in 1 .. now, candidate \in BOOLEAN :
             /\ Picked(c, image) = [stamp |-> stamp, candidate |-> candidate]
             /\ candidate => lastImages[c] <= stamp
             /\ lastImages' = IF Rgb(c) /\ candidate THEN [lastImages EXCEPT ![c] = stamp]
                              ELSE lastImages
             /\ depth > previous[c].depth
             /\ config.version = 1 => Paired(depth, stamp)
             /\ config.posed => Posed(robot, gimbal, c, depth)
             /\ frames' = [frames EXCEPT ![c] =
                  [depth |-> depth, image |-> IF config.version = 1 THEN depth ELSE stamp,
                   usable |-> Usable(c, depth, Picked(c, image), calm)]]
             /\ previous' = [previous EXCEPT ![c] = [depth |-> depth, image |-> stamp]]
<1> DEFINE picked == Picked(c, image)
<1>1. lastImages[c] \in Nat /\ lastImages[c] <= now /\ previous[c].depth \in Nat /\ now \in Nat
    BY DEF PollInv, PollTypeOK, InTurn, Exposures
<1>2. /\ Verdict(c, depth, image) = "emit" /\ Remembers(c, image)
      /\ frames' = [frames EXCEPT ![c] =
           [depth |-> depth, image |-> IF config.version = 1 THEN depth ELSE picked.stamp,
            usable |-> Usable(c, depth, picked, calm)]]
      /\ previous' = [previous EXCEPT ![c] = [depth |-> depth, image |-> picked.stamp]]
    BY DEF Emit
<1>3. \/ /\ picked = [stamp |-> lastImages[c], candidate |-> FALSE]
         /\ picked.stamp = lastImages[c] /\ picked.candidate = FALSE
      \/ /\ picked = [stamp |-> image, candidate |-> TRUE]
         /\ picked.stamp = image /\ picked.candidate = TRUE
         /\ image <= now /\ image \in Nat /\ lastImages[c] <= image
    <2>1. image = Missing \/ image \in 0 .. now
        OBVIOUS
    <2>2. \/ picked = [stamp |-> lastImages[c], candidate |-> FALSE]
          \/ /\ picked = [stamp |-> image, candidate |-> TRUE]
             /\ image <= now /\ image \in Nat /\ lastImages[c] <= image
        BY <1>1, <2>1 DEF Picked, Cached, Recent, Converted
    <2> HIDE DEF picked
    <2>q. QED BY <2>2
<1> HIDE DEF picked
<1>4. /\ picked.stamp # 0
      /\ ~Reversed(c, depth, picked.stamp)
      /\ ~(config.version = 1 /\ ~Paired(depth, picked.stamp))
      /\ ~(config.posed /\ ~Posed(robot, gimbal, c, depth))
    BY <1>2 DEF Verdict, picked
<1>5. picked.stamp \in 1 .. now /\ picked.candidate \in BOOLEAN
    <2>1. picked.candidate = TRUE \/ picked.candidate = FALSE
        BY <1>3, Zenon
    <2>2. picked.stamp \in Nat /\ picked.stamp <= now
        BY <1>1, <1>3
    <2>3. picked.stamp # 0
        BY <1>4, Zenon
    <2>4. picked.stamp \in 1 .. now
        BY <1>1, <2>2, <2>3
    <2>5. picked.candidate \in BOOLEAN
        BY <2>1
    <2>q. QED BY <2>4, <2>5, Zenon
<1>6. depth > previous[c].depth
    BY <1>1, <1>4 DEF Reversed
<1>7. lastImages' = IF Rgb(c) /\ picked.candidate THEN [lastImages EXCEPT ![c] = picked.stamp]
                    ELSE lastImages
    <2>1. lastImages' = IF Rgb(c) /\ picked.candidate THEN [lastImages EXCEPT ![c] = image]
                        ELSE lastImages
        BY <1>2 DEF Remembers, picked
    <2>2. picked.candidate => picked.stamp = image
        BY <1>3
    <2>q. QED BY <2>1, <2>2
<1>8. picked = [stamp |-> picked.stamp, candidate |-> picked.candidate]
    BY <1>3
<1>9. picked.candidate => lastImages[c] <= picked.stamp
    BY <1>3
<1>10. /\ config.version = 1 => Paired(depth, picked.stamp)
       /\ config.posed => Posed(robot, gimbal, c, depth)
    BY <1>4
<1>q. QED BY <1>2, <1>5, <1>6, <1>7, <1>8, <1>9, <1>10 DEF picked

\* What a frame set that is not emitted may leave behind: a newer image.
LEMMA PassedIs ==
    ASSUME PollInv, NEW c \in Cameras, NEW depth \in 0 .. now,
           NEW image \in (0 .. now) \union {Missing},
           Skip(c, depth, image) \/ LosePose(c, depth, image)
    PROVE  /\ \/ lastImages' = lastImages
              \/ /\ Rgb(c) /\ image \in 0 .. now /\ lastImages[c] <= image
                 /\ lastImages' = [lastImages EXCEPT ![c] = image]
           /\ remaining' = remaining \ {c} /\ tracking' \in {tracking, FALSE}
           /\ UNCHANGED <<now, config, phase, pipelines, started, previous, frames,
                          batch, poseVars, delivered>>
<1>1. \/ lastImages' = lastImages
      \/ Rgb(c) /\ Picked(c, image).candidate /\ lastImages' = [lastImages EXCEPT ![c] = image]
    BY DEF Skip, LosePose, Remembers
<1>2. Picked(c, image).candidate => image \in 0 .. now /\ lastImages[c] <= image
    <2>1. image = Missing \/ image \in 0 .. now
        OBVIOUS
    <2>2. lastImages[c] \in Nat
        BY DEF PollInv, PollTypeOK
    <2>q. QED BY <2>1, <2>2 DEF Picked, Cached
<1>q. QED BY <1>1, <1>2 DEF Skip, LosePose

\* The types of what is kept of one camera.
LEMMA CameraTypes ==
    ASSUME PollTypeOK, NEW c \in Cameras
    PROVE  /\ lastImages[c] \in Nat
           /\ previous[c] \in Exposures /\ previous[c].depth \in Nat
           /\ delivered[c] \in Exposures /\ delivered[c].depth \in Nat /\ delivered[c].image \in Nat
           /\ frames[c] \in Frames /\ frames[c].depth \in Nat /\ frames[c].image \in Nat
<1>1. /\ lastImages[c] \in Nat /\ previous[c] \in Exposures /\ delivered[c] \in Exposures
      /\ frames[c] \in Frames
    BY DEF PollTypeOK
<1>q. QED BY <1>1 DEF Exposures, Frames

\* A camera stays in turn when at most its image moves on, or is dropped by a stop.
LEMMA TurnKept ==
    ASSUME PollInv, NEW c \in Cameras, config' = config, now' \in Nat, now <= now',
           delivered'[c] = delivered[c], previous'[c] = previous[c], frames'[c] = frames[c],
           lastImages'[c] \in Nat, lastImages'[c] <= now', lastImages'[c] # 0 => Rgb(c),
           phase' # "stopped" => phase # "stopped" /\ lastImages[c] <= lastImages'[c]
    PROVE  InTurn(c)' /\ (frames'[c] # NoFrame => FrameInTurn(c)')
<1>1. /\ lastImages[c] \in Nat /\ previous[c].depth \in Nat /\ now \in Nat
      /\ delivered[c].depth \in Nat /\ delivered[c].image \in Nat
      /\ frames[c].depth \in Nat /\ frames[c].image \in Nat
    BY CameraTypes DEF PollInv, PollTypeOK
<1>2. InTurn(c) /\ (frames[c] # NoFrame => FrameInTurn(c))
    BY DEF PollInv
<1>3. Rgb(c)' <=> Rgb(c)
    BY DEF Rgb
<1>4. InTurn(c)'
    <2>1. Rgb(c) /\ phase' # "stopped" => delivered[c].image <= lastImages'[c]
        BY <1>1, <1>2 DEF InTurn
    <2>q. QED BY <1>2, <1>3, <2>1 DEF InTurn
<1>5. ASSUME frames[c] # NoFrame PROVE FrameInTurn(c)'
    <2>1. /\ frames[c].depth \in delivered[c].depth + 1 .. now'
          /\ frames[c].image \in 1 .. now'
        BY <1>1, <1>2, <1>5 DEF FrameInTurn
    <2>2. frames[c].usable /\ Rgb(c) /\ phase' # "stopped"
            => frames[c].image \in delivered[c].image .. lastImages'[c]
        BY <1>1, <1>2, <1>5 DEF FrameInTurn
    <2>q. QED BY <1>2, <1>3, <1>5, <2>1, <2>2 DEF FrameInTurn
<1>q. QED BY <1>4, <1>5

\* The poll's own state, through every step.
LEMMA PollStep ==
    ASSUME ConfigInv, PollInv, CaptureNext
    PROVE  PollInv'
<1>0. /\ PollTypeOK /\ now \in Nat
      /\ \A c \in Cameras : lastImages[c] \in Nat /\ lastImages[c] <= now
                           /\ (lastImages[c] # 0 => Rgb(c))
    BY DEF PollInv, PollTypeOK, InTurn
<1>1. CASE StartCamera
    <2>0. Cameras \ pipelines # {} /\ Cameras \ pipelines \subseteq Cameras
        BY <1>0, <1>1 DEF StartCamera, PollTypeOK
    <2>1. Min(Cameras \ pipelines) \in Cameras
        BY <2>0, NextCamera
    <2>2. PollTypeOK'
        BY <1>0, <1>1, <2>1 DEF StartCamera, PollTypeOK
    <2>q. QED BY <1>0, <1>1, <2>2, TurnKept DEF StartCamera, PollInv
<1>2. CASE Opened
    <2>1. PollTypeOK'
        BY <1>0, <1>2 DEF Opened, PollTypeOK, Phases
    <2>q. QED BY <1>0, <1>2, <2>1, TurnKept DEF Opened, PollInv
<1>3. CASE Stop
    <2>1. /\ lastImages' = [c \in Cameras |-> 0] /\ phase' = "stopped"
          /\ pipelines' = {} /\ remaining' = {}
        BY <1>3 DEF Stop, Closes
    <2>2. PollTypeOK'
        BY <1>0, <1>3, <2>1 DEF Stop, PollTypeOK, Phases
    <2>3. \A c \in Cameras : lastImages'[c] = 0
        BY <2>1
    <2>q. QED BY <1>0, <1>3, <2>1, <2>2, <2>3, TurnKept DEF Stop, PollInv
<1>4. CASE Tick
    <2>1. now' = now + 1 /\ now' \in Nat /\ now' > 0 /\ now <= now'
        BY <1>0, <1>4 DEF Tick
    <2>2. PollTypeOK'
        BY <1>0, <1>4, <2>1 DEF Tick, PollTypeOK
    <2>3. phase' = "polling" => now' > batch'.produced
        <3>1. batch.produced \in Nat
            BY <1>0 DEF PollTypeOK
        <3>q. QED BY <1>0, <1>4, <2>1, <3>1 DEF Tick, PollInv
    <2>4. \A c \in Cameras : lastImages[c] <= now'
        BY <1>0, <2>1
    <2>q. QED BY <1>0, <1>4, <2>1, <2>2, <2>3, <2>4, TurnKept DEF Tick, PollInv
<1>5. ASSUME NEW stamp \in 1 .. now, NEW fixed \in BOOLEAN,
             MeasureRobot(stamp, fixed) \/ MeasureGimbal(stamp, fixed)
      PROVE  PollInv'
    <2>1. UNCHANGED <<now, config, phase, pipelines, started, remaining, previous,
                      lastImages, frames, tracking, batch, delivered>>
        BY <1>5 DEF MeasureRobot, MeasureGimbal
    <2>2. PollTypeOK'
        BY <1>0, <2>1 DEF PollTypeOK
    <2>q. QED BY <1>0, <2>1, <2>2, TurnKept DEF PollInv
<1>6. CASE BeginPoll
    <2>1. /\ frames' = NoFrames /\ frames' \in [Cameras -> Frames]
          /\ \A c \in Cameras : frames'[c] = NoFrame
        BY <1>6 DEF BeginPoll, NoFrames, NoFrame, Frames
    <2>2. PollTypeOK'
        BY <1>0, <1>6, <2>1 DEF BeginPoll, PollTypeOK, Phases
    <2>3. \A c \in Cameras : InTurn(c)'
        BY <1>6 DEF BeginPoll, PollInv, InTurn, Rgb
    <2>q. QED BY <1>6, <2>1, <2>2, <2>3 DEF BeginPoll, PollInv
<1>7. CASE NoFrameSet
    <2>1. PollTypeOK'
        BY <1>0, <1>7 DEF NoFrameSet, PollTypeOK
    <2>q. QED BY <1>0, <1>7, <2>1, TurnKept DEF NoFrameSet, PollInv
<1>8. CASE ReadFrameSet
    <2>1. phase = "polling" /\ remaining # {}
        BY <1>8 DEF ReadFrameSet
    <2>2. Min(remaining) \in Cameras
        BY <1>0, <2>1, NextCamera DEF PollTypeOK
    <2>3. ASSUME NEW c \in Cameras, NEW depth \in 0 .. now, NEW image \in (0 .. now) \union {Missing},
                 Skip(c, depth, image) \/ LosePose(c, depth, image)
          PROVE  PollInv'
        <3>0. /\ remaining' = remaining \ {c} /\ tracking' \in {tracking, FALSE}
              /\ UNCHANGED <<now, config, phase, pipelines, started, previous, frames, batch,
                             delivered>>
            BY <2>3, PassedIs
        <3>1. /\ remaining' = remaining \ {c} /\ tracking' \in BOOLEAN
              /\ now' = now /\ config' = config /\ phase' = phase /\ pipelines' = pipelines
              /\ started' = started /\ previous' = previous /\ frames' = frames
              /\ batch' = batch /\ delivered' = delivered
            <4>1. tracking \in BOOLEAN
                BY <1>0 DEF PollTypeOK
            <4>2. tracking' \in BOOLEAN
                BY <3>0, <4>1, Zenon
            <4>q. QED BY <3>0, <4>2
        <3>2. /\ lastImages' \in [Cameras -> Nat]
              /\ \A d \in Cameras : lastImages[d] <= lastImages'[d] /\ lastImages'[d] <= now
              /\ \A d \in Cameras : lastImages'[d] # 0 => Rgb(d)
            <4>1. CASE lastImages' = lastImages
                BY <1>0, <4>1 DEF PollTypeOK
            <4>2. CASE /\ Rgb(c) /\ image \in 0 .. now /\ lastImages[c] <= image
                       /\ lastImages' = [lastImages EXCEPT ![c] = image]
                BY <1>0, <2>2, <4>2 DEF PollTypeOK
            <4>q. QED BY <2>2, <2>3, <4>1, <4>2, PassedIs
        <3>3. PollTypeOK'
            BY <1>0, <2>1, <3>1, <3>2 DEF PollTypeOK
        <3>4. ASSUME NEW d \in Cameras
              PROVE  InTurn(d)' /\ (frames'[d] # NoFrame => FrameInTurn(d)')
            <4>1. /\ lastImages'[d] \in Nat /\ lastImages'[d] <= now'
                  /\ lastImages[d] <= lastImages'[d] /\ now' \in Nat /\ now <= now'
                BY <1>0, <3>1, <3>2
            <4>2. lastImages'[d] # 0 => Rgb(d)
                BY <3>2, Zenon
            <4>q. QED BY <3>1, <4>1, <4>2, TurnKept
        <3>5. phase' = "polling" => now' > batch'.produced
            BY <3>1 DEF PollInv
        <3>q. QED BY <3>3, <3>4, <3>5 DEF PollInv
    <2>4. ASSUME NEW c \in Cameras, NEW depth \in 0 .. now, NEW image \in (0 .. now) \union {Missing},
                 NEW calm \in BOOLEAN, Emit(c, depth, image, calm)
          PROVE  PollInv'
        <3>1. PICK stamp \in 1 .. now, candidate \in BOOLEAN :
                 /\ Picked(c, image) = [stamp |-> stamp, candidate |-> candidate]
                 /\ candidate => lastImages[c] <= stamp
                 /\ lastImages' = IF Rgb(c) /\ candidate THEN [lastImages EXCEPT ![c] = stamp]
                                  ELSE lastImages
                 /\ depth > previous[c].depth
                 /\ config.version = 1 => Paired(depth, stamp)
                 /\ config.posed => Posed(robot, gimbal, c, depth)
                 /\ frames' = [frames EXCEPT ![c] =
                      [depth |-> depth, image |-> IF config.version = 1 THEN depth ELSE stamp,
                       usable |-> Usable(c, depth, Picked(c, image), calm)]]
                 /\ previous' = [previous EXCEPT ![c] = [depth |-> depth, image |-> stamp]]
            BY <2>4, EmitIs
        <3> DEFINE usable == Usable(c, depth, Picked(c, image), calm)
                   f == [depth |-> depth, usable |-> usable,
                         image |-> IF config.version = 1 THEN depth ELSE stamp]
        <3>2. /\ remaining' = remaining \ {c} /\ now' = now /\ config' = config
              /\ phase' = phase /\ pipelines' = pipelines /\ started' = started
              /\ tracking' = tracking /\ batch' = batch /\ delivered' = delivered
            BY <2>4 DEF Emit
        <3>3. usable \in BOOLEAN /\ (usable => candidate /\ Paired(depth, stamp))
            BY <3>1 DEF Usable
        <3>4. /\ depth \in 1 .. now /\ depth \in Nat /\ stamp \in Nat
              /\ delivered[c].depth \in Nat /\ delivered[c].image \in Nat
              /\ delivered[c].depth < depth
              /\ Rgb(c) => delivered[c].image <= lastImages[c]
            <4>1. /\ previous[c].depth \in Nat /\ delivered[c].depth \in Nat
                  /\ delivered[c].image \in Nat /\ InTurn(c)
                BY <1>0, <2>2, CameraTypes DEF PollInv
            <4>q. QED BY <1>0, <2>1, <3>1, <4>1 DEF InTurn
        <3>5. Paired(depth, depth)
            BY <3>4, CaptureAssumption DEF Paired, Apart
        <3>6. f \in Frames /\ frames' = [frames EXCEPT ![c] = f]
            BY <3>1, <3>3, <3>4 DEF Frames
        <3>7. /\ previous' \in [Cameras -> Exposures] /\ previous'[c].depth = depth
              /\ \A d \in Cameras : d # c => previous'[d] = previous[d]
            BY <1>0, <2>2, <3>1, <3>4 DEF Exposures, PollTypeOK
        <3>8. /\ lastImages' \in [Cameras -> Nat] /\ lastImages'[c] <= now
              /\ \A d \in Cameras : d # c => lastImages'[d] = lastImages[d]
              /\ lastImages'[c] # 0 => Rgb(c)
              /\ lastImages[c] <= lastImages'[c]
            <4>1. CASE Rgb(c) /\ candidate
                BY <1>0, <2>2, <3>1, <3>4, <4>1 DEF PollTypeOK
            <4>2. CASE ~(Rgb(c) /\ candidate)
                BY <1>0, <2>2, <3>1, <4>2 DEF PollTypeOK
            <4>q. QED BY <4>1, <4>2
        <3>9. /\ frames'[c] = f /\ frames' \in [Cameras -> Frames]
              /\ \A d \in Cameras : d # c => frames'[d] = frames[d]
            BY <1>0, <2>2, <3>6 DEF PollTypeOK
        <3>10. PollTypeOK'
            BY <1>0, <2>1, <3>2, <3>7, <3>8, <3>9 DEF PollTypeOK
        <3>11. /\ f.depth = depth /\ f.usable = usable
               /\ f.image = IF config.version = 1 THEN depth ELSE stamp
            OBVIOUS
        <3>12. Rgb(c) => f.image = stamp
            BY <3>11 DEF ConfigInv, Rgb
        <3>13. usable => Paired(f.depth, f.image)
            BY <3>3, <3>5, <3>11
        <3> HIDE DEF f, usable
        <3>14. InTurn(c)'
            <4>1. lastImages[c] \in Nat /\ lastImages'[c] \in Nat
                BY <1>0, <2>2, <3>8
            <4>2. Rgb(c) => delivered[c].image <= lastImages'[c]
                BY <3>4, <3>8, <4>1
            <4>3. lastImages'[c] <= now' /\ (lastImages'[c] # 0 => Rgb(c)')
                <5>1. lastImages'[c] # 0 => Rgb(c)
                    BY <3>8, Zenon
                <5>2. c \in config'.color <=> c \in config.color
                    BY <3>2
                <5>3. lastImages'[c] # 0 => Rgb(c)'
                    BY <5>1, <5>2, Zenon DEF Rgb
                <5>q. QED BY <3>2, <3>8, <5>3
            <4>4. delivered'[c].depth <= previous'[c].depth
                BY <3>2, <3>4, <3>7
            <4>5. Rgb(c)' /\ phase' # "stopped" => delivered'[c].image <= lastImages'[c]
                <5>1. /\ c \in config'.color <=> c \in config.color
                      /\ delivered'[c].image <= lastImages'[c] <=> delivered[c].image <= lastImages'[c]
                    BY <3>2
                <5>q. QED BY <4>2, <5>1, Zenon DEF Rgb
            <4>q. QED BY <4>3, <4>4, <4>5 DEF InTurn
        <3>15. FrameInTurn(c)'
            <4>1. f.depth \in delivered[c].depth + 1 .. now /\ f.image \in 1 .. now
                BY <1>0, <3>1, <3>4, <3>11
            <4>2. usable /\ Rgb(c) => f.image \in delivered[c].image .. lastImages'[c]
                <5> SUFFICES ASSUME usable, Rgb(c)
                             PROVE  f.image \in delivered[c].image .. lastImages'[c]
                    OBVIOUS
                <5>1. lastImages'[c] = stamp /\ lastImages[c] <= stamp /\ lastImages[c] \in Nat
                    BY <1>0, <2>2, <3>1, <3>3 DEF PollTypeOK
                <5>q. QED BY <3>4, <3>12, <5>1
            <4>3. f.usable => Paired(f.depth, f.image)
                BY <3>11, <3>13
            <4>4. f.usable /\ Rgb(c)' /\ phase' # "stopped" => f.image \in delivered'[c].image .. lastImages'[c]
                <5>1. /\ c \in config'.color <=> c \in config.color
                      /\ delivered'[c].image .. lastImages'[c] = delivered[c].image .. lastImages'[c]
                      /\ f.usable = usable
                    BY <3>2, <3>11
                <5>q. QED BY <4>2, <5>1, Zenon DEF Rgb
            <4>5. f.depth <= previous'[c].depth
                BY <3>4, <3>7, <3>11
            <4>6. frames'[c] = f /\ delivered' = delivered /\ now' = now
                BY <3>2, <3>9
            <4>q. QED BY <3>2, <3>9, <4>1, <4>3, <4>4, <4>5 DEF FrameInTurn
        <3>16. ASSUME NEW d \in Cameras, d # c
               PROVE  InTurn(d)' /\ (frames'[d] # NoFrame => FrameInTurn(d)')
            BY <1>0, <3>2, <3>7, <3>8, <3>9, <3>16, TurnKept
        <3>17. ASSUME NEW d \in Cameras
               PROVE  InTurn(d)' /\ (frames'[d] # NoFrame => FrameInTurn(d)')
            <4>1. CASE d = c
                BY <3>14, <3>15, <4>1 DEF InTurn, FrameInTurn, Rgb
            <4>q. QED BY <3>16, <4>1
        <3>18. phase' = "polling" => now' > batch'.produced
            BY <3>2 DEF PollInv
        <3>q. QED BY <3>10, <3>17, <3>18 DEF PollInv
    <2>q. QED BY <1>8, <2>2, <2>3, <2>4 DEF ReadFrameSet
<1>9. CASE FinishPoll
    <2>1. /\ phase = "polling" /\ phase' = "idle" /\ remaining = {}
          /\ batch' = [frames |-> frames, tracking |-> tracking, produced |-> now]
          /\ delivered' = [c \in Cameras |->
               IF frames[c] = NoFrame THEN delivered[c]
               ELSE [depth |-> frames[c].depth,
                     image |-> IF frames[c].usable THEN frames[c].image ELSE delivered[c].image]]
          /\ frames' = NoFrames /\ tracking' = TRUE
          /\ UNCHANGED <<now, config, pipelines, started, remaining, previous, lastImages>>
        BY <1>9 DEF FinishPoll
    <2>2. frames' \in [Cameras -> Frames] /\ \A c \in Cameras : frames'[c] = NoFrame
        BY <2>1 DEF NoFrames, NoFrame, Frames
    <2>3. ASSUME NEW c \in Cameras
          PROVE  /\ delivered'[c] \in Exposures /\ delivered'[c].depth <= previous[c].depth
                 /\ Rgb(c) => delivered'[c].image <= lastImages[c]
        <3>1. CASE frames[c] = NoFrame
            BY <1>0, <2>1, <2>3, <3>1, CameraTypes DEF PollInv, InTurn
        <3>2. CASE frames[c] # NoFrame
            <4>1. /\ frames[c].depth \in Nat /\ frames[c].image \in Nat /\ FrameInTurn(c) /\ InTurn(c)
                  /\ delivered[c].image \in Nat /\ lastImages[c] \in Nat
                  /\ delivered'[c] = [depth |-> frames[c].depth,
                        image |-> IF frames[c].usable THEN frames[c].image ELSE delivered[c].image]
                BY <1>0, <2>1, <2>3, <3>2, CameraTypes DEF PollInv
            <4>2. delivered'[c] \in Exposures /\ delivered'[c].depth <= previous[c].depth
                BY <4>1 DEF Exposures, FrameInTurn
            <4>3. Rgb(c) => delivered'[c].image <= lastImages[c]
                BY <2>1, <4>1 DEF FrameInTurn, InTurn
            <4>q. QED BY <4>2, <4>3
        <3>q. QED BY <3>1, <3>2
    <2>4. delivered' \in [Cameras -> Exposures]
        BY <2>1, <2>3
    <2>5. batch' \in [frames : [Cameras -> Frames], tracking : BOOLEAN, produced : Nat]
        BY <1>0, <2>1 DEF PollTypeOK
    <2>6. PollTypeOK'
        <3>1. tracking' \in BOOLEAN /\ phase' \in Phases
            BY <2>1 DEF Phases
        <3>q. QED BY <1>0, <2>1, <2>2, <2>4, <2>5, <3>1 DEF PollTypeOK
    <2>7. \A c \in Cameras : InTurn(c)'
        BY <1>0, <2>1, <2>3 DEF InTurn, Rgb
    <2>q. QED BY <2>1, <2>2, <2>6, <2>7 DEF PollInv
<1>q. QED BY <1>1, <1>2, <1>3, <1>4, <1>5, <1>6, <1>7, <1>8, <1>9 DEF CaptureNext

\* Where a frame comes from: it stays, is dropped, or its frame set was just emitted.
LEMMA FrameSteps ==
    ASSUME PollInv, CaptureNext, NEW c \in Cameras
    PROVE  /\ \/ frames'[c] \in {frames[c], NoFrame}
              \/ \E depth \in 0 .. now, image \in (0 .. now) \union {Missing}, calm \in BOOLEAN :
                   Emit(c, depth, image, calm)
           /\ batch'.frames \in {batch.frames, frames}
<1>1. CASE StartCamera \/ Opened \/ Stop \/ Tick \/ NoFrameSet
    BY <1>1 DEF StartCamera, Opened, Stop, Tick, NoFrameSet
<1>2. CASE \E stamp \in 1 .. now, fixed \in BOOLEAN :
             MeasureRobot(stamp, fixed) \/ MeasureGimbal(stamp, fixed)
    BY <1>2 DEF MeasureRobot, MeasureGimbal
<1>3. CASE BeginPoll \/ FinishPoll
    <2>1. frames' = NoFrames /\ batch'.frames \in {batch.frames, frames}
        BY <1>3 DEF BeginPoll, FinishPoll
    <2>2. frames'[c] = NoFrame
        BY <2>1 DEF NoFrames
    <2>q. QED BY <2>1, <2>2
<1>4. CASE ReadFrameSet
    <2>1. PICK depth \in 0 .. now, image \in (0 .. now) \union {Missing} :
              LET d == Min(remaining) IN
              \/ Skip(d, depth, image)
              \/ LosePose(d, depth, image)
              \/ \E calm \in BOOLEAN : Emit(d, depth, image, calm)
        BY <1>4 DEF ReadFrameSet
    <2>2. CASE Skip(Min(remaining), depth, image) \/ LosePose(Min(remaining), depth, image)
        BY <2>2 DEF Skip, LosePose
    <2>3. ASSUME NEW calm \in BOOLEAN, Emit(Min(remaining), depth, image, calm)
          PROVE  /\ c = Min(remaining) \/ frames'[c] = frames[c]
                 /\ batch'.frames = batch.frames
        <3>1. PICK f : frames' = [frames EXCEPT ![Min(remaining)] = f] /\ batch' = batch
            BY <2>3 DEF Emit
        <3>2. frames \in [Cameras -> Frames]
            BY DEF PollInv, PollTypeOK
        <3>q. QED BY <3>1, <3>2
    <2>q. QED BY <2>1, <2>2, <2>3
<1>q. QED BY <1>1, <1>2, <1>3, <1>4 DEF CaptureNext

\* What the histories answer, the logs answer.
LEMMA EndsAreSegments ==
    ASSUME PosesInv
    PROVE  /\ InOrder(robot) /\ InOrder(gimbal) /\ InOrder(robotLog) /\ InOrder(gimbalLog)
           /\ Segment(robot, robotLog) /\ Segment(gimbal, gimbalLog)
<1>1. HistoryInv(robot, robotLog) /\ HistoryInv(gimbal, gimbalLog)
    BY DEF PosesInv
<1>q. QED BY <1>1 DEF HistoryInv, EndOf, StandsAt, Segment

\* A frame is emitted measured.
LEMMA EmittedMeasured ==
    ASSUME ConfigInv, PosesInv, PollInv, NEW c \in Cameras, NEW depth \in 0 .. now,
           NEW image \in (0 .. now) \union {Missing}, NEW calm \in BOOLEAN,
           Emit(c, depth, image, calm)
    PROVE  \E f \in Frames : frames'[c] = f /\ FrameMeasured(c, f)
<1>1. PICK stamp \in 1 .. now, candidate \in BOOLEAN :
         /\ Picked(c, image) = [stamp |-> stamp, candidate |-> candidate]
         /\ candidate => lastImages[c] <= stamp
         /\ lastImages' = IF Rgb(c) /\ candidate THEN [lastImages EXCEPT ![c] = stamp]
                          ELSE lastImages
         /\ depth > previous[c].depth
         /\ config.version = 1 => Paired(depth, stamp)
         /\ config.posed => Posed(robot, gimbal, c, depth)
         /\ frames' = [frames EXCEPT ![c] =
              [depth |-> depth, image |-> IF config.version = 1 THEN depth ELSE stamp,
               usable |-> Usable(c, depth, Picked(c, image), calm)]]
         /\ previous' = [previous EXCEPT ![c] = [depth |-> depth, image |-> stamp]]
    BY EmitIs
<1> DEFINE usable == Usable(c, depth, Picked(c, image), calm)
           shown == IF config.version = 1 THEN depth ELSE stamp
           f == [depth |-> depth, image |-> shown, usable |-> usable]
<1>2. depth \in Nat /\ stamp \in Nat /\ config.radius \in Nat /\ config.version \in {1, 2}
    BY CaptureAssumption DEF PollInv, PollTypeOK, ConfigInv
<1>3. usable \in BOOLEAN
    BY DEF Usable
<1>4. /\ usable => (config.version = 2 /\ config.posed => Posed(robot, gimbal, c, stamp))
      /\ usable => (Rgb(c) => GatePasses(c, depth, stamp, calm, robot, gimbal))
    BY <1>1 DEF Usable
<1>5. /\ \A t \in Nat : Posed(robot, gimbal, c, t) => Posed(robotLog, gimbalLog, c, t)
      /\ GatePasses(c, depth, stamp, calm, robot, gimbal)
            => GatePasses(c, depth, stamp, TRUE, robotLog, gimbalLog)
    <2>1. /\ InOrder(robot) /\ InOrder(gimbal) /\ InOrder(robotLog) /\ InOrder(gimbalLog)
          /\ Segment(robot, robotLog) /\ Segment(gimbal, gimbalLog)
        BY EndsAreSegments
    <2>2. \A t \in Nat : Posed(robot, gimbal, c, t) => Posed(robotLog, gimbalLog, c, t)
        BY <2>1, PosedInWhole
    <2>3. \A d, i \in Nat : \A m : config.radius \in Nat =>
             (GatePasses(c, d, i, m, robot, gimbal) => GatePasses(c, d, i, TRUE, robotLog, gimbalLog))
        BY <2>1, PosedInWhole
    <2>q. QED BY <1>2, <2>2, <2>3
<1>6. shown \in Nat
    BY <1>2
<1>7. config.posed => Posed(robotLog, gimbalLog, c, depth)
    BY <1>1, <1>2, <1>5
<1>8. usable /\ config.posed => Posed(robotLog, gimbalLog, c, shown)
    <2>1. CASE config.version = 1
        BY <1>7, <2>1
    <2>2. CASE config.version = 2
        BY <1>2, <1>4, <1>5, <2>2
    <2>q. QED BY <1>2, <2>1, <2>2
<1>9. usable /\ Rgb(c) => GatePasses(c, depth, shown, TRUE, robotLog, gimbalLog)
    <2>1. Rgb(c) => shown = stamp
        BY DEF ConfigInv, Rgb
    <2>q. QED BY <1>4, <1>5, <2>1
<1>10. /\ f.depth = depth /\ f.image = shown /\ f.usable = usable
       /\ frames'[c] = f
    BY <1>1 DEF PollInv, PollTypeOK
<1> HIDE DEF usable, shown
<1>11. f \in Frames
    BY <1>2, <1>3, <1>6 DEF Frames
<1> HIDE DEF f
<1>12. FrameMeasured(c, f)
    BY <1>7, <1>8, <1>9, <1>10 DEF FrameMeasured
<1>q. QED BY <1>10, <1>11, <1>12

\* What is, and was, delivered stays measured.
LEMMA MeasuredStep ==
    ASSUME CaptureSafe, PosesInv', Segment(robotLog, robotLog'), Segment(gimbalLog, gimbalLog'),
           CaptureNext
    PROVE  MeasuredInv'
<1>1. ConfigInv /\ PosesInv /\ PollInv /\ MeasuredInv /\ config' = config
    BY PoseSteps DEF CaptureSafe
<1>2. ASSUME NEW c \in Cameras, NEW f \in Frames, FrameMeasured(c, f)
      PROVE  FrameMeasured(c, f)'
    BY <1>1, <1>2, MeasuredStays
<1>3. ASSUME NEW c \in Cameras
      PROVE  /\ \E f \in Frames : frames'[c] = f /\ FrameMeasured(c, f)
             /\ \E f \in Frames : batch'.frames[c] = f /\ FrameMeasured(c, f)
    <2>1. /\ frames[c] \in Frames /\ batch.frames[c] \in Frames
          /\ FrameMeasured(c, frames[c]) /\ FrameMeasured(c, batch.frames[c])
        BY <1>1 DEF PollInv, PollTypeOK, MeasuredInv
    <2>2. NoFrame \in Frames /\ FrameMeasured(c, NoFrame)
        BY DEF NoFrame, Frames, FrameMeasured
    <2>3. \E f \in Frames : frames'[c] = f /\ FrameMeasured(c, f)
        <3>1. CASE frames'[c] \in {frames[c], NoFrame}
            BY <2>1, <2>2, <3>1
        <3>2. CASE \E depth \in 0 .. now, image \in (0 .. now) \union {Missing}, calm \in BOOLEAN :
                     Emit(c, depth, image, calm)
            BY <1>1, <3>2, EmittedMeasured
        <3>q. QED BY <1>1, <3>1, <3>2, FrameSteps
    <2>4. batch'.frames \in {batch.frames, frames}
        BY <1>1, FrameSteps
    <2>q. QED BY <2>1, <2>3, <2>4
<1>4. ASSUME NEW c \in Cameras
      PROVE  FrameMeasured(c, frames[c])' /\ FrameMeasured(c, batch.frames[c])'
    <2>1. PICK f \in Frames : frames'[c] = f /\ FrameMeasured(c, f)
        BY <1>3
    <2>2. PICK g \in Frames : batch'.frames[c] = g /\ FrameMeasured(c, g)
        BY <1>3
    <2>3. FrameMeasured(c, f)' /\ FrameMeasured(c, g)'
        BY <1>2, <2>1, <2>2
    <2>q. QED BY <2>1, <2>2, <2>3 DEF FrameMeasured
<1>q. QED BY <1>4 DEF MeasuredInv

(***************************************************************************)
(* The theorems                                                            *)
(***************************************************************************)

\* The invariant holds at the start.
LEMMA CaptureSafeInit ==
    ASSUME CaptureInit PROVE CaptureSafe
<1> USE DEF CaptureInit
<1>1. ConfigInv
    BY DEF ConfigInv
<1>2. PosesInv
    <2>1. InOrder(<<>>)
        BY DEF InOrder
    <2>2. /\ InOrder(robot) /\ InOrder(gimbal) /\ robotLog = robot /\ gimbalLog = gimbal
          /\ ~config.trace => robot = <<>> /\ gimbal = <<>>
        BY <2>1, CaptureAssumption
    <2>3. ASSUME NEW h, InOrder(h) PROVE EndOf(h, h)
        <3>1. Len(h) \in Nat /\ Len(h) - Len(h) = 0
            BY <2>3, OrderIs
        <3>2. StandsAt(h, h, 0)
            BY <3>1 DEF StandsAt
        <3>q. QED BY <3>1, <3>2 DEF EndOf
    <2>4. Len(<<>>) <= Capacity
        BY HistorySizeAssumption
    <2>5. config.trace \in BOOLEAN
        BY <1>1 DEF ConfigInv
    <2>6. Len(robot) <= Capacity \/ config.trace
        BY <2>2, <2>4, <2>5
    <2>7. Len(gimbal) <= Capacity \/ config.trace
        BY <2>2, <2>4, <2>5
    <2>q. QED BY <2>2, <2>3, <2>6, <2>7 DEF PosesInv, HistoryInv
<1>3. /\ \A c \in Cameras : /\ frames[c] = NoFrame /\ batch.frames[c] = NoFrame /\ lastImages[c] = 0
                            /\ previous[c].depth = 0 /\ delivered[c].depth = 0
                            /\ delivered[c].image = 0
      /\ now = 1 /\ phase = "opening"
    BY DEF NoFrames, NoPrevious
<1>4. PollTypeOK
    <2>1. NoFrames \in [Cameras -> Frames] /\ NoPrevious \in [Cameras -> Exposures]
        BY DEF NoFrames, NoFrame, NoPrevious, Frames, Exposures
    <2>2. batch \in [frames : [Cameras -> Frames], tracking : BOOLEAN, produced : Nat]
        BY <2>1
    <2>q. QED BY <2>1, <2>2 DEF PollTypeOK, Phases
<1>5. PollInv
    BY <1>3, <1>4 DEF PollInv, InTurn
<1>6. MeasuredInv
    BY <1>3 DEF MeasuredInv, FrameMeasured
<1>q. QED BY <1>1, <1>2, <1>5, <1>6 DEF CaptureSafe

\* Every step keeps it.
LEMMA CaptureSafeStep ==
    ASSUME CaptureSafe, [CaptureNext]_captureVars PROVE CaptureSafe'
<1>1. ConfigInv /\ PosesInv /\ PollInv /\ MeasuredInv /\ now \in Nat
    BY DEF CaptureSafe, PollInv, PollTypeOK
<1>2. CASE CaptureNext
    <2>1. ConfigInv'
        BY <1>1, <1>2, PoseSteps DEF ConfigInv
    <2>2. PosesInv' /\ Segment(robotLog, robotLog') /\ Segment(gimbalLog, gimbalLog')
        BY <1>1, <1>2, PosesStep
    <2>3. PollInv'
        BY <1>1, <1>2, PollStep
    <2>4. MeasuredInv'
        BY <1>2, <2>2, MeasuredStep
    <2>q. QED BY <2>1, <2>2, <2>3, <2>4 DEF CaptureSafe
<1>3. CASE UNCHANGED captureVars
    <2> USE DEF captureVars, poseVars
    <2>1. ConfigInv' /\ PosesInv'
        BY <1>1, <1>3 DEF ConfigInv, PosesInv, HistoryInv
    <2>2. PollInv'
        BY <1>1, <1>3 DEF PollInv, PollTypeOK, InTurn, FrameInTurn, Rgb
    <2>3. MeasuredInv'
        <3>1. \A c \in Cameras : frames'[c] \in Frames /\ batch'.frames[c] \in Frames
            BY <1>1, <1>3 DEF PollInv, PollTypeOK
        <3>2. Segment(robotLog, robotLog') /\ Segment(gimbalLog, gimbalLog')
            BY <1>1, <1>3, SegmentOfItself DEF PosesInv, HistoryInv
        <3>3. config' = config
            BY <1>3
        <3>4. ASSUME NEW c \in Cameras, NEW f \in Frames, FrameMeasured(c, f)
              PROVE  FrameMeasured(c, f)'
            BY <1>1, <2>1, <3>2, <3>3, <3>4, MeasuredStays
        <3>5. ASSUME NEW c \in Cameras, NEW f \in Frames, NEW g \in Frames,
                     frames'[c] = f, batch'.frames[c] = g
              PROVE  FrameMeasured(c, frames[c])' /\ FrameMeasured(c, batch.frames[c])'
            <4>1. frames[c] = f /\ batch.frames[c] = g
                BY <1>3, <3>5
            <4>2. FrameMeasured(c, f) /\ FrameMeasured(c, g)
                BY <1>1, <4>1 DEF MeasuredInv
            <4>3. FrameMeasured(c, f)' /\ FrameMeasured(c, g)'
                BY <3>4, <4>2
            <4>q. QED BY <3>5, <4>3 DEF FrameMeasured
        <3>q. QED BY <3>1, <3>5 DEF MeasuredInv
    <2>q. QED BY <2>1, <2>2, <2>3 DEF CaptureSafe
<1>q. QED BY <1>2, <1>3


\* So it always holds.
LEMMA CaptureSafeAlways == CaptureSpec => []CaptureSafe
<1>1. CaptureInit => CaptureSafe
    BY CaptureSafeInit
<1>2. CaptureSafe /\ [CaptureNext]_captureVars => CaptureSafe'
    BY CaptureSafeStep
<1>q. QED BY <1>1, <1>2, PTL DEF CaptureSpec

\* Whatever fails, the capture's state is consistent, and every pose it has delivered
\* was measured (realsense.poll, pose_history).
THEOREM CaptureHolds == CaptureSpec => []CaptureInv
<1>1. CaptureSafe => CaptureInv
    <2> SUFFICES ASSUME CaptureSafe PROVE CaptureInv
        OBVIOUS
    <2>1. PosesInv /\ PollInv /\ MeasuredInv /\ PollTypeOK
        BY DEF CaptureSafe, PollInv
    <2>2. \A c \in Cameras : lastImages[c] # 0 => Rgb(c)
        BY <2>1 DEF PollInv, InTurn
    <2>3. \A h \in Histories : InOrder(h) /\ (Len(h) <= Capacity \/ config.trace)
        BY <2>1 DEF Histories, PosesInv, HistoryInv
    <2>4. CaptureTypeOK
        BY <2>1, <2>2, <2>3 DEF CaptureTypeOK, PollTypeOK
    <2>5. PosesAreMeasured
        BY <2>1 DEF PosesAreMeasured, MeasuredInv, FrameMeasured
    <2>q. QED BY <2>4, <2>5 DEF CaptureInv
<1>q. QED BY <1>1, CaptureSafeAlways, PTL

\* No step answers a time from other samples than before (pose_history._append).
THEOREM AnswersKept == CaptureSpec => AnswersNeverChange
<1>1. CaptureSafe /\ [CaptureNext]_captureVars =>
        [\A t \in 1 .. now :
           /\ Support(robot, t) # {} => Support(robot', t) \in {{}, Support(robot, t)}
           /\ Support(gimbal, t) # {} => Support(gimbal', t) \in {{}, Support(gimbal, t)}]_captureVars
    <2> SUFFICES ASSUME CaptureSafe, CaptureNext, NEW t \in 1 .. now
                 PROVE  /\ Support(robot, t) # {} => Support(robot', t) \in {{}, Support(robot, t)}
                        /\ Support(gimbal, t) # {} => Support(gimbal', t) \in {{}, Support(gimbal, t)}
        OBVIOUS
    <2>1. PosesInv /\ now \in Nat /\ t \in Nat
        BY DEF CaptureSafe, PollInv, PollTypeOK
    <2>2. ASSUME NEW poses, NEW log, HistoryInv(poses, log), ~config.trace,
                 NEW stamp \in Nat, NEW fixed \in BOOLEAN, Appends(poses, stamp)
          PROVE  Support(poses, t) # {} =>
                   Support(Extended(poses, stamp, fixed), t) \in {{}, Support(poses, t)}
        <3> DEFINE new == Extended(poses, stamp, fixed)
                   grown == Append(poses, [stamp |-> stamp, tracked |-> fixed])
        <3>1. /\ InOrder(new) /\ InOrder(grown) /\ InOrder(poses)
              /\ Segment(poses, grown) /\ Segment(new, grown)
            BY <2>2, HistoryGrows DEF HistoryInv
        <3> HIDE DEF new, grown
        <3>2. /\ Support(poses, t) \in {{}, Support(grown, t)}
              /\ Support(new, t) \in {{}, Support(grown, t)}
            BY <2>1, <3>1, SegmentAnswers
        <3>q. QED BY <3>2 DEF new
    <2>3. CASE UNCHANGED poseVars
        BY <2>3 DEF poseVars
    <2>4. ASSUME NEW stamp \in 1 .. now, NEW fixed \in BOOLEAN, MeasureRobot(stamp, fixed)
          PROVE  /\ Support(robot, t) # {} => Support(robot', t) \in {{}, Support(robot, t)}
                 /\ Support(gimbal, t) # {} => Support(gimbal', t) \in {{}, Support(gimbal, t)}
        <3>1. /\ ~config.trace /\ Appends(robot, stamp) /\ stamp \in Nat
              /\ robot' = Extended(robot, stamp, fixed) /\ gimbal' = gimbal
            BY <2>4 DEF MeasureRobot
        <3>q. QED BY <2>1, <2>2, <3>1 DEF PosesInv
    <2>5. ASSUME NEW stamp \in 1 .. now, NEW fixed \in BOOLEAN, MeasureGimbal(stamp, fixed)
          PROVE  /\ Support(robot, t) # {} => Support(robot', t) \in {{}, Support(robot, t)}
                 /\ Support(gimbal, t) # {} => Support(gimbal', t) \in {{}, Support(gimbal, t)}
        <3>1. /\ ~config.trace /\ Appends(gimbal, stamp) /\ stamp \in Nat
              /\ gimbal' = Extended(gimbal, stamp, fixed) /\ robot' = robot
            BY <2>5 DEF MeasureGimbal
        <3>q. QED BY <2>1, <2>2, <3>1 DEF PosesInv
    <2>q. QED BY <2>3, <2>4, <2>5, PoseSteps
<1>q. QED BY <1>1, CaptureSafeAlways, PTL DEF CaptureSpec, AnswersNeverChange

\* Only the end of a poll delivers, and only the clock and it change what users see.
LEMMA UserSteps ==
    ASSUME CaptureNext
    PROVE  \/ UNCHANGED <<now, batch, delivered>>
           \/ Tick
           \/ FinishPoll
<1>1. CASE StartCamera \/ Opened \/ Stop \/ BeginPoll \/ NoFrameSet
    BY <1>1 DEF StartCamera, Opened, Stop, BeginPoll, NoFrameSet
<1>2. CASE \E stamp \in 1 .. now, fixed \in BOOLEAN :
             MeasureRobot(stamp, fixed) \/ MeasureGimbal(stamp, fixed)
    BY <1>2 DEF MeasureRobot, MeasureGimbal
<1>3. CASE ReadFrameSet
    <2>1. PICK depth \in 0 .. now, image \in (0 .. now) \union {Missing} :
              LET d == Min(remaining) IN
              \/ Skip(d, depth, image)
              \/ LosePose(d, depth, image)
              \/ \E calm \in BOOLEAN : Emit(d, depth, image, calm)
        BY <1>3 DEF ReadFrameSet
    <2>q. QED BY <2>1 DEF Skip, LosePose, Emit
<1>q. QED BY <1>1, <1>2, <1>3 DEF CaptureNext

\* A color camera never delivers a usable image older than one before (realsense._image).
THEOREM ColorsInOrder == CaptureSpec => ColorNeverGoesBack
<1>1. CaptureSafe /\ [CaptureNext]_captureVars =>
        [\A c \in Cameras : Rgb(c) => delivered'[c].image >= delivered[c].image]_captureVars
    <2> SUFFICES ASSUME CaptureSafe, CaptureNext, NEW c \in Cameras, Rgb(c)
                 PROVE  delivered'[c].image >= delivered[c].image
        OBVIOUS
    <2>1. /\ PollInv /\ delivered[c].image \in Nat
          /\ frames[c] # NoFrame => FrameInTurn(c)
        BY CameraTypes DEF CaptureSafe, PollInv
    <2>2. CASE delivered' = delivered
        BY <2>1, <2>2
    <2>3. CASE FinishPoll
        <3>1. /\ phase = "polling"
              /\ delivered'[c] = IF frames[c] = NoFrame THEN delivered[c]
                   ELSE [depth |-> frames[c].depth,
                         image |-> IF frames[c].usable THEN frames[c].image ELSE delivered[c].image]
            BY <2>3 DEF FinishPoll
        <3>2. CASE frames[c] = NoFrame \/ ~frames[c].usable
            BY <2>1, <3>1, <3>2
        <3>3. CASE frames[c] # NoFrame /\ frames[c].usable
            <4>1. frames[c].image \in delivered[c].image .. lastImages[c]
                BY <2>1, <3>1, <3>3 DEF FrameInTurn
            <4>2. delivered'[c].image = frames[c].image
                BY <3>1, <3>3
            <4>q. QED BY <2>1, <4>1, <4>2
        <3>q. QED BY <3>2, <3>3
    <2>q. QED BY <2>2, <2>3, UserSteps DEF Tick
<1>q. QED BY <1>1, CaptureSafeAlways, PTL DEF CaptureSpec, ColorNeverGoesBack

\* The capture implements the frame source: every poll delivers frames in order, none
\* ahead of its batch, and only images that belong to their depth (realsense.poll).
THEOREM CaptureIsSource == CaptureSpec => CaptureImplementsFrameSource
<1>1. CaptureInit => Source!SourceInit
    <2> SUFFICES ASSUME CaptureInit PROVE Source!SourceInit
        OBVIOUS
    <2>1. now = 1 /\ delivered = NoPrevious
          /\ batch = [frames |-> NoFrames, tracking |-> TRUE, produced |-> 0]
        BY DEF CaptureInit
    <2>2. [c \in Cameras |-> delivered[c].depth] = [c \in Cameras |-> 0]
        BY <2>1 DEF NoPrevious
    <2>q. QED BY <2>1, <2>2 DEF Source!SourceInit, Source!NoFrames, Source!NoFrame, NoFrames, NoFrame
<1>2. CaptureSafe /\ [CaptureNext]_captureVars => [Source!SourceNext]_(Source!sourceVars)
    <2> SUFFICES ASSUME CaptureSafe, [CaptureNext]_captureVars
                 PROVE  Source!SourceNext \/ UNCHANGED Source!sourceVars
        OBVIOUS
    <2>1. CASE UNCHANGED <<now, batch, delivered>>
        BY <2>1 DEF Source!sourceVars
    <2>2. CASE Tick
        <3>1. now < MaxTime /\ now' = now + 1 /\ batch' = batch /\ delivered' = delivered
            BY <2>2 DEF Tick
        <3>q. QED BY <3>1 DEF Source!SourceNext, Source!Passes
    <2>3. CASE FinishPoll
        <3>1. /\ PollTypeOK /\ phase = "polling" /\ now' = now
              /\ batch' = [frames |-> frames, tracking |-> tracking, produced |-> now]
              /\ delivered' = [c \in Cameras |->
                   IF frames[c] = NoFrame THEN delivered[c]
                   ELSE [depth |-> frames[c].depth,
                         image |-> IF frames[c].usable THEN frames[c].image ELSE delivered[c].image]]
            BY <2>3 DEF FinishPoll, CaptureSafe, PollInv
        <3>2. /\ now > batch.produced /\ now \in Nat /\ tracking \in BOOLEAN /\ batch.produced \in Nat
              /\ \A c \in Cameras : frames[c] # NoFrame => FrameInTurn(c)
            BY <3>1 DEF CaptureSafe, PollInv, PollTypeOK
        <3>3. ASSUME NEW c \in Cameras PROVE frames[c] \in Source!FramesOf(c, now)
            <4>1. CASE frames[c] = NoFrame
                BY <4>1 DEF Source!FramesOf, Source!NoFrame, NoFrame
            <4>2. CASE frames[c] # NoFrame
                <5>1. frames[c] \in Frames /\ frames[c].depth \in Nat /\ frames[c].image \in Nat
                    BY <3>1, CameraTypes
                <5>2. /\ frames[c].depth \in delivered[c].depth + 1 .. now
                      /\ frames[c].image \in 1 .. now
                      /\ frames[c].usable => Paired(frames[c].depth, frames[c].image)
                    BY <3>2, <4>2 DEF FrameInTurn
                <5>3. frames[c].usable => /\ frames[c].depth <= frames[c].image + MaxSkew
                                          /\ frames[c].image <= frames[c].depth + MaxSkew
                    BY <5>1, <5>2, CaptureAssumption DEF Paired, Apart
                <5>4. frames[c] \in [depth : delivered[c].depth + 1 .. now, image : 1 .. now,
                                     usable : BOOLEAN]
                    BY <5>1, <5>2 DEF Frames
                <5>q. QED BY <5>3, <5>4 DEF Source!FramesOf
            <4>q. QED BY <4>1, <4>2
        <3>4. frames \in [Cameras -> UNION {Source!FramesOf(c, now) : c \in Cameras}]
            <4>1. frames \in [Cameras -> Frames]
                BY <3>1 DEF PollTypeOK
            <4>q. QED BY <3>3, <4>1
        <3>5. ASSUME NEW c \in Cameras
              PROVE  delivered'[c].depth = IF c \in Source!Shot(frames) THEN frames[c].depth
                                           ELSE delivered[c].depth
            BY <3>1 DEF Source!Shot, Source!NoFrame, NoFrame
        <3>6. batch' # batch
            BY <3>1, <3>2
        <3> DEFINE FrameChoices == [Cameras -> UNION {Source!FramesOf(c, now) : c \in Cameras}]
        <3>7. PICK fs \in FrameChoices, tr \in BOOLEAN : fs = frames /\ tr = tracking
            BY <3>2, <3>4
        <3>8. Source!Delivers(fs, tr)
            BY <3>1, <3>2, <3>3, <3>5, <3>7 DEF Source!Delivers, Source!Shot
        <3> HIDE DEF FrameChoices
        <3>9. \E f \in FrameChoices : \E t \in BOOLEAN : Source!Delivers(f, t)
            BY <3>8, Zenon
        <3>q. QED BY <3>6, <3>9, Zenon DEF Source!SourceNext, FrameChoices
    <2>4. CASE UNCHANGED captureVars
        BY <2>4 DEF captureVars, Source!sourceVars
    <2>q. QED BY <2>1, <2>2, <2>3, <2>4, UserSteps
<1>q. QED BY <1>1, <1>2, CaptureSafeAlways, PTL DEF CaptureSpec, CaptureImplementsFrameSource, Source!SourceSpec
==============================================================================
