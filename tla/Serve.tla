-------------------------------- MODULE Serve --------------------------------
(***************************************************************************)
(* Connection.Serve: the read loop, the frame workers with their priority  *)
(* queues, and the end of the connection (drain, GOAWAY, cleanup), with    *)
(* Close and the application's reads running beside them.                  *)
(*                                                                         *)
(* Of what a handler does to a stream (module Stream) it keeps where the   *)
(* handler blocks, on startChan, dataChan or headerChan, and the steps that *)
(* take the stream out of the table and close its closeChan.  A queue is   *)
(* what PriorityFrameQueue shows: a bounded set, popped by priority and    *)
(* then by arrival.                                                        *)
(***************************************************************************)
EXTENDS Integers, FiniteSets, SortedSets

CONSTANTS
    FRAME_WORKERS,   \* number of workers
    QUEUE_SIZE,      \* room in each worker's queue
    PeerIds,         \* ids the peer may use in SYN_STREAM
    OwnIds,          \* ids of streams CreateStream opened before
    FirstId,         \* receivedStreamId of a new connection: 1 or 2
    SynPriorities,   \* priorities of SYN_STREAM frames
    Kinds,           \* kinds of frames the peer sends
    MaxFrames        \* bound: frames read in a behaviour

VARIABLES
    reader,      \* the read loop: where it is, with which frame
    roundRobin,  \* partitionRoundRobin
    frameQueues, \* each worker's queue
    workers,     \* each worker: where it is, with which frame
    closeChan,   \* s.closeChan is closed
    drained,     \* workers whose queue's Drain was called
    streams,     \* ids in s.streams
    priority,    \* stream.priority of each stream
    received,    \* s.receivedStreamId
    goneAway,    \* s.goneAway
    replied,     \* own streams whose reply was handled
    closer,      \* where the goroutine that calls Close is
    reading,     \* streams with a goroutine blocked in Read (or ReceiveHeader)
    remoteClosed,\* streams whose closeChan is closed
    resetting,   \* streams in resetStream: removed, closeChan still to be closed
    accepted,    \* history: ids checkStreamFrame let in
    lastGood,    \* LastGoodStreamId of the GOAWAY Close wrote, -1 before
    last         \* history: number of the last frame popped of each stream

tables == <<streams, priority, received, goneAway, replied, accepted>>
readLoop == <<reader, roundRobin>>
pool == <<frameQueues, workers, drained, last>>
apps == <<closer, reading, remoteClosed, resetting, lastGood>>
vars == <<readLoop, pool, closeChan, tables, apps>>

Ids == PeerIds \cup OwnIds
Opened == OwnIds \cup accepted
Workers == 0 .. FRAME_WORKERS - 1
StreamKinds == {"REPLY", "DATA", "RST"}   \* DATA: DATA or HEADERS
AllKinds == StreamKinds \cup {"SYN", "PING", "GOAWAY", "SETTINGS"}

\* n numbers the frames in the order they are read.
Frame == [kind: AllKinds, id: Ids \cup {0}, priority: 0 .. 7, n: 0 .. MaxFrames]
NoFrame == [kind |-> "SETTINGS", id |-> 0, priority |-> 0, n |-> 0]

ReaderStates == {"read", "add", "lookup", "push", "close", "wait", "goAway", "cleanup", "done"}
HandlerStates == {"handle", "deliver", "finish", "finished",     \* data and replies
                  "resetClose", "resetReplied", "startSend"}     \* handleResetFrame
WorkerStates == HandlerStates \cup {"pop", "exited"}
CloserStates == {"idle", "lastId", "returned"}

ASSUME ServeAssumption ==
    /\ FRAME_WORKERS \in Nat \ {0} /\ QUEUE_SIZE \in Nat \ {0} /\ MaxFrames \in Nat
    /\ PeerIds \subseteq Nat \ {0} /\ OwnIds \subseteq Nat \ {0}
    /\ PeerIds \cap OwnIds = {}
    /\ FirstId \in {1, 2} /\ \A id \in PeerIds : id >= FirstId
    /\ SynPriorities \subseteq 0 .. 7
    /\ Kinds \subseteq AllKinds

TypeOK ==
    /\ reader \in [at: ReaderStates, frame: Frame, count: 0 .. MaxFrames, goAway: BOOLEAN]
    /\ roundRobin \in Workers
    /\ frameQueues \in [Workers -> SUBSET Frame]
    /\ workers \in [Workers -> [at: WorkerStates, frame: Frame]]
    /\ closeChan \in BOOLEAN
    /\ drained \subseteq Workers
    /\ streams \subseteq Ids
    /\ priority \in [Ids -> 0 .. 7]
    /\ received \in Nat
    /\ goneAway \in BOOLEAN
    /\ replied \subseteq Ids
    /\ closer \in CloserStates
    /\ reading \subseteq Ids /\ remoteClosed \subseteq Ids /\ resetting \subseteq Ids
    /\ accepted \subseteq PeerIds
    /\ lastGood \in Nat \cup {-1}
    /\ last \in [Ids -> 0 .. MaxFrames]

Init ==
    /\ reader = [at |-> "read", frame |-> NoFrame, count |-> 0, goAway |-> FALSE]
    /\ roundRobin = 0
    /\ frameQueues = [w \in Workers |-> {}]
    /\ workers = [w \in Workers |-> [at |-> "pop", frame |-> NoFrame]]
    /\ closeChan = FALSE /\ drained = {}
    /\ streams = OwnIds
    /\ priority = [id \in Ids |-> 0]
    /\ received = FirstId /\ goneAway = FALSE
    /\ replied = {} /\ accepted = {}
    /\ closer = "idle" /\ lastGood = -1
    /\ reading = {} /\ remoteClosed = {} /\ resetting = {}
    /\ last = [id \in Ids |-> 0]

-----------------------------------------------------------------------------
(* The read loop                                                           *)

ReaderGoto(at) == reader' = [reader EXCEPT !.at = at]
NextFrame == reader' = [reader EXCEPT !.at = "read", !.frame = NoFrame]

\* framer.ReadFrame returns a frame, numbered.  The peer opens its streams
\* before it uses them (we may have ignored that after our GOAWAY).
ReadFrame(kind, id, syn) ==
    /\ reader.at = "read" /\ reader.count < MaxFrames
    /\ id = 0 <=> kind \in {"PING", "SETTINGS", "GOAWAY"}
    /\ kind = "SYN" => id \in PeerIds
    /\ kind = "REPLY" => id \in OwnIds
    /\ kind \in {"DATA", "RST"} /\ id \in PeerIds => id \in accepted \/ goneAway
    /\ reader' = [reader EXCEPT
          !.count = @ + 1,
          !.frame = [kind |-> kind, id |-> id, n |-> reader.count + 1,
                     priority |-> CASE kind = "SYN" -> syn
                                    [] kind = "SETTINGS" -> 7 [] OTHER -> 0],
          !.goAway = (kind = "GOAWAY"),
          !.at = CASE kind = "SYN" -> "add" [] kind = "GOAWAY" -> "close"
                   [] id = 0 -> "push" [] OTHER -> "lookup"]
    /\ UNCHANGED <<roundRobin, pool, closeChan, tables, apps>>

\* ReadFrame fails: EOF, network error or a malformed frame.
ReadError ==
    /\ reader.at = "read"
    /\ ReaderGoto("close")
    /\ UNCHANGED <<roundRobin, pool, closeChan, tables, apps>>

MaxStreamId == 2147483647   \* 0x7fffffff

\* validateStreamId
Valid(id) == id <= MaxStreamId /\ id >= received

\* checkStreamFrame and addStreamFrame.  A stream after GOAWAY is ignored, one
\* with a bad id is answered by RST_STREAM(PROTOCOL_ERROR), and one with FIN
\* is closed for readers from the start.
AddStream ==
    /\ reader.at = "add"
    /\ LET id == reader.frame.id IN
          IF ~goneAway /\ Valid(id)
          THEN /\ received' = id + 2
               /\ accepted' = accepted \cup {id}
               /\ streams' = streams \cup {id}
               /\ priority' = [priority EXCEPT ![id] = reader.frame.priority]
               /\ remoteClosed' \in {remoteClosed, remoteClosed \cup {id}}
               /\ ReaderGoto("push")
          ELSE /\ NextFrame
               /\ UNCHANGED <<received, accepted, streams, priority, remoteClosed>>
    /\ UNCHANGED <<goneAway, replied, roundRobin, pool, closeChan, closer, reading, resetting,
                   lastGood>>

\* Mutant of StreamPriority: a stream that is gone is the most urgent.
GonePriorityZero(id) == IF id \in streams THEN priority[id] ELSE 0

\* getStreamPriority
StreamPriority(id) == IF id \in streams THEN priority[id] ELSE 7

Lookup ==
    /\ reader.at = "lookup"
    /\ reader' = [reader EXCEPT !.at = "push",
                                !.frame.priority = StreamPriority(reader.frame.id)]
    /\ UNCHANGED <<roundRobin, pool, closeChan, tables, apps>>

\* Mutant of Partition: every frame goes to the next worker.
PartitionByArrival(f) == f.n % FRAME_WORKERS

\* The frames of a stream go to one worker, the others round robin.
Partition(f) == IF f.id = 0 THEN roundRobin ELSE f.id % FRAME_WORKERS

\* Mutant of NextPartition: no wrap around.
NextPartitionUnbounded == roundRobin + 1
NextPartition == (roundRobin + 1) % FRAME_WORKERS

\* Push blocks the read loop while the queue is full.
Push ==
    /\ reader.at = "push"
    /\ LET w == Partition(reader.frame) IN
          /\ Cardinality(frameQueues[w]) < QUEUE_SIZE
          /\ frameQueues' = [frameQueues EXCEPT ![w] = @ \cup {reader.frame}]
    /\ roundRobin' = IF reader.frame.id = 0 THEN NextPartition ELSE roundRobin
    /\ NextFrame
    /\ UNCHANGED <<workers, drained, last, closeChan, tables, apps>>

CloseChan ==
    /\ reader.at = "close"
    /\ closeChan' = TRUE
    /\ ReaderGoto("wait")
    /\ UNCHANGED <<roundRobin, pool, tables, apps>>

\* Mutant of WorkersDone: some worker is enough.
WorkerDone == \E w \in Workers : workers[w].at = "exited"
\* wg.Wait() returns.
WorkersDone == \A w \in Workers : workers[w].at = "exited"

AwaitWorkers ==
    /\ reader.at = "wait" /\ WorkersDone
    /\ ReaderGoto(IF reader.goAway THEN "goAway" ELSE "cleanup")
    /\ UNCHANGED <<roundRobin, pool, closeChan, tables, apps>>

\* handleGoAwayFrame: only the first of GOAWAY and Close starts the shutdown.
HandleGoAway ==
    /\ reader.at = "goAway"
    /\ goneAway' = TRUE
    /\ ReaderGoto("cleanup")
    /\ UNCHANGED <<roundRobin, pool, closeChan, streams, priority, received, replied,
                   accepted, apps>>

Cleanup ==
    /\ reader.at = "cleanup"
    /\ remoteClosed' = remoteClosed \cup streams
    /\ streams' = {}
    /\ ReaderGoto("done")
    /\ UNCHANGED <<roundRobin, pool, closeChan, priority, received, goneAway, replied,
                   accepted, closer, reading, resetting, lastGood>>

-----------------------------------------------------------------------------
(* The workers                                                             *)

WorkerGoto(w, at) == workers' = [workers EXCEPT ![w].at = at]
HandlerDone(w) == workers' = [workers EXCEPT ![w] = [at |-> "pop", frame |-> NoFrame]]

DrainSilent(w) ==   \* mutant of Drain: a worker asleep in Pop is not woken
    /\ closeChan /\ w \notin drained /\ workers[w].at # "pop"
    /\ drained' = drained \cup {w}
    /\ UNCHANGED <<readLoop, frameQueues, workers, last, closeChan, tables, apps>>

\* The goroutine that waits for closeChan calls the queue's Drain.
Drain(w) ==
    /\ closeChan /\ w \notin drained
    /\ drained' = drained \cup {w}
    /\ UNCHANGED <<readLoop, frameQueues, workers, last, closeChan, tables, apps>>

\* Mutant of Before: frames of one priority leave in any order.
BeforeUnstable(f, g) == f.priority <= g.priority

\* f leaves the queue before g.
Before(f, g) ==
    \/ f.priority < g.priority
    \/ f.priority = g.priority /\ f.n < g.n

Pop(w) ==
    /\ workers[w].at = "pop"
    /\ \E f \in frameQueues[w] :
          /\ \A g \in frameQueues[w] \ {f} : Before(f, g)
          /\ frameQueues' = [frameQueues EXCEPT ![w] = @ \ {f}]
          /\ workers' = [workers EXCEPT ![w] = [at |-> "handle", frame |-> f]]
          /\ last' = IF f.id = 0 THEN last ELSE [last EXCEPT ![f.id] = f.n]
    /\ UNCHANGED <<readLoop, drained, closeChan, tables, apps>>

\* Pop returned nil: frameHandler returns and calls wg.Done().
Exit(w) ==
    /\ workers[w].at = "pop" /\ frameQueues[w] = {} /\ w \in drained
    /\ WorkerGoto(w, "exited")
    /\ UNCHANGED <<readLoop, frameQueues, drained, last, closeChan, tables, apps>>

Handles(w, kinds) == workers[w].at = "handle" /\ workers[w].frame.kind \in kinds

\* stream.replied.  Whether our side has replied to a stream of the peer is open.
Answered(id, answered) == id \in OwnIds => answered = (id \in replied)

\* The handler of the application, handlePingFrame and the default case return.
HandleOther(w) ==
    /\ Handles(w, {"SYN", "PING", "SETTINGS"})
    /\ HandlerDone(w)
    /\ UNCHANGED <<readLoop, frameQueues, drained, last, closeChan, tables, apps>>

\* handleReplyFrame, the first reply with or without FIN.
HandleReply(w) ==
    /\ Handles(w, {"REPLY"})
    /\ LET id == workers[w].frame.id IN
          IF id \in streams \ replied
          THEN /\ replied' = replied \cup {id}
               /\ HandlerDone(w) \/ WorkerGoto(w, "finish")
          ELSE HandlerDone(w) /\ UNCHANGED replied
    /\ UNCHANGED <<readLoop, frameQueues, drained, last, closeChan, streams, priority,
                   received, goneAway, accepted, apps>>

\* handleDataFrame and handleHeaderFrame up to their select: the stream is gone,
\* has no reply, or the frame is empty, with or without FIN.
HandleData(w) ==
    /\ Handles(w, {"DATA"})
    /\ \/ /\ workers[w].frame.id \in streams /\ Answered(workers[w].frame.id, TRUE)
          /\ \E at \in {"deliver", "finish"} : WorkerGoto(w, at)
       \/ HandlerDone(w)
    /\ UNCHANGED <<readLoop, frameQueues, drained, last, closeChan, tables, apps>>

\* The select finds a reader, who returns, or closeChan closed.
Deliver(w) ==
    /\ workers[w].at = "deliver"
    /\ LET id == workers[w].frame.id IN
          \/ id \in reading /\ reading' = reading \ {id}
          \/ id \in remoteClosed /\ UNCHANGED reading
    /\ HandlerDone(w) \/ WorkerGoto(w, "finish")
    /\ UNCHANGED <<readLoop, frameQueues, drained, last, closeChan, tables, closer,
                   remoteClosed, resetting, lastGood>>

\* remoteStreamFinish closes closeChan, and then removes the stream if this
\* side has finished it too.
Finish(w) ==
    /\ workers[w].at = "finish"
    /\ remoteClosed' = remoteClosed \cup {workers[w].frame.id}
    /\ WorkerGoto(w, "finished")
    /\ UNCHANGED <<readLoop, frameQueues, drained, last, closeChan, tables, closer, reading,
                   resetting, lastGood>>

FinishCheck(w) ==
    /\ workers[w].at = "finished"
    /\ streams' \in {streams, streams \ {workers[w].frame.id}}
    /\ HandlerDone(w)
    /\ UNCHANGED <<readLoop, frameQueues, drained, last, closeChan, priority, received,
                   goneAway, replied, accepted, apps>>

\* handleResetFrame: the stream leaves the table, is closed for readers, and
\* without a reply so far ErrReset is to be sent on startChan.
HandleReset(w) ==
    /\ Handles(w, {"RST"})
    /\ streams' = streams \ {workers[w].frame.id}
    /\ IF workers[w].frame.id \in streams THEN WorkerGoto(w, "resetClose") ELSE HandlerDone(w)
    /\ UNCHANGED <<readLoop, frameQueues, drained, last, closeChan, priority, received,
                   goneAway, replied, accepted, apps>>

HandleResetClose(w) ==
    /\ workers[w].at = "resetClose"
    /\ remoteClosed' = remoteClosed \cup {workers[w].frame.id}
    /\ WorkerGoto(w, "resetReplied")
    /\ UNCHANGED <<readLoop, frameQueues, drained, last, closeChan, tables, closer, reading,
                   resetting, lastGood>>

HandleResetReplied(w) ==
    /\ workers[w].at = "resetReplied"
    /\ \E answered \in BOOLEAN : LET id == workers[w].frame.id IN
          /\ Answered(id, answered)
          /\ IF answered THEN HandlerDone(w) ELSE WorkerGoto(w, "startSend")
          /\ replied' = IF answered THEN replied ELSE replied \cup ({id} \cap OwnIds)
    /\ UNCHANGED <<readLoop, frameQueues, drained, last, closeChan, streams, priority,
                   received, goneAway, accepted, apps>>

\* A goroutine calls Wait on the stream and receives ErrReset.
WaitReceives(w) ==
    /\ workers[w].at = "startSend"
    /\ HandlerDone(w)
    /\ UNCHANGED <<readLoop, frameQueues, drained, last, closeChan, tables, apps>>

-----------------------------------------------------------------------------
(* The application                                                         *)

\* Close: goneAway under receiveIdLock, receivedStreamId read without it, then
\* the GOAWAY is written.
CloseBegin ==
    /\ closer = "idle"
    /\ goneAway' = TRUE
    /\ closer' = IF goneAway THEN "returned" ELSE "lastId"
    /\ UNCHANGED <<readLoop, pool, closeChan, streams, priority, received, replied,
                   accepted, reading, remoteClosed, resetting, lastGood>>

\* Mutant of LastStreamId: the next id rather than the last.
NextStreamId == received
LastStreamId == IF received > 2 THEN received - 2 ELSE 0

CloseWrite ==
    /\ closer = "lastId"
    /\ lastGood' = LastStreamId
    /\ closer' = "returned"
    /\ UNCHANGED <<readLoop, pool, closeChan, tables, reading, remoteClosed, resetting>>

\* A goroutine reads a stream it has, in the table or not; unless closeChan is
\* closed it blocks until then or until data comes.
Read(id) ==
    /\ id \in Opened \ (reading \cup remoteClosed)
    /\ reading' = reading \cup {id}
    /\ UNCHANGED <<readLoop, pool, closeChan, tables, closer, remoteClosed, resetting, lastGood>>

ReadEOF(id) ==
    /\ id \in reading \cap remoteClosed
    /\ reading' = reading \ {id}
    /\ UNCHANGED <<readLoop, pool, closeChan, tables, closer, remoteClosed, resetting, lastGood>>

CloseStreamAlways(id) ==   \* mutant of CloseStream: removed though the peer may go on
    /\ id \in streams
    /\ streams' = streams \ {id}
    /\ UNCHANGED <<readLoop, pool, closeChan, priority, received, goneAway, replied,
                   accepted, apps>>

\* Stream.Close removes a stream whose closeChan is closed.
CloseStream(id) ==
    /\ id \in streams \cap remoteClosed
    /\ streams' = streams \ {id}
    /\ UNCHANGED <<readLoop, pool, closeChan, priority, received, goneAway, replied,
                   accepted, apps>>

\* Stream.Reset takes the stream out of the table, and then closes closeChan if
\* nobody has; on a stream without both it does nothing.
Reset(id) ==
    /\ id \in Opened \ (remoteClosed \ streams)
    /\ streams' = streams \ {id}
    /\ resetting' = resetting \cup ({id} \ remoteClosed)
    /\ UNCHANGED <<readLoop, pool, closeChan, priority, received, goneAway, replied,
                   accepted, closer, reading, remoteClosed, lastGood>>

\* So does the monitor with all streams, when the connection was idle too long.
IdleExpires ==
    /\ streams # {}
    /\ streams' = {}
    /\ resetting' = resetting \cup (streams \ remoteClosed)
    /\ UNCHANGED <<readLoop, pool, closeChan, priority, received, goneAway, replied,
                   accepted, closer, reading, remoteClosed, lastGood>>

ResetStream(id) ==
    /\ id \in resetting
    /\ resetting' = resetting \ {id}
    /\ remoteClosed' = remoteClosed \cup {id}
    /\ UNCHANGED <<readLoop, pool, closeChan, tables, closer, reading, lastGood>>

\* SetPriority writes s.priority without a lock.
SetPriority(id, p) ==
    /\ id \in streams
    /\ priority' = [priority EXCEPT ![id] = p]
    /\ UNCHANGED <<readLoop, pool, closeChan, streams, received, goneAway, replied,
                   accepted, apps>>

-----------------------------------------------------------------------------
ReadLoop == AddStream \/ Lookup \/ Push \/ CloseChan \/ AwaitWorkers \/ HandleGoAway \/ Cleanup

Handler(w) ==
    \/ HandleOther(w) \/ HandleReply(w)
    \/ HandleData(w) \/ Deliver(w) \/ Finish(w) \/ FinishCheck(w)
    \/ HandleReset(w) \/ HandleResetClose(w) \/ HandleResetReplied(w)

Application ==
    \/ \E id \in Ids : Read(id) \/ ReadEOF(id) \/ CloseStream(id) \/ Reset(id) \/ ResetStream(id)
    \/ IdleExpires \/ CloseBegin \/ CloseWrite

Next ==
    \/ \E kind \in Kinds, id \in Ids \cup {0}, syn \in SynPriorities : ReadFrame(kind, id, syn)
    \/ ReadError \/ ReadLoop
    \/ \E w \in Workers : Drain(w) \/ Pop(w) \/ Exit(w) \/ Handler(w) \/ WaitReceives(w)
    \/ Application

\* The same with an application that changes priorities.
NextWithPriorities == Next \/ \E id \in Ids, p \in SynPriorities : SetPriority(id, p)

Spec == Init /\ [][Next]_vars
SpecWithPriorities == Init /\ [][NextWithPriorities]_vars

\* Every goroutine that can run does; the peer need not send or hang up, and
\* nobody has to call Wait, Close, Read or Reset.
FairSpec ==
    /\ Spec
    /\ WF_vars(ReadLoop)
    /\ \A w \in Workers : WF_vars(Drain(w)) /\ WF_vars(Pop(w) \/ Exit(w) \/ Handler(w))
    /\ \A id \in Ids : WF_vars(ReadEOF(id)) /\ WF_vars(ResetStream(id))

-----------------------------------------------------------------------------
(* Properties                                                              *)

\* connection.go:325: the workers handle the frames of a stream in the order
\* they were read, although each has its own priority and the stream may be
\* removed, and its priority with it, at any moment.
StreamOrder ==
    \A w \in Workers : \A f \in frameQueues[w] :
        f.id # 0 => /\ last[f.id] < f.n
                    /\ \A g \in frameQueues[w] : g.id = f.id /\ f.n < g.n => Before(f, g)

\* Two workers are never in handlers of one stream at once.
OneHandlerPerStream ==
    \A v, w \in Workers :
        /\ workers[v].at \in HandlerStates /\ workers[w].at \in HandlerStates
        /\ workers[v].frame.id = workers[w].frame.id /\ workers[v].frame.id # 0
        => v = w

\* connection.go:406: GOAWAY is handled, and the table emptied, only after
\* every frame that was read before has been handled.
DrainedBeforeGoAway ==
    reader.at \in {"goAway", "cleanup", "done"} =>
        \A w \in Workers : workers[w].at = "exited" /\ frameQueues[w] = {}

\* The GOAWAY that Close writes names the last stream accepted, although Close
\* reads receivedStreamId without its lock: no stream is accepted behind it.
GoAwayNamesLastAccepted ==
    lastGood # -1 => /\ \A id \in accepted : id <= lastGood
                     /\ lastGood \in accepted \cup {0}

\* stream.go:184, 192, connection.go:98-104, 556, 667: streams leave the table and
\* are closed for readers in two steps, in either order, by five goroutines.  No
\* stream gets lost between them: it is in the table, where the end of Serve
\* finds it, or closed, or who took it out is about to close it.
ReadersReachable ==
    \A id \in Opened :
        \/ id \in streams \cup remoteClosed \cup resetting
        \/ \E w \in Workers : workers[w].at = "resetClose" /\ workers[w].frame.id = id

\* A worker that only the application can free: it hands ErrReset to nobody
\* (connection.go:561), or data or headers (584, 614) of a stream that is open.
Stuck(w) ==
    \/ workers[w].at = "startSend"
    \/ workers[w].at = "deliver" /\ workers[w].frame.id \notin reading \cup remoteClosed

\* connection.go:404-424: once the connection has ended and if no worker is stuck
\* for ever, Serve returns, and nobody stays blocked in Read.
ServeEnds ==
    <>[]closeChan /\ (\A w \in Workers : []<>~Stuck(w))
        => <>[](reader.at = "done" /\ reading = {})

\* connection.go:416: the end of Serve unblocks any stream Read.  Not when a
\* stream without a reply was reset and nobody waits for it.
ServeEndUnblocksReads == \A id \in Ids : closeChan /\ id \in reading ~> id \notin reading

-----------------------------------------------------------------------------
(* What the streams see of Serve                                           *)

\* The numbers of the frames with this id (0: of no stream) in the queues and
\* in the handlers.
InQueues(id) == {f.n : f \in {g \in UNION {frameQueues[w] : w \in Workers} : g.id = id}}
Busy(w) == workers[w].at \in HandlerStates
InHands(id) == {workers[w].frame.n : w \in {v \in Workers : Busy(v) /\ workers[v].frame.id = id}}

\* A SYN_STREAM counts once checkStreamFrame has let it in or ignored it.
Arrived == IF reader.at = "add" THEN reader.count - 1 ELSE reader.count
Incoming == IF reader.at \in {"lookup", "push"} THEN {reader.frame.id} ELSE {}
Mailbox == [id \in Ids |-> Sorted(InQueues(id))]
Handling == [id \in Ids |-> InHands(id)]
Loose == InQueues(0) \cup InHands(0)
Over == reader.at \in {"goAway", "cleanup", "done"}

Mailboxes == INSTANCE StreamMailboxes WITH
    Streams <- Ids, NoStream <- 0,
    arrived <- Arrived, incoming <- Incoming, mailbox <- Mailbox, handling <- Handling,
    loose <- Loose, closed <- closeChan, ended <- Over

\* The workers with their queues, partition and priorities do what one mailbox
\* per stream would do: no frame is dropped, overtaken or handled beside another
\* of its stream, and the end finds nothing left.
ImplementsMailboxes == Mailboxes!Spec
=============================================================================
