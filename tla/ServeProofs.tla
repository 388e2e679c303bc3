---------------------------- MODULE ServeProofs ----------------------------
(***************************************************************************)
(* Proofs about Serve for any number of workers, streams and frames: the   *)
(* frames of a stream are handled in order and one at a time, the workers  *)
(* are done before the end of Serve, Close names the last stream, and all  *)
(* of it does for the streams what one mailbox per stream would do.        *)
(***************************************************************************)
EXTENDS Serve, SortedSetsProofs, TLAPS

\* The read loop holds the frame it read last.
Holding == reader.at \in {"add", "lookup", "push"}

ReaderInv ==
    /\ Holding => reader.frame.n = reader.count
    /\ reader.at = "add" => reader.frame.id \in PeerIds
    /\ reader.at = "lookup" => reader.frame.id \in Ids
    /\ reader.at \in {"lookup", "push"} /\ reader.frame.id \in PeerIds
         => reader.frame.id \in accepted \/ goneAway
    /\ reader.at = "push" /\ reader.frame.id # 0
         => reader.frame.priority <= StreamPriority(reader.frame.id)

\* A frame in a queue came before the one the read loop holds, is in the queue
\* of its stream's worker, and is no less urgent than what is read next.
Queued(f, w) ==
    /\ f.n <= reader.count /\ (Holding => f.n < reader.count)
    /\ f.id \in PeerIds => f.id \in accepted \/ goneAway
    /\ f.id # 0 => /\ f.id % FRAME_WORKERS = w
                   /\ f.priority <= StreamPriority(f.id)
                   /\ reader.at = "push" /\ reader.frame.id = f.id
                        => f.priority <= reader.frame.priority

QueueInv ==
    \A w \in Workers : /\ \A f \in frameQueues[w] : Queued(f, w)
                       /\ \A f, g \in frameQueues[w] : f.n = g.n => f = g

LastInv == \A id \in Ids : last[id] <= reader.count /\ (Holding => last[id] < reader.count)

OrderInv == ReaderInv /\ QueueInv /\ LastInv /\ StreamOrder

\* The end of Serve: closeChan, then Drain, then the workers, then the rest.
EndInv ==
    /\ drained # {} => closeChan
    /\ closeChan => reader.at \in {"wait", "goAway", "cleanup", "done"}
    /\ reader.at \in {"goAway", "cleanup", "done"} => WorkersDone
    /\ \A w \in Workers : workers[w].at = "exited" => w \in drained /\ frameQueues[w] = {}

\* A handler beyond its first step has found its stream.
PartitionInv ==
    \A w \in Workers : LET id == workers[w].frame.id IN
        /\ workers[w].at \in HandlerStates /\ id # 0 => id % FRAME_WORKERS = w
        /\ workers[w].at \in HandlerStates \ {"handle"} => id \in Ids

\* receivedStreamId is 2 above the last stream, and rests after goneAway.
IdInv ==
    /\ received >= FirstId
    /\ accepted = {} => received = FirstId
    /\ accepted # {} => received - 2 \in accepted
    /\ \A id \in accepted : id <= received - 2
    /\ closer = "lastId" \/ lastGood # -1 => goneAway
    /\ lastGood # -1 => lastGood = LastStreamId

\* FinishCheck removes only a stream whose closeChan is closed.
ReadersInv ==
    /\ ReadersReachable
    /\ \A w \in Workers : workers[w].at = "finished" => workers[w].frame.id \in remoteClosed

Inv == TypeOK /\ OrderInv /\ EndInv /\ PartitionInv /\ IdInv /\ ReadersInv

-----------------------------------------------------------------------------
\* Every id has a worker.
LEMMA PartitionType ==
    /\ \A n \in Nat : n % FRAME_WORKERS \in Workers
    /\ Workers \subseteq Nat
BY ServeAssumption DEF Workers

\* 0 stands for no stream: no stream has that id.
LEMMA IdsAreNat == \A id \in Ids : id \in Nat /\ id # 0
BY ServeAssumption DEF Ids

\* The parts of a frame.
LEMMA FrameType ==
    /\ NoFrame \in Frame /\ NoFrame.id = 0
    /\ \A f \in Frame : f.id \in Ids \cup {0} /\ f.priority \in 0 .. 7 /\ f.n \in 0 .. MaxFrames
BY ServeAssumption DEF NoFrame, Frame, AllKinds

\* The read loop moves on with the frame it holds.
LEMMA ReaderMoves ==
    ASSUME TypeOK, NEW at \in ReaderStates, ReaderGoto(at)
    PROVE  /\ reader' \in [at: ReaderStates, frame: Frame, count: 0 .. MaxFrames, goAway: BOOLEAN]
           /\ reader'.at = at /\ reader'.frame = reader.frame /\ reader'.count = reader.count
BY DEF TypeOK, ReaderGoto

\* The read loop goes back to ReadFrame.
LEMMA ReaderContinues ==
    ASSUME TypeOK, NextFrame
    PROVE  /\ reader' \in [at: ReaderStates, frame: Frame, count: 0 .. MaxFrames, goAway: BOOLEAN]
           /\ reader'.at = "read" /\ reader'.frame = NoFrame /\ reader'.count = reader.count
BY FrameType DEF TypeOK, NextFrame, ReaderStates

\* A worker moves alone.
LEMMA WorkerMoves ==
    ASSUME TypeOK, NEW w \in Workers, NEW at \in WorkerStates, NEW f \in Frame,
           \/ workers' = [workers EXCEPT ![w] = [at |-> at, frame |-> f]]
           \/ HandlerDone(w) /\ at = "pop" /\ f = NoFrame
           \/ WorkerGoto(w, at) /\ f = workers[w].frame
    PROVE  /\ workers' \in [Workers -> [at: WorkerStates, frame: Frame]]
           /\ workers'[w].at = at /\ workers'[w].frame = f
           /\ \A v \in Workers \ {w} : workers'[v] = workers[v]
BY DEF TypeOK, HandlerDone, WorkerGoto

\* getStreamPriority answers 0 to 7.
LEMMA LookupPriority ==
    ASSUME TypeOK, NEW id \in Ids
    PROVE  StreamPriority(id) \in 0 .. 7
BY DEF TypeOK, StreamPriority

\* What the switch of Serve makes of a frame.
LEMMA FrameRead ==
    ASSUME TypeOK, NEW kind \in Kinds, NEW id \in Ids \cup {0}, NEW syn \in SynPriorities,
           ReadFrame(kind, id, syn)
    PROVE  /\ reader' \in [at: ReaderStates, frame: Frame, count: 0 .. MaxFrames, goAway: BOOLEAN]
           /\ reader'.count = reader.count + 1
           /\ reader'.frame.n = reader.count + 1 /\ reader'.frame.id = id
           /\ reader'.at \in {"add", "close", "push", "lookup"}
           /\ reader'.at = "add" => id \in PeerIds
           /\ reader'.at = "lookup" => id \in Ids
           /\ reader'.at = "lookup" /\ id \in PeerIds => id \in accepted \/ goneAway
           /\ reader'.at = "push" => id = 0
<1> DEFINE p == CASE kind = "SYN" -> syn [] kind = "SETTINGS" -> 7 [] OTHER -> 0
           f == [kind |-> kind, id |-> id, n |-> reader.count + 1, priority |-> p]
           at == CASE kind = "SYN" -> "add" [] kind = "GOAWAY" -> "close"
                   [] id = 0 -> "push" [] OTHER -> "lookup"
<1>1. p \in 0 .. 7
  BY ServeAssumption
<1>2. kind \in AllKinds /\ reader.count + 1 \in 0 .. MaxFrames
  BY ServeAssumption DEF ReadFrame, TypeOK
<1>3. f \in Frame
  BY <1>1, <1>2 DEF Frame
<1>4. at \in {"add", "close", "push", "lookup"} /\ at \in ReaderStates
  BY DEF ReaderStates
<1>5. reader' = [reader EXCEPT !.count = reader.count + 1, !.frame = f,
                               !.goAway = (kind = "GOAWAY"), !.at = at]
  BY DEF ReadFrame
<1>6. /\ reader' \in [at: ReaderStates, frame: Frame, count: 0 .. MaxFrames, goAway: BOOLEAN]
      /\ reader'.count = reader.count + 1 /\ reader'.frame = f /\ reader'.at = at
  BY <1>2, <1>3, <1>4, <1>5 DEF TypeOK
<1>7. /\ at = "add" => kind = "SYN"
      /\ at = "push" => id = 0
      /\ at = "lookup" => kind \notin {"SYN", "GOAWAY"} /\ id # 0
  BY <1>2 DEF AllKinds, StreamKinds
<1>8. /\ kind = "SYN" => id \in PeerIds
      /\ id # 0 => kind \notin {"PING", "SETTINGS", "GOAWAY"}
      /\ kind \in {"DATA", "RST"} /\ id \in PeerIds => id \in accepted \/ goneAway
      /\ kind = "REPLY" => id \in OwnIds
  BY DEF ReadFrame
<1>9. at = "lookup" /\ id \in PeerIds => id \in accepted \/ goneAway
  BY <1>2, <1>7, <1>8, ServeAssumption DEF AllKinds, StreamKinds
<1> QED
  BY <1>4, <1>6, <1>7, <1>8, <1>9

\* What every step of a handler, or of a Wait that frees one, has in common.
LEMMA HandlerSteps ==
    ASSUME Inv, NEW w \in Workers, Handler(w) \/ WaitReceives(w)
    PROVE  /\ Busy(w)
           /\ HandlerDone(w) \/ \E at \in HandlerStates : WorkerGoto(w, at)
           /\ HandlerDone(w) \/ workers[w].frame.id \in Ids
           /\ UNCHANGED <<reader, roundRobin, frameQueues, drained, last, closeChan, priority,
                          received, goneAway, accepted, closer, lastGood, resetting>>
           /\ streams' \subseteq streams
           /\ replied' \subseteq Ids /\ remoteClosed' \subseteq Ids /\ reading' \subseteq Ids
<1> USE DEF Busy, HandlerStates, Handles, TypeOK, Inv, PartitionInv, readLoop, tables, apps
<1>1. CASE HandleOther(w) \/ WaitReceives(w)
  BY <1>1 DEF HandleOther, WaitReceives
<1>2. CASE HandleReply(w)
  BY <1>2 DEF HandleReply
<1>3. CASE HandleData(w)
  BY <1>3 DEF HandleData
<1>4. CASE Deliver(w)
  BY <1>4 DEF Deliver
<1>5. CASE Finish(w)
  BY <1>5 DEF Finish
<1>6. CASE FinishCheck(w)
  BY <1>6 DEF FinishCheck
<1>7. CASE HandleReset(w)
  BY <1>7 DEF HandleReset
<1>8. CASE HandleResetClose(w)
  BY <1>8 DEF HandleResetClose
<1>9. CASE HandleResetReplied(w)
  BY <1>9 DEF HandleResetReplied, Ids
<1> QED
  BY <1>1, <1>2, <1>3, <1>4, <1>5, <1>6, <1>7, <1>8, <1>9 DEF Handler

\* So the worker stays in the handler of its stream, or is free.
LEMMA HandlerWorkers ==
    ASSUME Inv, NEW w \in Workers, Handler(w) \/ WaitReceives(w)
    PROVE  /\ workers' \in [Workers -> [at: WorkerStates, frame: Frame]]
           /\ \A v \in Workers \ {w} : workers'[v] = workers[v]
           /\ \/ workers'[w].at = "pop" /\ workers'[w].frame = NoFrame
              \/ /\ workers'[w].at \in HandlerStates /\ workers'[w].frame = workers[w].frame
                 /\ workers[w].frame.id \in Ids
<1>1. TypeOK /\ "pop" \in WorkerStates /\ HandlerStates \subseteq WorkerStates
  BY DEF Inv, WorkerStates
<1>2. CASE HandlerDone(w)
  BY <1>1, <1>2, WorkerMoves, FrameType
<1>3. CASE ~HandlerDone(w)
  <2>1. PICK at \in HandlerStates : WorkerGoto(w, at)
    BY <1>3, HandlerSteps
  <2>2. workers[w].frame \in Frame
    BY <1>1 DEF TypeOK
  <2>3. workers[w].frame.id \in Ids
    BY <1>3, HandlerSteps
  <2> QED
    BY <1>1, <2>1, <2>2, <2>3, WorkerMoves
<1> QED
  BY <1>2, <1>3

\* What every step of the application and of the monitor has in common.
LEMMA ApplicationSteps ==
    ASSUME TypeOK, Application
    PROVE  /\ UNCHANGED <<reader, roundRobin, frameQueues, workers, drained, last, closeChan,
                          priority, received, replied, accepted>>
           /\ streams' \subseteq streams /\ (goneAway => goneAway')
           /\ reading' \subseteq Ids /\ remoteClosed' \subseteq Ids /\ resetting' \subseteq Ids
           /\ closer' \in CloserStates /\ lastGood' \in Nat \cup {-1}
           /\ UNCHANGED <<goneAway, closer, lastGood>> \/ CloseBegin \/ CloseWrite
<1> USE DEF TypeOK, CloserStates, readLoop, pool, tables, apps
<1>1. CASE \E id \in Ids : Read(id) \/ ReadEOF(id)
  BY <1>1 DEF Read, ReadEOF
<1>2. CASE \E id \in Ids : CloseStream(id) \/ Reset(id)
  BY <1>2 DEF CloseStream, Reset
<1>3. CASE \E id \in Ids : ResetStream(id)
  BY <1>3 DEF ResetStream
<1>4. CASE IdleExpires
  BY <1>4 DEF IdleExpires
<1>5. CASE CloseBegin
  BY <1>5 DEF CloseBegin
<1>6. CASE CloseWrite
  BY <1>6 DEF CloseWrite, LastStreamId
<1> QED
  BY <1>1, <1>2, <1>3, <1>4, <1>5, <1>6 DEF Application

\* Every step keeps the types.
LEMMA TypeStep ==
    ASSUME Inv, [Next]_vars
    PROVE  TypeOK'
<1> USE DEF TypeOK, ReaderStates, WorkerStates, CloserStates, Inv
<1>1. CASE \E kind \in Kinds, id \in Ids \cup {0}, syn \in SynPriorities : ReadFrame(kind, id, syn)
  <2> SUFFICES ASSUME NEW kind \in Kinds, NEW id \in Ids \cup {0}, NEW syn \in SynPriorities,
                      ReadFrame(kind, id, syn)
               PROVE  TypeOK'
    BY <1>1
  <2>1. /\ reader' \in [at: ReaderStates, frame: Frame, count: 0 .. MaxFrames, goAway: BOOLEAN]
    BY FrameRead
  <2> QED
    BY <2>1 DEF ReadFrame, pool, tables, apps
<1>2. CASE ReadError
  BY <1>2, ReaderMoves, ReaderContinues DEF ReadError, ReaderGoto, pool, tables, apps
<1>3. CASE AddStream
  <2> DEFINE id == reader.frame.id
  <2>1. id \in PeerIds /\ id \in Ids /\ id + 2 \in Nat /\ reader.frame.priority \in 0 .. 7
    <3>1. id \in PeerIds
      BY <1>3 DEF AddStream, Inv, OrderInv, ReaderInv
    <3> QED
      <4>1. reader.frame \in Frame
        OBVIOUS
      <4>2. reader.frame.priority \in 0 .. 7
        BY <4>1, FrameType
      <4>3. id \in Ids /\ id \in Nat
        BY <3>1, ServeAssumption DEF Ids
      <4> QED
        BY <3>1, <4>2, <4>3
  <2>2. CASE ~goneAway /\ Valid(id)
    <3>1. accepted' \subseteq PeerIds /\ streams' \subseteq Ids /\ received' \in Nat
      BY <1>3, <2>1, <2>2 DEF AddStream
    <3>2. priority' \in [Ids -> 0 .. 7]
      BY <1>3, <2>1, <2>2 DEF AddStream
    <3> QED
      BY <1>3, <2>2, <3>1, <3>2, ReaderMoves DEF AddStream, pool, apps
  <2>3. CASE ~(~goneAway /\ Valid(id))
    BY <1>3, <2>3, ReaderContinues DEF AddStream, pool, apps
  <2> QED
    BY <2>2, <2>3
<1>4. CASE Lookup
  <2>1. StreamPriority(reader.frame.id) \in 0 .. 7
    BY DEF StreamPriority, Frame
  <2>2. reader' \in [at: ReaderStates, frame: Frame, count: 0 .. MaxFrames, goAway: BOOLEAN]
    BY <1>4, <2>1 DEF Lookup, Frame
  <2> QED
    BY <1>4, <2>2 DEF Lookup, pool, tables, apps
<1>5. CASE Push
  <2> DEFINE w == Partition(reader.frame)
  <2>1. w \in Workers /\ NextPartition \in Workers
    <3>1. reader.frame \in Frame /\ roundRobin \in Workers
      OBVIOUS
    <3>2. reader.frame.id \in Nat /\ roundRobin + 1 \in Nat
      <4>1. reader.frame.id \in Ids \cup {0}
        BY <3>1, FrameType
      <4>2. roundRobin \in Nat
        BY <3>1, PartitionType
      <4> QED
        BY <4>1, <4>2, IdsAreNat
    <3> QED
      BY <3>1, <3>2, PartitionType DEF Partition, NextPartition
  <2>2. frameQueues' \in [Workers -> SUBSET Frame]
    BY <1>5, <2>1 DEF Push
  <2>3. roundRobin' \in Workers
    BY <1>5, <2>1 DEF Push
  <2> QED
    BY <1>5, <2>2, <2>3, ReaderContinues DEF Push, tables, apps
<1>6. CASE CloseChan
  BY <1>6, ReaderMoves, ReaderContinues DEF CloseChan, ReaderGoto, pool, tables, apps
<1>7. CASE AwaitWorkers
  BY <1>7, ReaderMoves, ReaderContinues DEF AwaitWorkers, ReaderGoto, pool, tables, apps
<1>8. CASE HandleGoAway
  BY <1>8, ReaderMoves, ReaderContinues DEF HandleGoAway, ReaderGoto, pool, apps
<1>9. CASE Cleanup
  BY <1>9, ReaderMoves, ReaderContinues DEF Cleanup, ReaderGoto, pool
<1>10. CASE \E w \in Workers : Drain(w)
  BY <1>10, ReaderMoves, ReaderContinues DEF Drain, readLoop, tables, apps
<1>11. CASE \E w \in Workers : Pop(w)
  <2> SUFFICES ASSUME NEW w \in Workers, Pop(w) PROVE TypeOK'
    BY <1>11
  <2>1. workers' \in [Workers -> [at: WorkerStates, frame: Frame]]
    BY WorkerMoves, FrameType DEF Pop, HandlerStates
  <2>2. frameQueues' \in [Workers -> SUBSET Frame]
    BY DEF Pop
  <2>3. last' \in [Ids -> 0 .. MaxFrames]
    BY FrameType DEF Pop
  <2> QED
    BY <2>1, <2>2, <2>3 DEF Pop, readLoop, tables, apps
<1>12. CASE \E w \in Workers : Exit(w)
  <2> SUFFICES ASSUME NEW w \in Workers, Exit(w) PROVE TypeOK'
    BY <1>12
  <2>1. workers' \in [Workers -> [at: WorkerStates, frame: Frame]]
    BY WorkerMoves, FrameType DEF Exit
  <2> QED
    BY <2>1 DEF Exit, WorkerGoto, readLoop, tables, apps
<1>13. CASE \E w \in Workers : Handler(w) \/ WaitReceives(w)
  <2> SUFFICES ASSUME NEW w \in Workers, Handler(w) \/ WaitReceives(w) PROVE TypeOK'
    BY <1>13
  <2> QED
    BY HandlerWorkers, HandlerSteps
<1>14. CASE Application
  <2>1. UNCHANGED <<reader, roundRobin, frameQueues, workers, drained, last, closeChan,
                    priority, received, replied, accepted>>
    BY <1>14, ApplicationSteps
  <2>2. /\ streams' \subseteq Ids /\ reading' \subseteq Ids /\ remoteClosed' \subseteq Ids
        /\ resetting' \subseteq Ids /\ closer' \in CloserStates /\ lastGood' \in Nat \cup {-1}
    BY <1>14, ApplicationSteps
  <2>3. goneAway' \in BOOLEAN
    BY <1>14, ApplicationSteps DEF CloseBegin, CloseWrite, tables
  <2> QED
    BY <2>1, <2>2, <2>3
<1>15. CASE UNCHANGED vars
  BY <1>15 DEF vars, readLoop, pool, tables, apps
<1> QED
  BY <1>1, <1>2, <1>3, <1>4, <1>5, <1>6, <1>7, <1>8, <1>9, <1>10, <1>11, <1>12, <1>13, <1>14, <1>15 DEF Next, ReadLoop

-----------------------------------------------------------------------------
\* A stream that leaves the table becomes the least urgent.
LEMMA PriorityFalls ==
    ASSUME TypeOK, UNCHANGED priority, streams' \subseteq streams, NEW id \in Ids
    PROVE  StreamPriority(id) \in 0 .. 7 /\ StreamPriority(id)' \in 0 .. 7
           /\ StreamPriority(id) <= StreamPriority(id)'
BY LookupPriority DEF StreamPriority, TypeOK

\* The parts of a frame in a queue.
LEMMA QueuedType ==
    ASSUME TypeOK, NEW w \in Workers, NEW f \in frameQueues[w]
    PROVE  /\ f \in Frame /\ f.n \in Nat /\ f.priority \in Nat
           /\ f.id # 0 => f.id \in Ids
BY FrameType, ServeAssumption DEF TypeOK

\* The order of the frames holds on while the queues rest and streams leave.
LEMMA OrderKept ==
    ASSUME Inv, UNCHANGED <<frameQueues, last, accepted, priority>>,
           goneAway => goneAway', streams' \subseteq streams,
           \/ UNCHANGED reader
           \/ reader'.count = reader.count /\ reader'.at \notin {"add", "lookup", "push"}
    PROVE  OrderInv'
<1>1. ReaderInv'
  <2>1. CASE UNCHANGED reader
    <3>1. reader.frame.id # 0 => reader.frame.id \in Ids /\ reader.frame.priority \in 0 .. 7
      BY FrameType DEF Inv, TypeOK
    <3> QED
      BY <2>1, <3>1, PriorityFalls DEF Inv, OrderInv, ReaderInv, Holding
  <2>2. CASE reader'.at \notin {"add", "lookup", "push"}
    BY <2>2 DEF ReaderInv, Holding
  <2> QED
    BY <2>1, <2>2
<1>2. ASSUME NEW w \in Workers, NEW f \in frameQueues[w]
      PROVE  Queued(f, w)'
  <2>1. f.id # 0 => f.priority <= StreamPriority(f.id)'
    BY QueuedType, PriorityFalls DEF Inv, OrderInv, QueueInv, Queued
  <2>2. f.id \in PeerIds => f.id \in accepted' \/ goneAway'
    BY DEF Inv, OrderInv, QueueInv, Queued
  <2>3. f.n <= reader'.count /\ (Holding' => f.n < reader'.count)
    BY DEF Inv, OrderInv, QueueInv, Queued, Holding
  <2> QED
    BY <2>1, <2>2, <2>3 DEF Inv, OrderInv, QueueInv, Queued
<1>3. QueueInv'
  BY <1>2 DEF Inv, OrderInv, QueueInv
<1>4. LastInv' /\ StreamOrder'
  BY DEF Inv, OrderInv, LastInv, StreamOrder, Before, Holding
<1> QED
  BY <1>1, <1>3, <1>4 DEF OrderInv

\* The frame that was read last has a number of its own.
LEMMA OrderRead ==
    ASSUME Inv, NEW kind \in Kinds, NEW id \in Ids \cup {0}, NEW syn \in SynPriorities,
           ReadFrame(kind, id, syn)
    PROVE  OrderInv'
<1>1. UNCHANGED <<frameQueues, last, accepted, priority, goneAway, streams>> /\ reader.at = "read"
  BY DEF ReadFrame, pool, tables
<1>2. ReaderInv'
  <2>1. 0 \notin PeerIds
    BY ServeAssumption
  <2>2. id \in PeerIds => id \in accepted' \/ goneAway' \/ reader'.at \in {"add", "close"}
    BY <1>1, <2>1, FrameRead DEF Inv
  <2> QED
    BY <2>1, <2>2, FrameRead DEF Inv, ReaderInv, Holding
<1>3. reader.count \in Nat /\ reader'.count = reader.count + 1
  BY FrameRead, ServeAssumption DEF Inv, TypeOK
<1>4. ASSUME NEW w \in Workers, NEW f \in frameQueues[w]
      PROVE  Queued(f, w)'
  <2>1. f.n \in Nat /\ f.n <= reader.count
    BY QueuedType DEF Inv, OrderInv, QueueInv, Queued
  <2>2. f.n < reader'.count
    BY <1>3, <2>1
  <2>3. f.id # 0 => ~(reader'.at = "push" /\ reader'.frame.id = f.id)
    BY FrameRead DEF Inv
  <2>4. f.id # 0 => f.id % FRAME_WORKERS = w /\ f.priority <= StreamPriority(f.id)'
    BY <1>1 DEF Inv, OrderInv, QueueInv, Queued, StreamPriority
  <2>5. f.id \in PeerIds => f.id \in accepted' \/ goneAway'
    BY <1>1 DEF Inv, OrderInv, QueueInv, Queued
  <2>6. f.n <= reader'.count
    BY <1>3, <2>1
  <2> QED
    BY <2>2, <2>3, <2>4, <2>5, <2>6 DEF Queued
<1>5. QueueInv'
  BY <1>1, <1>4 DEF Inv, OrderInv, QueueInv
<1>6. LastInv'
  <2> SUFFICES ASSUME NEW i \in Ids PROVE last'[i] < reader'.count /\ last'[i] <= reader'.count
    BY DEF LastInv
  <2>1. last[i] <= reader.count /\ last[i] \in Nat
    BY ServeAssumption DEF Inv, TypeOK, OrderInv, LastInv
  <2> QED
    BY <1>1, <1>3, <2>1
<1> QED
  BY <1>1, <1>2, <1>5, <1>6 DEF Inv, OrderInv, StreamOrder, Before

\* A new stream has no frames in any queue yet.
LEMMA OrderAdd ==
    ASSUME Inv, AddStream
    PROVE  OrderInv'
<1> DEFINE id == reader.frame.id
<1>1. CASE ~(~goneAway /\ Valid(id))
  BY <1>1, OrderKept, ReaderContinues DEF AddStream, Inv, pool
<1>2. CASE ~goneAway /\ Valid(id)
  <2>1. /\ UNCHANGED <<frameQueues, last, goneAway>> /\ reader.at = "add"
        /\ accepted' = accepted \cup {id} /\ streams' = streams \cup {id}
        /\ priority' = [priority EXCEPT ![id] = reader.frame.priority]
    BY <1>2 DEF AddStream, pool
  <2>2. reader'.at = "push" /\ reader'.frame = reader.frame /\ reader'.count = reader.count
    BY <1>2, ReaderMoves DEF AddStream, Inv, ReaderStates
  <2>3. id \in PeerIds /\ id \in Ids /\ id # 0
    BY <2>1, ServeAssumption DEF Inv, OrderInv, ReaderInv, Ids
  <2>4. \A i \in accepted : i # id
    <3> SUFFICES ASSUME id \in accepted PROVE FALSE
      OBVIOUS
    <3>1. id <= received - 2 /\ id >= received /\ received \in Nat /\ id \in Nat
      BY <1>2, <2>3, ServeAssumption DEF Inv, IdInv, Valid, TypeOK
    <3> QED
      BY <3>1
  <2>5. \A i \in Ids \ {id} : StreamPriority(i)' = StreamPriority(i)
    BY <2>1 DEF StreamPriority, Inv, TypeOK
  <2>6. StreamPriority(id)' = reader.frame.priority /\ reader.frame.priority \in Nat
    <3>1. reader.frame \in Frame /\ priority'[id] = reader.frame.priority
      BY <2>1, <2>3 DEF Inv, TypeOK
    <3>2. reader.frame.priority \in 0 .. 7
      BY <3>1, FrameType
    <3>3. id \in streams'
      BY <2>1
    <3>4. StreamPriority(id)' = priority'[id]
      BY <2>2, <3>3 DEF StreamPriority
    <3>5. reader.frame.priority \in Nat
      BY <3>2
    <3> QED
      BY <3>1, <3>4, <3>5
  <2>7. ReaderInv'
    BY <2>1, <2>2, <2>3, <2>6 DEF Inv, OrderInv, ReaderInv, Holding
  <2>8. ASSUME NEW w \in Workers, NEW f \in frameQueues[w]
        PROVE  Queued(f, w)'
    <3>1. f.id # id
      BY <1>2, <2>3, <2>4 DEF Inv, OrderInv, QueueInv, Queued
    <3>2. f.id # 0 => StreamPriority(f.id)' = StreamPriority(f.id)
      BY <2>5, <3>1, QueuedType DEF Inv
    <3>3. f.id \in PeerIds => f.id \in accepted' \/ goneAway'
      BY <2>1 DEF Inv, OrderInv, QueueInv, Queued
    <3>4. f.n < reader'.count /\ f.n <= reader'.count
      BY <2>1, <2>2 DEF Inv, OrderInv, QueueInv, Queued, Holding
    <3> QED
      BY <2>2, <3>1, <3>2, <3>3, <3>4 DEF Inv, OrderInv, QueueInv, Queued
  <2>9. QueueInv' /\ LastInv' /\ StreamOrder'
    BY <2>1, <2>2, <2>8 DEF Inv, OrderInv, QueueInv, LastInv, StreamOrder, Before, Holding
  <2> QED
    BY <2>7, <2>9 DEF OrderInv
<1> QED
  BY <1>1, <1>2

\* The priority looked up is none of a frame read before it exceeds.
LEMMA OrderLookup ==
    ASSUME Inv, Lookup
    PROVE  OrderInv'
<1> DEFINE id == reader.frame.id
<1>1. /\ UNCHANGED <<frameQueues, last, accepted, priority, goneAway, streams>>
      /\ reader.at = "lookup" /\ id \in Ids
  BY DEF Lookup, pool, tables, Inv, OrderInv, ReaderInv
<1>2. /\ reader'.at = "push" /\ reader'.frame.id = id /\ reader'.frame.n = reader.frame.n
      /\ reader'.frame.priority = StreamPriority(id) /\ reader'.count = reader.count
  BY DEF Lookup, Inv, TypeOK, Frame
<1>3. \A i \in Ids : StreamPriority(i)' = StreamPriority(i) /\ StreamPriority(i) \in Nat
  BY <1>1, LookupPriority DEF StreamPriority, Inv
<1>4. ReaderInv'
  BY <1>1, <1>2, <1>3 DEF Inv, OrderInv, ReaderInv, Holding
<1>5. ASSUME NEW w \in Workers, NEW f \in frameQueues[w]
      PROVE  Queued(f, w)'
  BY <1>1, <1>2, <1>3, QueuedType DEF Inv, OrderInv, QueueInv, Queued, Holding
<1>6. QueueInv' /\ LastInv' /\ StreamOrder'
  BY <1>1, <1>2, <1>5 DEF Inv, OrderInv, QueueInv, LastInv, StreamOrder, Before, Holding
<1> QED
  BY <1>4, <1>6 DEF OrderInv

\* The frame goes behind all those of its stream.
LEMMA OrderPush ==
    ASSUME Inv, Push
    PROVE  OrderInv'
<1> DEFINE h == reader.frame
           w == Partition(h)
<1>1. /\ UNCHANGED <<last, accepted, priority, goneAway, streams>> /\ reader.at = "push"
      /\ frameQueues' = [frameQueues EXCEPT ![w] = frameQueues[w] \cup {h}]
  BY DEF Push, pool, tables
<1>2. reader'.at = "read" /\ reader'.count = reader.count
  BY ReaderContinues DEF Push, Inv
<1>3. /\ h \in Frame /\ h.n = reader.count /\ h.n \in Nat /\ h.priority \in Nat
      /\ h.id # 0 => h.id \in Ids /\ w = h.id % FRAME_WORKERS
  BY <1>1, FrameType, ServeAssumption DEF Inv, TypeOK, OrderInv, ReaderInv, Holding, Partition
<1>4. \A i \in Ids : StreamPriority(i)' = StreamPriority(i)
  BY <1>1 DEF StreamPriority
<1>5. \A v \in Workers : \A f \in frameQueues'[v] : f \in frameQueues[v] \/ (f = h /\ v = w)
  BY <1>1 DEF Inv, TypeOK
<1>6. ReaderInv'
  BY <1>2 DEF ReaderInv, Holding
<1>7. ASSUME NEW v \in Workers, NEW f \in frameQueues'[v]
      PROVE  Queued(f, v)'
  <2>1. CASE f \in frameQueues[v]
    BY <1>1, <1>2, <1>4, <2>1, QueuedType DEF Inv, OrderInv, QueueInv, Queued, Holding
  <2>2. CASE f = h /\ v = w
    <3>1. f.id # 0 => f.priority <= StreamPriority(f.id)'
      BY <1>1, <1>3, <1>4, <2>2 DEF Inv, OrderInv, ReaderInv
    <3>2. f.id \in PeerIds => f.id \in accepted' \/ goneAway'
      BY <1>1, <2>2 DEF Inv, OrderInv, ReaderInv
    <3> QED
      BY <1>2, <1>3, <2>2, <3>1, <3>2 DEF Queued, Holding
  <2> QED
    BY <1>5, <2>1, <2>2
<1>8. \A v \in Workers : \A f \in frameQueues[v] :
          /\ f.n < h.n /\ f.n \in Nat /\ f.priority \in Nat
          /\ f.id # 0 /\ f.id = h.id => f.priority <= h.priority
  BY <1>1, <1>3, QueuedType DEF Inv, OrderInv, QueueInv, Queued, Holding
<1>9. QueueInv'
  <2>1. ASSUME NEW v \in Workers, NEW f \in frameQueues'[v], NEW g \in frameQueues'[v], f.n = g.n
        PROVE  f = g
    BY <1>3, <1>5, <1>8, <2>1 DEF Inv, OrderInv, QueueInv
  <2> QED
    BY <1>7, <2>1 DEF QueueInv
<1>10. LastInv'
  BY <1>1, <1>2 DEF Inv, OrderInv, LastInv, Holding
<1>11. StreamOrder'
  <2>1. ASSUME NEW v \in Workers, NEW f \in frameQueues'[v], f.id # 0
        PROVE  last'[f.id] < f.n
    BY <1>1, <1>3, <1>5, <2>1, QueuedType DEF Inv, OrderInv, StreamOrder, LastInv, Holding
  <2>2. ASSUME NEW v \in Workers, NEW f \in frameQueues'[v], NEW g \in frameQueues'[v],
               f.id # 0, g.id = f.id, f.n < g.n
        PROVE  Before(f, g)
    <3>1. CASE f \in frameQueues[v] /\ g \in frameQueues[v]
      BY <2>2, <3>1 DEF Inv, OrderInv, StreamOrder
    <3>2. CASE f \in frameQueues[v] /\ g = h
      BY <1>3, <1>8, <2>2, <3>2 DEF Before
    <3>3. CASE f = h
      BY <1>3, <1>5, <1>8, <2>2, <3>3
    <3> QED
      BY <1>5, <3>1, <3>2, <3>3
  <2> QED
    BY <2>1, <2>2 DEF StreamOrder, Before
<1> QED
  BY <1>6, <1>9, <1>10, <1>11 DEF OrderInv

\* The frame popped is the oldest of its stream.
LEMMA OrderPop ==
    ASSUME Inv, NEW w \in Workers, Pop(w)
    PROVE  OrderInv'
<1>1. PICK f \in frameQueues[w] :
          /\ \A g \in frameQueues[w] \ {f} : Before(f, g)
          /\ frameQueues' = [frameQueues EXCEPT ![w] = frameQueues[w] \ {f}]
          /\ last' = IF f.id = 0 THEN last ELSE [last EXCEPT ![f.id] = f.n]
  BY DEF Pop
<1>2. UNCHANGED <<reader, accepted, priority, goneAway, streams>>
  BY DEF Pop, readLoop, tables
<1>3. \A v \in Workers : frameQueues'[v] \subseteq frameQueues[v] /\ (v = w => f \notin frameQueues'[v])
  BY <1>1 DEF Inv, TypeOK
<1>4. /\ f.n \in Nat /\ f.n <= reader.count /\ (Holding => f.n < reader.count)
      /\ f.id # 0 => f.id \in Ids /\ f.id % FRAME_WORKERS = w
  BY QueuedType DEF Inv, OrderInv, QueueInv, Queued
<1>5. ReaderInv'
  BY <1>2 DEF Inv, OrderInv, ReaderInv, Holding, StreamPriority
<1>6. QueueInv'
  BY <1>2, <1>3 DEF Inv, OrderInv, QueueInv, Queued, Holding, StreamPriority
<1>7. \A id \in Ids : last'[id] = last[id] \/ (id = f.id /\ last'[id] = f.n)
  BY <1>1, <1>4 DEF Inv, TypeOK
<1>8. LastInv'
  BY <1>2, <1>4, <1>7 DEF Inv, OrderInv, LastInv, Holding
<1>9. ASSUME NEW v \in Workers, NEW g \in frameQueues'[v], g.id # 0
      PROVE  last'[g.id] < g.n
  <2>1. g \in frameQueues[v] /\ g.n \in Nat /\ g.priority \in Nat /\ g.id \in Ids
        /\ g.id % FRAME_WORKERS = v
    BY <1>3, <1>9, QueuedType DEF Inv, OrderInv, QueueInv, Queued
  <2>2. CASE last'[g.id] = last[g.id]
    BY <1>9, <2>1, <2>2 DEF Inv, OrderInv, StreamOrder
  <2>3. CASE g.id = f.id /\ last'[g.id] = f.n
    <3>1. v = w /\ g # f
      BY <1>3, <1>4, <1>9, <2>1, <2>3
    <3>2. Before(f, g) /\ f.n # g.n
      BY <1>1, <2>1, <3>1 DEF Inv, OrderInv, QueueInv
    <3>3. g.n < f.n => Before(g, f)
      BY <1>9, <2>1, <2>3, <3>1 DEF Inv, OrderInv, StreamOrder
    <3>4. f.priority \in Nat
      BY QueuedType DEF Inv
    <3> QED
      BY <1>4, <2>1, <2>3, <3>2, <3>3, <3>4 DEF Before
  <2> QED
    BY <1>7, <2>1, <2>2, <2>3
<1>10. StreamOrder'
  BY <1>3, <1>9 DEF Inv, OrderInv, StreamOrder, Before
<1> QED
  BY <1>5, <1>6, <1>8, <1>10 DEF OrderInv


\* Partition and priorities keep the frames of every stream in order.
LEMMA OrderStep ==
    ASSUME Inv, [Next]_vars
    PROVE  OrderInv'
<1> USE DEF Inv
<1>1. CASE \E kind \in Kinds, id \in Ids \cup {0}, syn \in SynPriorities : ReadFrame(kind, id, syn)
  BY <1>1, OrderRead
<1>2. CASE ReadError
  BY <1>2, OrderKept, ReaderMoves DEF ReadError, ReaderStates, pool, tables
<1>3. CASE AddStream
  BY <1>3, OrderAdd
<1>4. CASE Lookup
  BY <1>4, OrderLookup
<1>5. CASE Push
  BY <1>5, OrderPush
<1>6. CASE CloseChan
  BY <1>6, OrderKept, ReaderMoves DEF CloseChan, ReaderStates, pool, tables
<1>7. CASE AwaitWorkers
  BY <1>7, OrderKept, ReaderMoves DEF AwaitWorkers, ReaderStates, pool, tables
<1>8. CASE HandleGoAway
  BY <1>8, OrderKept, ReaderMoves DEF HandleGoAway, ReaderStates, pool
<1>9. CASE Cleanup
  BY <1>9, OrderKept, ReaderMoves DEF Cleanup, ReaderStates, pool
<1>10. CASE \E w \in Workers : Drain(w)
  BY <1>10, OrderKept DEF Drain, readLoop, tables
<1>11. CASE \E w \in Workers : Pop(w)
  BY <1>11, OrderPop
<1>12. CASE \E w \in Workers : Exit(w)
  BY <1>12, OrderKept DEF Exit, readLoop, tables
<1>13. CASE \E w \in Workers : Handler(w) \/ WaitReceives(w)
  BY <1>13, HandlerSteps, OrderKept
<1>14. CASE Application
  BY <1>14, ApplicationSteps, OrderKept
<1>15. CASE UNCHANGED vars
  BY <1>15, OrderKept DEF vars, readLoop, pool, tables
<1> QED
  BY <1>1, <1>2, <1>3, <1>4, <1>5, <1>6, <1>7, <1>8, <1>9, <1>10, <1>11, <1>12, <1>13, <1>14, <1>15 DEF Next, ReadLoop

\* Workers leave only when their queue is drained, and Serve ends after them.
LEMMA EndStep ==
    ASSUME Inv, [Next]_vars
    PROVE  EndInv'
<1> USE DEF Inv, TypeOK, EndInv, WorkersDone, ReaderStates, WorkerStates
<1>1. CASE \E kind \in Kinds, id \in Ids \cup {0}, syn \in SynPriorities : ReadFrame(kind, id, syn)
  <2>1. ~closeChan /\ closeChan' = closeChan /\ UNCHANGED pool
    BY <1>1 DEF ReadFrame
  <2>2. reader'.at \in {"add", "close", "push", "lookup"}
    BY <1>1, FrameRead
  <2> QED
    BY <2>1, <2>2 DEF pool
<1>2. CASE ReadError
  BY <1>2, ReaderMoves, ReaderContinues DEF ReadError, pool, tables, apps
<1>3. CASE AddStream
  BY <1>3, ReaderMoves, ReaderContinues DEF AddStream, pool, apps
<1>4. CASE Lookup
  BY <1>4, ReaderMoves, ReaderContinues DEF Lookup, pool, tables, apps
<1>5. CASE Push
  BY <1>5, ReaderMoves, ReaderContinues DEF Push, tables, apps
<1>6. CASE CloseChan
  BY <1>6, ReaderMoves, ReaderContinues DEF CloseChan, pool, tables, apps
<1>7. CASE AwaitWorkers
  BY <1>7, ReaderMoves, ReaderContinues DEF AwaitWorkers, pool, tables, apps
<1>8. CASE HandleGoAway
  BY <1>8, ReaderMoves, ReaderContinues DEF HandleGoAway, pool, apps
<1>9. CASE Cleanup
  BY <1>9, ReaderMoves, ReaderContinues DEF Cleanup, pool
<1>10. CASE \E w \in Workers : Drain(w)
  <2> SUFFICES ASSUME NEW w \in Workers, Drain(w) PROVE EndInv'
    BY <1>10
  <2> QED
    BY WorkerMoves, FrameType DEF Drain, readLoop
<1>11. CASE \E w \in Workers : Pop(w)
  <2> SUFFICES ASSUME NEW w \in Workers, Pop(w) PROVE EndInv'
    BY <1>11
  <2> QED
    BY WorkerMoves, FrameType DEF Pop, readLoop
<1>12. CASE \E w \in Workers : Exit(w)
  <2> SUFFICES ASSUME NEW w \in Workers, Exit(w) PROVE EndInv'
    BY <1>12
  <2> QED
    BY WorkerMoves, FrameType DEF Exit, HandlerStates, readLoop
<1>13. CASE \E w \in Workers : Handler(w) \/ WaitReceives(w)
  <2> SUFFICES ASSUME NEW w \in Workers, Handler(w) \/ WaitReceives(w) PROVE EndInv'
    BY <1>13
  <2>1. workers'[w].at # "exited" /\ workers[w].at # "exited"
    BY HandlerSteps, HandlerWorkers DEF Busy, HandlerStates
  <2> QED
    BY <2>1, HandlerWorkers, HandlerSteps
<1>14. CASE Application
  BY <1>14, ApplicationSteps
<1>15. CASE UNCHANGED vars
  BY <1>15 DEF vars, readLoop, pool, tables, apps
<1> QED
  BY <1>1, <1>2, <1>3, <1>4, <1>5, <1>6, <1>7, <1>8, <1>9, <1>10, <1>11, <1>12, <1>13, <1>14, <1>15 DEF Next, ReadLoop

\* A worker is given frames of its own streams only.
LEMMA PartitionStep ==
    ASSUME Inv, [Next]_vars
    PROVE  PartitionInv'
<1> USE DEF Inv, TypeOK, PartitionInv, WorkerStates
<1>1. CASE \E kind \in Kinds, id \in Ids \cup {0}, syn \in SynPriorities : ReadFrame(kind, id, syn)
  BY <1>1 DEF ReadFrame, pool, tables, apps
<1>2. CASE ReadError
  BY <1>2 DEF ReadError, ReaderGoto, pool, tables, apps
<1>3. CASE AddStream
  BY <1>3 DEF AddStream, ReaderGoto, NextFrame, pool, apps
<1>4. CASE Lookup
  BY <1>4 DEF Lookup, pool, tables, apps
<1>5. CASE Push
  BY <1>5 DEF Push, NextFrame, tables, apps
<1>6. CASE CloseChan
  BY <1>6 DEF CloseChan, ReaderGoto, pool, tables, apps
<1>7. CASE AwaitWorkers
  BY <1>7 DEF AwaitWorkers, ReaderGoto, pool, tables, apps
<1>8. CASE HandleGoAway
  BY <1>8 DEF HandleGoAway, ReaderGoto, pool, apps
<1>9. CASE Cleanup
  BY <1>9 DEF Cleanup, ReaderGoto, pool
<1>10. CASE \E w \in Workers : Drain(w)
  BY <1>10 DEF Drain, readLoop, tables, apps
<1>11. CASE \E w \in Workers : Pop(w)
  <2> SUFFICES ASSUME NEW w \in Workers, Pop(w) PROVE PartitionInv'
    BY <1>11
  <2>1. PICK f \in frameQueues[w] : workers' = [workers EXCEPT ![w] = [at |-> "handle", frame |-> f]]
    BY DEF Pop
  <2>2. f \in Frame /\ (f.id # 0 => f.id % FRAME_WORKERS = w)
    BY QueuedType DEF OrderInv, QueueInv, Queued
  <2> QED
    BY <2>1, <2>2, WorkerMoves
<1>12. CASE \E w \in Workers : Exit(w)
  <2> SUFFICES ASSUME NEW w \in Workers, Exit(w) PROVE PartitionInv'
    BY <1>12
  <2> QED
    BY WorkerMoves, FrameType DEF Exit, HandlerStates
<1>13. CASE \E w \in Workers : Handler(w) \/ WaitReceives(w)
  <2> SUFFICES ASSUME NEW w \in Workers, Handler(w) \/ WaitReceives(w) PROVE PartitionInv'
    BY <1>13
  <2>1. /\ Busy(w)
        /\ \/ workers'[w].at = "pop"
           \/ workers'[w].frame = workers[w].frame /\ workers[w].frame.id \in Ids
    BY HandlerSteps, HandlerWorkers
  <2> QED
    BY <2>1, HandlerWorkers DEF Busy, HandlerStates
<1>14. CASE Application
  BY <1>14, ApplicationSteps
<1>15. CASE UNCHANGED vars
  BY <1>15 DEF vars, readLoop, pool, tables, apps
<1> QED
  BY <1>1, <1>2, <1>3, <1>4, <1>5, <1>6, <1>7, <1>8, <1>9, <1>10, <1>11, <1>12, <1>13, <1>14, <1>15 DEF Next, ReadLoop

\* No stream is accepted once goneAway is set, so receivedStreamId rests.
LEMMA IdStep ==
    ASSUME Inv, [Next]_vars
    PROVE  IdInv'
<1> USE DEF Inv, TypeOK, IdInv
<1>1. CASE \E kind \in Kinds, id \in Ids \cup {0}, syn \in SynPriorities : ReadFrame(kind, id, syn)
  BY <1>1 DEF ReadFrame, tables, apps, LastStreamId
<1>2. CASE ReadError
  BY <1>2 DEF ReadError, tables, apps, LastStreamId
<1>3. CASE AddStream
  <2> DEFINE id == reader.frame.id
  <2>1. CASE ~(~goneAway /\ Valid(id))
    BY <1>3, <2>1 DEF AddStream, apps, LastStreamId
  <2>2. CASE ~goneAway /\ Valid(id)
    <3>1. /\ received' = id + 2 /\ accepted' = accepted \cup {id} /\ id \in PeerIds
          /\ UNCHANGED <<closer, lastGood, goneAway>>
      BY <1>3, <2>2 DEF AddStream, apps, OrderInv, ReaderInv
    <3>2. id \in Nat /\ id >= received /\ received \in Nat /\ \A i \in accepted : i \in Nat
      BY <2>2, <3>1, ServeAssumption DEF Valid
    <3>3. id + 2 - 2 = id /\ \A i \in accepted : i <= id + 2 - 2
      BY <3>2
    <3>4. closer # "lastId" /\ lastGood = -1
      BY <2>2
    <3>5. received' >= FirstId
      BY <3>1, <3>2, ServeAssumption
    <3>6. received' - 2 = id /\ id \in accepted' /\ \A i \in accepted' : i <= id
      BY <3>1, <3>2, <3>3
    <3>7. closer' # "lastId" /\ lastGood' = -1
      BY <3>1, <3>4
    <3> QED
      BY <3>5, <3>6, <3>7
  <2> QED
    BY <2>1, <2>2
<1>4. CASE Lookup
  BY <1>4 DEF Lookup, tables, apps, LastStreamId
<1>5. CASE Push
  BY <1>5 DEF Push, tables, apps, LastStreamId
<1>6. CASE CloseChan
  BY <1>6 DEF CloseChan, tables, apps, LastStreamId
<1>7. CASE AwaitWorkers
  BY <1>7 DEF AwaitWorkers, tables, apps, LastStreamId
<1>8. CASE HandleGoAway
  BY <1>8 DEF HandleGoAway, apps, LastStreamId
<1>9. CASE Cleanup
  BY <1>9 DEF Cleanup, LastStreamId
<1>10. CASE \E w \in Workers : Drain(w)
  BY <1>10 DEF Drain, tables, apps, LastStreamId
<1>11. CASE \E w \in Workers : Pop(w)
  BY <1>11 DEF Pop, tables, apps, LastStreamId
<1>12. CASE \E w \in Workers : Exit(w)
  BY <1>12 DEF Exit, tables, apps, LastStreamId
<1>13. CASE \E w \in Workers : Handler(w) \/ WaitReceives(w)
  <2>1. UNCHANGED <<received, accepted, goneAway, closer, lastGood>>
    BY <1>13, HandlerSteps
  <2> QED
    BY <2>1 DEF LastStreamId
<1>14. CASE Application
  BY <1>14, ApplicationSteps DEF CloseBegin, CloseWrite, LastStreamId
<1>15. CASE UNCHANGED vars
  BY <1>15 DEF vars, tables, apps, LastStreamId
<1> QED
  BY <1>1, <1>2, <1>3, <1>4, <1>5, <1>6, <1>7, <1>8, <1>9, <1>10, <1>11, <1>12, <1>13, <1>14, <1>15 DEF Next, ReadLoop

\* Nothing gets lost as long as streams leave the table only into resetStream.
LEMMA ReadersKept ==
    ASSUME Inv, UNCHANGED <<accepted, workers>>, remoteClosed \subseteq remoteClosed',
           streams \cup remoteClosed \cup resetting
             \subseteq streams' \cup remoteClosed' \cup resetting'
    PROVE  ReadersInv'
BY DEF Inv, ReadersInv, ReadersReachable, Opened

\* The handlers, too, leave no stream out of the table and not closed.
LEMMA ReadersHandled ==
    ASSUME Inv, NEW w \in Workers, Handler(w) \/ WaitReceives(w)
    PROVE  ReadersInv'
<1> DEFINE id == workers[w].frame.id
<1> USE DEF Inv, ReadersInv, ReadersReachable, Opened, Handles
<1>1. /\ UNCHANGED <<accepted, resetting>>
      /\ \A v \in Workers \ {w} : workers'[v] = workers[v]
      /\ workers'[w].at = "pop" \/ workers'[w].frame = workers[w].frame
  BY HandlerSteps, HandlerWorkers
<1>2. \A at \in HandlerStates : WorkerGoto(w, at) => workers'[w].at = at
  BY WorkerMoves, FrameType DEF WorkerStates, TypeOK
<1>3. HandlerDone(w) => workers'[w].at = "pop"
  BY WorkerMoves, FrameType DEF WorkerStates
<1>4. CASE HandleOther(w) \/ WaitReceives(w) \/ HandleReply(w) \/ HandleData(w)
           \/ HandleResetReplied(w) \/ Deliver(w)
  <2>1. UNCHANGED <<streams, remoteClosed>>
    BY <1>4 DEF HandleOther, WaitReceives, HandleReply, HandleData, HandleResetReplied, Deliver,
       tables, apps
  <2>2. workers[w].at # "resetClose" /\ workers'[w].at # "finished"
    BY <1>2, <1>3, <1>4 DEF HandleOther, WaitReceives, HandleReply, HandleData, HandleResetReplied,
       Deliver, HandlerStates
  <2> QED
    BY <1>1, <2>1, <2>2
<1>5. CASE Finish(w) \/ HandleResetClose(w)
  <2>1. streams' = streams /\ remoteClosed' = remoteClosed \cup {id}
    BY <1>5 DEF Finish, HandleResetClose, tables
  <2> QED
    BY <1>1, <2>1, <1>2, <1>5 DEF Finish, HandleResetClose, HandlerStates
<1>6. CASE FinishCheck(w)
  <2>1. /\ streams \subseteq streams' \cup {id} /\ id \in remoteClosed
        /\ remoteClosed' = remoteClosed /\ workers[w].at = "finished"
    BY <1>6 DEF FinishCheck, apps
  <2>2. workers'[w].at = "pop"
    BY <1>3, <1>6 DEF FinishCheck
  <2> QED
    BY <1>1, <2>1, <2>2
<1>7. CASE HandleReset(w)
  <2>1. /\ streams' = streams \ {id} /\ remoteClosed' = remoteClosed
        /\ workers[w].at = "handle"
        /\ IF id \in streams THEN WorkerGoto(w, "resetClose") ELSE HandlerDone(w)
    BY <1>7 DEF HandleReset, apps
  <2>2. CASE id \in streams
    <3>1. workers'[w].at = "resetClose" /\ workers'[w].frame.id = id
      BY <1>1, <1>2, <2>1, <2>2 DEF HandlerStates
    <3> QED
      BY <1>1, <2>1, <3>1
  <2>3. CASE id \notin streams
    BY <1>1, <1>3, <2>1, <2>3
  <2> QED
    BY <2>2, <2>3
<1> QED
  BY <1>4, <1>5, <1>6, <1>7 DEF Handler

\* Whoever takes a stream out of the table has closed its closeChan, or will.
LEMMA ReadersStep ==
    ASSUME Inv, [Next]_vars
    PROVE  ReadersInv'
<1>1. CASE AddStream
  <2>1. /\ remoteClosed \subseteq remoteClosed' /\ UNCHANGED <<resetting, workers>>
        /\ streams \subseteq streams'
    BY <1>1 DEF AddStream, pool
  <2>2. \A id \in accepted' : id \in accepted \cup streams'
    BY <1>1 DEF AddStream
  <2> QED
    BY <2>1, <2>2 DEF Inv, ReadersInv, ReadersReachable, Opened
<1>2. CASE \E w \in Workers : Pop(w) \/ Exit(w)
  <2> SUFFICES ASSUME NEW w \in Workers, Pop(w) \/ Exit(w) PROVE ReadersInv'
    BY <1>2
  <2>1. /\ UNCHANGED <<streams, accepted, remoteClosed, resetting>>
        /\ workers[w].at = "pop" /\ \E at \in {"handle", "exited"} : workers'[w].at = at
        /\ \A v \in Workers \ {w} : workers'[v] = workers[v]
    BY DEF Pop, Exit, WorkerGoto, tables, apps, Inv, TypeOK
  <2> QED
    BY <2>1 DEF Inv, ReadersInv, ReadersReachable, Opened
<1>3. CASE \E w \in Workers : Handler(w) \/ WaitReceives(w)
  BY <1>3, ReadersHandled
<1>4. CASE Cleanup
  BY <1>4, ReadersKept DEF Cleanup, pool
<1>5. CASE \E id \in Ids : CloseStream(id) \/ Reset(id) \/ ResetStream(id)
  <2> SUFFICES ASSUME NEW id \in Ids, CloseStream(id) \/ Reset(id) \/ ResetStream(id)
               PROVE  ReadersInv'
    BY <1>5
  <2>1. UNCHANGED <<accepted, workers>> /\ remoteClosed \subseteq remoteClosed'
    BY DEF CloseStream, Reset, ResetStream, pool, tables, apps
  <2>2. streams \cup remoteClosed \cup resetting
          \subseteq streams' \cup remoteClosed' \cup resetting'
    BY DEF CloseStream, Reset, ResetStream, tables, apps
  <2> QED
    BY <2>1, <2>2, ReadersKept
<1>6. CASE IdleExpires
  BY <1>6, ReadersKept DEF IdleExpires, pool
<1>7. CASE UNCHANGED <<streams, accepted, workers, remoteClosed, resetting>>
  BY <1>7, ReadersKept
<1>8. CASE \/ \E kind \in Kinds, id \in Ids \cup {0}, syn \in SynPriorities : ReadFrame(kind, id, syn)
           \/ ReadError \/ Lookup \/ Push \/ CloseChan \/ AwaitWorkers \/ HandleGoAway
           \/ CloseBegin \/ CloseWrite \/ \E w \in Workers : Drain(w)
           \/ \E id \in Ids : Read(id) \/ ReadEOF(id)
  <2>1. UNCHANGED <<streams, accepted, workers, remoteClosed, resetting>>
    BY <1>8 DEF ReadFrame, ReadError, Lookup, Push, CloseChan, AwaitWorkers, HandleGoAway,
       CloseBegin, CloseWrite, Drain, Read, ReadEOF, pool, tables, apps
  <2> QED
    BY <2>1, <1>7
<1>9. UNCHANGED vars => UNCHANGED <<streams, accepted, workers, remoteClosed, resetting>>
  BY DEF vars, pool, tables, apps
<1> QED
  BY <1>1, <1>2, <1>3, <1>4, <1>5, <1>6, <1>7, <1>8, <1>9 DEF Next, ReadLoop, Application

-----------------------------------------------------------------------------
\* A new connection has empty queues and no accepted streams.
LEMMA InitInv == Init => Inv
<1> SUFFICES ASSUME Init PROVE Inv
  OBVIOUS
<1>1. TypeOK
  <2>1. reader \in [at: ReaderStates, frame: Frame, count: 0 .. MaxFrames, goAway: BOOLEAN]
    BY FrameType, ServeAssumption DEF Init, ReaderStates
  <2>2. frameQueues \in [Workers -> SUBSET Frame]
    BY DEF Init
  <2>3. workers \in [Workers -> [at: WorkerStates, frame: Frame]]
    BY FrameType DEF Init, WorkerStates
  <2>4. priority \in [Ids -> 0 .. 7] /\ last \in [Ids -> 0 .. MaxFrames]
    BY ServeAssumption DEF Init
  <2>5. roundRobin \in Workers /\ received \in Nat /\ lastGood \in Nat \cup {-1}
    BY ServeAssumption DEF Init, Workers
  <2>6. streams \subseteq Ids /\ drained \subseteq Workers /\ replied \subseteq Ids
        /\ accepted \subseteq PeerIds /\ reading \subseteq Ids /\ remoteClosed \subseteq Ids
        /\ resetting \subseteq Ids
    BY DEF Init, Ids
  <2> QED
    BY <2>1, <2>2, <2>3, <2>4, <2>5, <2>6 DEF Init, TypeOK, CloserStates
<1>2. \A w \in Workers : frameQueues[w] = {} /\ workers[w].at = "pop"
  BY DEF Init
<1>3. reader.at = "read" /\ reader.count = 0 /\ \A id \in Ids : last[id] = 0
  BY DEF Init
<1>4. OrderInv
  BY <1>2, <1>3 DEF OrderInv, ReaderInv, QueueInv, LastInv, StreamOrder, Holding
<1>5. EndInv /\ PartitionInv
  BY <1>2, <1>3 DEF Init, EndInv, PartitionInv, HandlerStates
<1>6. IdInv /\ ReadersInv
  BY <1>2, ServeAssumption DEF Init, IdInv, ReadersInv, ReadersReachable, Opened
<1> QED
  BY <1>1, <1>4, <1>5, <1>6 DEF Inv

\* The inductive invariant, and with it the types, holds in every state of
\* Serve, its workers and the calls beside them.
THEOREM Invariance == Spec => [](TypeOK /\ Inv)
<1>1. Inv /\ [Next]_vars => Inv'
  BY TypeStep, OrderStep, EndStep, PartitionStep, IdStep, ReadersStep DEF Inv
<1>2. Inv => TypeOK
  BY DEF Inv
<1> QED
  BY <1>1, <1>2, InitInv, PTL DEF Spec

\* As long as nobody calls SetPriority, the frames of a stream are handled in
\* the order they were read, whatever priorities streams have and whenever
\* they leave the table.
THEOREM StreamsAreOrdered == Spec => []StreamOrder
<1>1. Inv => StreamOrder
  BY DEF Inv, OrderInv
<1> QED
  BY <1>1, Invariance, PTL

\* frameHandler never runs twice for one stream.
THEOREM HandlersExclude == Spec => []OneHandlerPerStream
<1>1. Inv => OneHandlerPerStream
  BY DEF Inv, PartitionInv, OneHandlerPerStream
<1> QED
  BY <1>1, Invariance, PTL

\* wg.Wait() covers every frame read before the GOAWAY.
THEOREM DrainComesFirst == Spec => []DrainedBeforeGoAway
<1>1. Inv => DrainedBeforeGoAway
  BY DEF Inv, EndInv, WorkersDone, DrainedBeforeGoAway
<1> QED
  BY <1>1, Invariance, PTL

\* Close may read receivedStreamId without its lock.
THEOREM GoAwayIsExact == Spec => []GoAwayNamesLastAccepted
<1>1. ASSUME Inv, lastGood # -1
      PROVE  (\A id \in accepted : id <= lastGood) /\ lastGood \in accepted \cup {0}
  <2>1. CASE accepted = {}
    BY <1>1, <2>1, ServeAssumption DEF Inv, IdInv, LastStreamId
  <2>2. CASE accepted # {}
    <3>1. received - 2 \in accepted /\ received \in Nat /\ received - 2 \in Nat \ {0}
      BY <1>1, <2>2, ServeAssumption DEF Inv, IdInv, TypeOK
    <3>2. lastGood = received - 2
      BY <1>1, <3>1 DEF Inv, IdInv, LastStreamId
    <3> QED
      BY <1>1, <3>1, <3>2 DEF Inv, IdInv
  <2> QED
    BY <2>1, <2>2
<1>2. Inv => GoAwayNamesLastAccepted
  BY <1>1 DEF GoAwayNamesLastAccepted
<1> QED
  BY <1>2, Invariance, PTL

\* checkStreamFrame, validateStreamId: it lets a stream of the peer in once, above
\* all the ids before it and not after this side went away; and what enters the
\* table is such a stream.  So one that was refused, or has left, never comes back.
StreamsOpenInOrder ==
    [][/\ \A id \in accepted' \ accepted :
             ~goneAway /\ \A other \in accepted : other < id
       /\ streams' \ streams \subseteq accepted' \ accepted]_vars

\* Every stream is let in at most once, in the order of the ids, and none after
\* the GOAWAY, however the workers and the application take streams out of the
\* table meanwhile.
THEOREM StreamsAreNew == Spec => StreamsOpenInOrder
<1> DEFINE InOrder == /\ \A id \in accepted' \ accepted :
                            ~goneAway /\ \A other \in accepted : other < id
                      /\ streams' \ streams \subseteq accepted' \ accepted
<1>1. ASSUME Inv, AddStream
      PROVE  InOrder
  <2> DEFINE id == reader.frame.id
  <2>1. CASE ~(~goneAway /\ Valid(id))
    BY <1>1, <2>1 DEF AddStream
  <2>2. CASE ~goneAway /\ Valid(id)
    <3>1. accepted' = accepted \cup {id} /\ streams' = streams \cup {id}
      BY <1>1, <2>2 DEF AddStream
    <3>2. id \in PeerIds
      BY <1>1 DEF AddStream, Inv, OrderInv, ReaderInv
    <3>3. id \in Nat /\ received \in Nat /\ id >= received
      BY <1>1, <2>2, <3>2, ServeAssumption DEF Valid, Inv, TypeOK
    <3>4. \A other \in accepted : other \in Nat /\ other <= received - 2
      BY <1>1, ServeAssumption DEF Inv, TypeOK, IdInv
    <3>5. (\A other \in accepted : other < id) /\ id \notin accepted
      BY <3>3, <3>4
    <3> QED
      BY <2>2, <3>1, <3>5
  <2> QED
    BY <2>1, <2>2
<1>2. ASSUME Inv, [Next]_vars, ~AddStream
      PROVE  accepted' = accepted /\ streams' \subseteq streams
  <2>1. CASE \E w \in Workers : Handler(w) \/ WaitReceives(w)
    BY <1>2, <2>1, HandlerSteps DEF Inv
  <2>2. CASE Application
    BY <1>2, <2>2, ApplicationSteps DEF Inv
  <2> QED
    BY <1>2, <2>1, <2>2 DEF Next, ReadLoop, ReadFrame, ReadError, Lookup, Push, CloseChan,
       AwaitWorkers, HandleGoAway, Cleanup, Drain, Pop, Exit, vars, tables
<1>3. Inv /\ [Next]_vars => [InOrder]_vars
  BY <1>1, <1>2
<1> QED
  BY <1>3, Invariance, PTL DEF Spec, StreamsOpenInOrder

\* The end of Serve reaches whoever is blocked in Read.
THEOREM ReadersAreReachable == Spec => []ReadersReachable
<1>1. Inv => ReadersReachable
  BY DEF Inv, ReadersInv
<1> QED
  BY <1>1, Invariance, PTL

-----------------------------------------------------------------------------
(* The mailboxes                                                           *)

\* A number is in a mailbox iff a queue has the frame.
LEMMA InQueue ==
    ASSUME NEW id, NEW n
    PROVE  n \in InQueues(id) <=>
               \E w \in Workers : \E f \in frameQueues[w] : f.id = id /\ f.n = n
BY DEF InQueues

\* The same after a step.
LEMMA InQueueNext ==
    ASSUME NEW id, NEW n
    PROVE  n \in InQueues(id)' <=>
               \E w \in Workers : \E f \in frameQueues'[w] : f.id = id /\ f.n = n
BY DEF InQueues

\* A number is in a handler's hands iff a worker has the frame.
LEMMA InHand ==
    ASSUME NEW id, NEW n
    PROVE  n \in InHands(id) <=>
               \E w \in Workers : Busy(w) /\ workers[w].frame.id = id /\ workers[w].frame.n = n
BY DEF InHands

\* The same after a step.
LEMMA InHandNext ==
    ASSUME NEW id, NEW n
    PROVE  n \in InHands(id)' <=>
               \E w \in Workers : Busy(w)' /\ workers'[w].frame.id = id /\ workers'[w].frame.n = n
BY DEF InHands

\* A mailbox is a finite set of numbers, older than the frame being read.
LEMMA MailType ==
    ASSUME Inv, NEW id
    PROVE  /\ InQueues(id) \in SUBSET Nat /\ IsFiniteSet(InQueues(id))
           /\ \A n \in InQueues(id) : Holding => n < reader.count
<1>1. ASSUME NEW n \in InQueues(id)
      PROVE  n \in 0 .. reader.count /\ (Holding => n < reader.count)
  <2>0. PICK w \in Workers : \E f \in frameQueues[w] : f.id = id /\ f.n = n
    BY InQueue
  <2>1. PICK f \in frameQueues[w] : f.id = id /\ f.n = n
    BY <2>0
  <2>2. f.n \in Nat
    BY QueuedType DEF Inv
  <2>3. Queued(f, w)
    BY DEF Inv, OrderInv, QueueInv
  <2>4. reader.count \in Nat
    BY ServeAssumption DEF Inv, TypeOK
  <2> QED
    BY <2>1, <2>2, <2>3, <2>4 DEF Queued
<1>2. reader.count \in Nat
  BY ServeAssumption DEF Inv, TypeOK
<1>3. IsFiniteSet(0 .. reader.count)
  BY <1>2, FS_Interval
<1> QED
  BY <1>1, <1>2, <1>3, FS_Subset

\* A handler of a stream runs on the stream's worker only.
LEMMA HandsOf ==
    ASSUME Inv, NEW w \in Workers, Busy(w), workers[w].frame.id # 0
    PROVE  InHands(workers[w].frame.id) = {workers[w].frame.n}
<1> DEFINE id == workers[w].frame.id
           n  == workers[w].frame.n
<1>1. ASSUME NEW v \in Workers, Busy(v), workers[v].frame.id = id PROVE v = w
  BY <1>1 DEF Inv, PartitionInv, Busy
<1>2. \A m : m \in InHands(id) <=> m = n
  <2> SUFFICES ASSUME NEW m PROVE m \in InHands(id) <=> m = n
    OBVIOUS
  <2>1. m \in InHands(id) <=>
          \E v \in Workers : Busy(v) /\ workers[v].frame.id = id /\ workers[v].frame.n = m
    BY InHand
  <2> QED
    BY <1>1, <2>1
<1> QED
  BY <1>2

\* What rests while neither queues nor workers move.
LEMMA MailRests ==
    ASSUME UNCHANGED <<frameQueues, workers>>
    PROVE  UNCHANGED <<Mailbox, Handling, Loose>>
<1>1. \A id : InQueues(id)' = InQueues(id) /\ InHands(id)' = InHands(id)
  BY DEF InQueues, InHands, Busy
<1> QED
  BY <1>1 DEF Mailbox, Handling, Loose

\* ReadFrame: a frame with a handler arrives, or GOAWAY, or a SYN_STREAM that
\* does not count yet.
LEMMA ReadStep ==
    ASSUME Inv, NEW kind \in Kinds, NEW id \in Ids \cup {0}, NEW syn \in SynPriorities,
           ReadFrame(kind, id, syn)
    PROVE  Mailboxes!Next \/ UNCHANGED Mailboxes!vars
<1>1. /\ reader'.count = reader.count + 1 /\ reader'.frame.id = id
      /\ reader'.at \in {"add", "close", "push", "lookup"}
      /\ reader'.at = "push" => id = 0
      /\ reader.count \in Nat
  BY FrameRead, ServeAssumption DEF Inv, TypeOK
<1>2. UNCHANGED <<Mailbox, Handling, Loose, closeChan>> /\ reader.at = "read"
  BY MailRests DEF ReadFrame, pool
<1>3. ~closeChan /\ Incoming = {} /\ Arrived = reader.count /\ Over' = Over
  BY <1>1, <1>2 DEF Inv, EndInv, Incoming, Arrived, Over
<1>4. CASE reader'.at = "add"
  <2>1. Arrived' = Arrived /\ Incoming' = Incoming
    BY <1>1, <1>3, <1>4 DEF Arrived, Incoming
  <2> QED
    BY <1>2, <1>3, <2>1 DEF Mailboxes!vars
<1>5. CASE reader'.at = "close"
  <2>1. Arrived' = Arrived + 1 /\ Incoming' = Incoming
    BY <1>1, <1>3, <1>5 DEF Arrived, Incoming
  <2>2. Mailboxes!Ignore
    BY <1>2, <1>3, <2>1 DEF Mailboxes!Ignore
  <2> QED
    BY <2>2 DEF Mailboxes!Next
<1>6. CASE reader'.at \in {"push", "lookup"}
  <2>1. Arrived' = Arrived + 1 /\ Incoming' = {id}
    BY <1>1, <1>3, <1>6 DEF Arrived, Incoming
  <2>2. Mailboxes!Receive(id)
    BY <1>2, <1>3, <2>1 DEF Mailboxes!Receive
  <2> QED
    BY <2>2 DEF Mailboxes!Next
<1> QED
  BY <1>1, <1>4, <1>5, <1>6

\* checkStreamFrame: the SYN_STREAM arrives, or is ignored.
LEMMA AddStep ==
    ASSUME Inv, AddStream
    PROVE  Mailboxes!Next
<1> DEFINE id == reader.frame.id
<1>1. /\ UNCHANGED <<Mailbox, Handling, Loose, closeChan>> /\ reader.at = "add"
      /\ ~closeChan /\ Incoming = {} /\ Arrived + 1 = reader.count
      /\ id \in Ids
  <2>1. UNCHANGED <<Mailbox, Handling, Loose, closeChan>> /\ reader.at = "add"
    BY MailRests DEF AddStream, pool
  <2>2. reader.count \in Nat /\ id \in PeerIds
    BY <2>1, ServeAssumption DEF Inv, TypeOK, OrderInv, ReaderInv
  <2> QED
    BY <2>1, <2>2 DEF Inv, EndInv, Incoming, Arrived, Ids
<1>2. CASE ~goneAway /\ Valid(id)
  <2>1. ReaderGoto("push")
    BY <1>2 DEF AddStream
  <2>2. reader'.at = "push" /\ reader'.frame = reader.frame /\ reader'.count = reader.count
    BY <2>1, ReaderMoves DEF Inv, ReaderStates
  <2>3. Arrived' = Arrived + 1 /\ Incoming' = {id} /\ Over' = Over
    BY <1>1, <2>2 DEF Arrived, Incoming, Over
  <2>4. Mailboxes!Receive(id)
    BY <1>1, <2>3 DEF Mailboxes!Receive
  <2> QED
    BY <1>1, <2>4 DEF Mailboxes!Next
<1>3. CASE ~(~goneAway /\ Valid(id))
  <2>1. NextFrame
    BY <1>3 DEF AddStream
  <2>2. reader'.at = "read" /\ reader'.count = reader.count
    BY <2>1, ReaderContinues DEF Inv
  <2>3. Arrived' = Arrived + 1 /\ Incoming' = {} /\ Over' = Over
    BY <1>1, <2>2 DEF Arrived, Incoming, Over
  <2>4. Mailboxes!Ignore
    BY <1>1, <2>3 DEF Mailboxes!Ignore
  <2> QED
    BY <2>4 DEF Mailboxes!Next
<1> QED
  BY <1>2, <1>3

\* Push: the frame is the youngest of its mailbox.
LEMMA PushDelivers ==
    ASSUME Inv, Push
    PROVE  Mailboxes!Next
<1> DEFINE f  == reader.frame
           id == f.id
           n  == f.n
<1>1. /\ reader.at = "push" /\ Holding /\ f \in Frame /\ id \in Ids \cup {0}
      /\ n = reader.count /\ n \in Nat /\ ~closeChan
  <2>1. reader.at = "push" /\ Holding
    BY DEF Push, Holding
  <2>2. f \in Frame /\ id \in Ids \cup {0}
    BY FrameType DEF Inv, TypeOK
  <2>3. n = reader.count /\ reader.count \in Nat
    BY <2>1, ServeAssumption DEF Inv, TypeOK, OrderInv, ReaderInv
  <2> QED
    BY <2>1, <2>2, <2>3 DEF Inv, EndInv
<1>2. PICK w \in Workers : w = Partition(f)
  <2>1. id \in Nat
    BY <1>1, IdsAreNat
  <2> QED
    BY <2>1, PartitionType DEF Partition, Inv, TypeOK
<1>3. /\ reader'.at = "read" /\ reader'.count = reader.count
      /\ frameQueues' = [frameQueues EXCEPT ![w] = @ \cup {f}]
      /\ UNCHANGED <<workers, closeChan>>
  BY <1>2, ReaderContinues DEF Push, Inv
<1>4. ASSUME NEW i PROVE InQueues(i)' = IF i = id THEN InQueues(i) \cup {n} ELSE InQueues(i)
  <2>1. /\ frameQueues'[w] = frameQueues[w] \cup {f}
        /\ \A v \in Workers \ {w} : frameQueues'[v] = frameQueues[v]
    BY <1>2, <1>3 DEF Inv, TypeOK
  <2>2. ASSUME NEW m PROVE m \in InQueues(i)' <=> m \in InQueues(i) \/ (i = id /\ m = n)
    <3>1. m \in InQueues(i)' <=> \E v \in Workers : \E g \in frameQueues'[v] : g.id = i /\ g.n = m
      BY InQueueNext
    <3>2. m \in InQueues(i) <=> \E v \in Workers : \E g \in frameQueues[v] : g.id = i /\ g.n = m
      BY InQueue
    <3>3. \A v \in Workers : \A g : g \in frameQueues'[v] <=> g \in frameQueues[v] \/ (v = w /\ g = f)
      BY <2>1
    <3> QED
      BY <1>2, <3>1, <3>2, <3>3
  <2> QED
    BY <2>2
<1>5. UNCHANGED <<Handling, Over, closeChan>> /\ \A i : InHands(i)' = InHands(i)
  BY <1>1, <1>3 DEF Handling, InHands, Busy, Over
<1>6. Arrived = n /\ Arrived' = Arrived /\ Incoming = {id} /\ Incoming' = {}
  BY <1>1, <1>3 DEF Arrived, Incoming
<1>7. CASE id = 0
  <2>1. Loose' = Loose \cup {n}
    BY <1>4, <1>5, <1>7 DEF Loose
  <2>2. Mailbox' = Mailbox
    BY <1>4, <1>7, IdsAreNat DEF Mailbox
  <2>3. Mailboxes!DeliverLoose
    BY <1>5, <1>6, <1>7, <2>1, <2>2 DEF Mailboxes!DeliverLoose
  <2> QED
    BY <2>3 DEF Mailboxes!Next
<1>8. CASE id # 0
  <2>1. Loose' = Loose
    BY <1>4, <1>5, <1>8 DEF Loose
  <2>2. Sorted(InQueues(id) \cup {n}) = Append(Sorted(InQueues(id)), n)
    BY <1>1, MailType, SortedAppend
  <2>3. \A i \in Ids : Sorted(InQueues(i))' = IF i = id THEN Append(Sorted(InQueues(i)), n)
                                              ELSE Sorted(InQueues(i))
    BY <1>4, <2>2
  <2>4. Mailbox' = [Mailbox EXCEPT ![id] = Append(@, n)]
    BY <1>1, <1>8, <2>3 DEF Mailbox
  <2>5. Mailboxes!Deliver(id)
    BY <1>5, <1>6, <2>1, <2>4 DEF Mailboxes!Deliver
  <2> QED
    BY <1>1, <1>8, <2>5 DEF Mailboxes!Next
<1> QED
  BY <1>7, <1>8

\* No frame is in a queue or in a handler once all workers have left.
LEMMA EmptyMail ==
    ASSUME Inv, WorkersDone
    PROVE  \A id : InQueues(id) = {} /\ InHands(id) = {}
<1>1. \A w \in Workers : frameQueues[w] = {} /\ ~Busy(w)
  BY DEF WorkersDone, Inv, EndInv, Busy, HandlerStates
<1> QED
  BY <1>1, InQueue, InHand

\* close(s.closeChan): nothing more is read.
LEMMA CloseStep ==
    ASSUME Inv, CloseChan
    PROVE  Mailboxes!Next
<1>1. /\ reader.at = "close" /\ closeChan' = TRUE
      /\ reader'.at = "wait" /\ reader'.count = reader.count
      /\ UNCHANGED <<Mailbox, Handling, Loose>>
  BY MailRests, ReaderMoves DEF CloseChan, pool, Inv, ReaderStates
<1>2. /\ ~closeChan /\ Incoming = {} /\ Incoming' = Incoming
      /\ Arrived' = Arrived /\ Over' = Over
  BY <1>1 DEF Inv, EndInv, Incoming, Arrived, Over
<1>3. Mailboxes!Close
  BY <1>1, <1>2 DEF Mailboxes!Close
<1> QED
  BY <1>3 DEF Mailboxes!Next

\* wg.Wait() returns: every mailbox is empty.
LEMMA AwaitEnds ==
    ASSUME Inv, AwaitWorkers
    PROVE  Mailboxes!Next
<1>1. /\ reader.at = "wait" /\ WorkersDone
      /\ reader'.at \in {"goAway", "cleanup"} /\ reader'.count = reader.count
      /\ UNCHANGED <<Mailbox, Handling, Loose, closeChan>>
  BY MailRests, ReaderMoves DEF AwaitWorkers, pool, Inv, ReaderStates
<1>2. Incoming' = Incoming /\ Arrived' = Arrived /\ Over'
  BY <1>1 DEF Incoming, Arrived, Over
<1>3. closeChan
  <2>1. 0 \in Workers
    BY ServeAssumption DEF Workers
  <2> QED
    BY <1>1, <2>1 DEF Inv, EndInv, WorkersDone
<1>4. Loose = {} /\ \A id \in Ids : Mailbox[id] = <<>> /\ Handling[id] = {}
  <2>1. Sorted({}) = <<>>
    BY SortedSeq, FS_EmptySet
  <2> QED
    BY <1>1, <2>1, EmptyMail DEF Loose, Mailbox, Handling
<1>5. Over' = TRUE
  BY <1>1 DEF Over
<1>6. Mailboxes!End
  BY <1>1, <1>2, <1>3, <1>4, <1>5 DEF Mailboxes!End
<1> QED
  BY <1>6 DEF Mailboxes!Next

\* Pop: a handler of the stream begins with the oldest frame of its mailbox.
LEMMA PopBegins ==
    ASSUME Inv, NEW w \in Workers, Pop(w)
    PROVE  Mailboxes!Next \/ UNCHANGED Mailboxes!vars
<1>1. PICK f \in frameQueues[w] :
        /\ \A g \in frameQueues[w] \ {f} : Before(f, g)
        /\ frameQueues' = [frameQueues EXCEPT ![w] = @ \ {f}]
        /\ workers' = [workers EXCEPT ![w] = [at |-> "handle", frame |-> f]]
  BY DEF Pop
<1> DEFINE id == f.id
           n  == f.n
<1>2. f \in Frame /\ n \in Nat /\ f.priority \in Nat /\ id \in Ids \cup {0}
  BY QueuedType, FrameType DEF Inv
<1>3. /\ workers[w].at = "pop" /\ ~Busy(w)
      /\ UNCHANGED <<reader, closeChan>>
  BY DEF Pop, Busy, HandlerStates, readLoop
<1>4. /\ frameQueues'[w] = frameQueues[w] \ {f} /\ workers'[w].frame = f
      /\ \A v \in Workers \ {w} : frameQueues'[v] = frameQueues[v] /\ workers'[v] = workers[v]
      /\ Busy(w)' /\ \A v \in Workers \ {w} : Busy(v)' <=> Busy(v)
  BY <1>1, <1>2 DEF Inv, TypeOK, Busy, HandlerStates
<1>5. UNCHANGED <<Arrived, Incoming, Over>>
  BY <1>3 DEF Arrived, Incoming, Over
<1>6. ASSUME NEW i, NEW m
      PROVE  /\ m \in InQueues(i)' => m \in InQueues(i)
             /\ m \in InQueues(i) /\ ~ (i = id /\ m = n) => m \in InQueues(i)'
             /\ i = id /\ id # 0 => n \notin InQueues(i)'
             /\ m \in InHands(i)' <=> m \in InHands(i) \/ (i = id /\ m = n)
  <2>1. m \in InQueues(i)' <=> \E v \in Workers : \E g \in frameQueues'[v] : g.id = i /\ g.n = m
    BY InQueueNext
  <2>2. m \in InQueues(i) <=> \E v \in Workers : \E g \in frameQueues[v] : g.id = i /\ g.n = m
    BY InQueue
  <2>3. \A v \in Workers : \A g : g \in frameQueues'[v] <=> g \in frameQueues[v] /\ ~ (v = w /\ g = f)
    BY <1>4
  <2>4. m \in InHands(i)' <=>
          \E v \in Workers : Busy(v)' /\ workers'[v].frame.id = i /\ workers'[v].frame.n = m
    BY InHandNext
  <2>5. m \in InHands(i) <=>
          \E v \in Workers : Busy(v) /\ workers[v].frame.id = i /\ workers[v].frame.n = m
    BY InHand
  <2>6. m \in InQueues(i)' => m \in InQueues(i)
    BY <2>1, <2>2, <2>3
  <2>7. m \in InQueues(i) /\ ~ (i = id /\ m = n) => m \in InQueues(i)'
    BY <2>1, <2>2, <2>3
  <2>8. m \in InHands(i)' <=> m \in InHands(i) \/ (i = id /\ m = n)
    BY <1>3, <1>4, <2>4, <2>5
  <2>9. ASSUME i = id, id # 0, n \in InQueues(i)' PROVE FALSE
    <3>1. PICK v \in Workers : \E g \in frameQueues'[v] : g.id = i /\ g.n = n
      BY <2>9, InQueueNext
    <3>2. PICK g \in frameQueues'[v] : g.id = i /\ g.n = n
      BY <3>1
    <3>3. g \in frameQueues[v] /\ ~ (v = w /\ g = f)
      BY <2>3
    <3>4. v = w
      BY <2>9, <3>2, <3>3 DEF Inv, OrderInv, QueueInv, Queued
    <3> QED
      BY <3>2, <3>3, <3>4 DEF Inv, OrderInv, QueueInv
  <2> QED
    BY <2>6, <2>7, <2>8, <2>9
<1>7. CASE id = 0
  <2>1. \A i \in Ids : InQueues(i)' = InQueues(i) /\ InHands(i)' = InHands(i)
    BY <1>6, <1>7, IdsAreNat
  <2>2. n \in InQueues(0)
    BY <1>7, InQueue
  <2>3. \A m : m \in Loose' <=> m \in Loose
    BY <1>6, <1>7, <2>2 DEF Loose
  <2>4. UNCHANGED <<Mailbox, Handling, Loose>>
    BY <2>1, <2>3 DEF Mailbox, Handling, Loose
  <2> QED
    BY <1>3, <1>5, <2>4 DEF Mailboxes!vars
<1>8. CASE id # 0
  <2>1. n \in InQueues(id)
    BY InQueue
  <2>2. \A m \in InQueues(id) \ {n} : n < m
    <3> SUFFICES ASSUME NEW m \in InQueues(id) \ {n} PROVE n < m
      OBVIOUS
    <3>1. PICK v \in Workers : \E g \in frameQueues[v] : g.id = id /\ g.n = m
      BY InQueue
    <3>2. PICK g \in frameQueues[v] : g.id = id /\ g.n = m
      BY <3>1
    <3>3. v = w
      BY <1>8, <3>2 DEF Inv, OrderInv, QueueInv, Queued
    <3>4. g # f /\ Before(f, g) /\ g.n \in Nat /\ g.priority \in Nat
      BY <1>1, <3>2, <3>3, QueuedType DEF Inv
    <3>5. g.n < f.n => Before(g, f)
      BY <1>8, <3>2, <3>3 DEF Inv, OrderInv, StreamOrder
    <3> QED
      BY <1>2, <3>2, <3>4, <3>5 DEF Before
  <2>3. /\ Sorted(InQueues(id)) # <<>> /\ Head(Sorted(InQueues(id))) = n
        /\ Tail(Sorted(InQueues(id))) = Sorted(InQueues(id) \ {n})
    BY <2>1, <2>2, MailType, SortedTail
  <2>4. InHands(id) = {}
    <3>1. \A v \in Workers : ~ (Busy(v) /\ workers[v].frame.id = id)
      <4>1. id % FRAME_WORKERS = w
        BY <1>8 DEF Inv, OrderInv, QueueInv, Queued
      <4> QED
        BY <1>3, <1>8, <4>1 DEF Inv, PartitionInv, Busy
    <3> QED
      BY <3>1, InHand
  <2>5. \A i \in Ids : /\ InQueues(i)' = IF i = id THEN InQueues(i) \ {n} ELSE InQueues(i)
                       /\ InHands(i)' = IF i = id THEN {n} ELSE InHands(i)
    <3> SUFFICES ASSUME NEW i \in Ids
                 PROVE  /\ InQueues(i)' = IF i = id THEN InQueues(i) \ {n} ELSE InQueues(i)
                        /\ InHands(i)' = IF i = id THEN {n} ELSE InHands(i)
      OBVIOUS
    <3>1. \A m : m \in InQueues(i)' <=> m \in InQueues(i) /\ ~ (i = id /\ m = n)
      BY <1>6, <1>8
    <3>2. \A m : m \in InHands(i)' <=> m \in InHands(i) \/ (i = id /\ m = n)
      BY <1>6
    <3> QED
      BY <2>4, <3>1, <3>2
  <2>6. Loose' = Loose
    <3>1. \A m : m \in Loose' <=> m \in Loose
      BY <1>6, <1>8 DEF Loose
    <3> QED
      BY <3>1 DEF Loose
  <2>7. Mailbox' = [Mailbox EXCEPT ![id] = Tail(@)]
    BY <1>2, <1>8, <2>3, <2>5 DEF Mailbox
  <2>8. Handling' = [Handling EXCEPT ![id] = {Head(Mailbox[id])}]
    BY <1>2, <1>8, <2>3, <2>5 DEF Handling, Mailbox
  <2>9. Handling[id] = {} /\ Mailbox[id] # <<>>
    BY <1>2, <1>8, <2>3, <2>4 DEF Handling, Mailbox
  <2>10. Mailboxes!Begin(id)
    BY <1>3, <1>5, <2>6, <2>7, <2>8, <2>9 DEF Mailboxes!Begin
  <2> QED
    BY <1>2, <1>8, <2>10 DEF Mailboxes!Next
<1> QED
  BY <1>7, <1>8

\* A handler returns: its stream is free for the next frame.
LEMMA HandlerFinishes ==
    ASSUME Inv, NEW w \in Workers, Busy(w), HandlerDone(w),
           UNCHANGED <<reader, closeChan, frameQueues>>
    PROVE  Mailboxes!Next \/ UNCHANGED Mailboxes!vars
<1> DEFINE id == workers[w].frame.id
           n  == workers[w].frame.n
<1>1. id \in Ids \cup {0}
  BY FrameType DEF Inv, TypeOK
<1>2. /\ ~Busy(w)'
      /\ \A v \in Workers \ {w} : workers'[v] = workers[v] /\ (Busy(v)' <=> Busy(v))
  BY WorkerMoves, FrameType DEF Inv, WorkerStates, Busy, HandlerStates
<1>3. UNCHANGED <<Arrived, Incoming, Over, Mailbox>> /\ \A i : InQueues(i)' = InQueues(i)
  BY DEF Arrived, Incoming, Over, Mailbox, InQueues
<1>4. ASSUME NEW i, NEW m
      PROVE  /\ m \in InHands(i)' => m \in InHands(i)
             /\ m \in InHands(i) /\ ~ (i = id /\ m = n) => m \in InHands(i)'
             /\ i = id /\ id # 0 => m \notin InHands(i)'
  <2>1. m \in InHands(i)' <=>
          \E v \in Workers : Busy(v)' /\ workers'[v].frame.id = i /\ workers'[v].frame.n = m
    BY InHandNext
  <2>2. m \in InHands(i) <=>
          \E v \in Workers : Busy(v) /\ workers[v].frame.id = i /\ workers[v].frame.n = m
    BY InHand
  <2>3. m \in InHands(i)' => m \in InHands(i)
    BY <1>2, <2>1, <2>2
  <2>4. m \in InHands(i) /\ ~ (i = id /\ m = n) => m \in InHands(i)'
    BY <1>2, <2>1, <2>2
  <2>5. ASSUME i = id, id # 0, m \in InHands(i)' PROVE FALSE
    <3>1. PICK v \in Workers : Busy(v)' /\ workers'[v].frame.id = i
      BY <2>5, InHandNext
    <3>2. v # w /\ Busy(v) /\ workers[v].frame.id = id
      BY <1>2, <2>5, <3>1
    <3> QED
      BY <2>5, <3>2 DEF Inv, PartitionInv, Busy
  <2> QED
    BY <2>3, <2>4, <2>5
<1>5. CASE id = 0
  <2>1. \A i \in Ids : InHands(i)' = InHands(i)
    BY <1>4, <1>5, IdsAreNat
  <2>2. Handling' = Handling
    BY <2>1 DEF Handling
  <2>3. n \in Loose
    BY <1>5, InHand DEF Loose
  <2>4. \A m : /\ m \in Loose' => m \in Loose
               /\ m \in Loose /\ m # n => m \in Loose'
    BY <1>3, <1>4, <1>5 DEF Loose
  <2>5. CASE n \in Loose'
    <3>1. \A m : m \in Loose' <=> m \in Loose
      BY <2>3, <2>4, <2>5
    <3>2. Loose' = Loose
      BY <3>1 DEF Loose
    <3> QED
      BY <1>3, <2>2, <3>2 DEF Mailboxes!vars
  <2>6. CASE n \notin Loose'
    <3>1. \A m : m \in Loose' <=> m \in Loose \ {n}
      BY <2>4, <2>6
    <3>2. Loose' = Loose \ {n}
      BY <3>1 DEF Loose
    <3>3. Mailboxes!FinishLoose(n)
      BY <1>3, <2>2, <3>2 DEF Mailboxes!FinishLoose
    <3> QED
      BY <2>3, <3>3 DEF Mailboxes!Next
  <2> QED
    BY <2>5, <2>6
<1>6. CASE id # 0
  <2>1. Loose' = Loose
    <3>1. \A m : m \in Loose' <=> m \in Loose
      BY <1>3, <1>4, <1>6 DEF Loose
    <3> QED
      BY <3>1 DEF Loose
  <2>2. \A i \in Ids : InHands(i)' = IF i = id THEN {} ELSE InHands(i)
    <3> SUFFICES ASSUME NEW i \in Ids PROVE InHands(i)' = IF i = id THEN {} ELSE InHands(i)
      OBVIOUS
    <3>1. CASE i = id
      BY <1>4, <1>6, <3>1
    <3>2. CASE i # id
      <4>1. \A m : m \in InHands(i)' <=> m \in InHands(i)
        BY <1>4, <3>2
      <4>2. InHands(i)' = InHands(i)
        BY <4>1
      <4> QED
        BY <3>2, <4>2
    <3> QED
      BY <3>1, <3>2
  <2>3. Handling' = [Handling EXCEPT ![id] = {}]
    BY <2>2 DEF Handling
  <2>4. Handling[id] # {}
    BY <1>1, <1>6, HandsOf DEF Handling
  <2>5. Mailboxes!Finish(id)
    BY <1>3, <2>1, <2>3, <2>4 DEF Mailboxes!Finish
  <2> QED
    BY <1>1, <1>6, <2>5 DEF Mailboxes!Next
<1> QED
  BY <1>5, <1>6

\* A step of a handler ends it, or nobody sees it.
LEMMA HandlerMoves ==
    ASSUME Inv, NEW w \in Workers, Handler(w) \/ WaitReceives(w)
    PROVE  Mailboxes!Next \/ UNCHANGED Mailboxes!vars
<1>1. UNCHANGED <<reader, closeChan, frameQueues>> /\ Busy(w)
  BY HandlerSteps DEF Inv
<1>2. CASE HandlerDone(w)
  BY <1>1, <1>2, HandlerFinishes
<1>3. CASE \E at \in HandlerStates : WorkerGoto(w, at)
  <2>1. \A v \in Workers : workers'[v].frame = workers[v].frame /\ (Busy(v)' <=> Busy(v))
    BY <1>1, <1>3, WorkerMoves, FrameType DEF Inv, TypeOK, WorkerStates, Busy
  <2>2. ASSUME NEW i PROVE InHands(i)' = InHands(i)
    <3>1. \A m : m \in InHands(i)' <=> m \in InHands(i)
      BY <2>1, InHand, InHandNext
    <3> QED
      BY <3>1
  <2>3. \A i : InQueues(i)' = InQueues(i)
    BY <1>1 DEF InQueues
  <2>4. UNCHANGED <<Mailbox, Handling, Loose>>
    BY <2>2, <2>3 DEF Mailbox, Handling, Loose
  <2>5. UNCHANGED <<closeChan, Arrived, Incoming, Over>>
    BY <1>1 DEF Arrived, Incoming, Over
  <2> QED
    BY <2>4, <2>5 DEF Mailboxes!vars
<1> QED
  BY <1>2, <1>3, HandlerSteps DEF Inv

\* A step of Serve that moves no frame and does not bring the end nearer, or of
\* the application, changes nothing that the mailboxes show.
LEMMA MailStutter ==
    ASSUME Inv, UNCHANGED <<closeChan, frameQueues, workers>>,
           UNCHANGED <<Arrived, Incoming, Over>>
    PROVE  UNCHANGED Mailboxes!vars
BY MailRests DEF Mailboxes!vars

\* The read loop moves without a frame.
LEMMA ReaderStutter ==
    ASSUME Inv, UNCHANGED <<closeChan, frameQueues, workers>>,
           reader'.count = reader.count, reader'.frame.id = reader.frame.id,
           reader'.at = reader.at \/ {reader.at, reader'.at} \subseteq {"lookup", "push"}
           \/ {reader.at, reader'.at} \subseteq {"read", "close", "wait"}
           \/ {reader.at, reader'.at} \subseteq {"goAway", "cleanup", "done"}
    PROVE  UNCHANGED Mailboxes!vars
<1>1. UNCHANGED <<Arrived, Incoming, Over>>
  BY DEF Arrived, Incoming, Over
<1> QED
  BY <1>1, MailStutter

\* Every step of Serve is a step of the mailboxes or leaves them as they are.
LEMMA MailboxesStep == Inv /\ [Next]_vars => [Mailboxes!Next]_(Mailboxes!vars)
<1> SUFFICES ASSUME Inv, [Next]_vars PROVE Mailboxes!Next \/ UNCHANGED Mailboxes!vars
  OBVIOUS
<1> USE DEF readLoop, pool, ReaderStates
<1>1. CASE \E kind \in Kinds, id \in Ids \cup {0}, syn \in SynPriorities : ReadFrame(kind, id, syn)
  BY <1>1, ReadStep
<1>2. CASE ReadError
  BY <1>2, ReaderMoves, ReaderStutter DEF ReadError, Inv
<1>3. CASE AddStream
  BY <1>3, AddStep
<1>4. CASE Lookup
  <2>1. /\ reader.at = "lookup" /\ reader'.at = "push" /\ reader'.count = reader.count
        /\ reader'.frame.id = reader.frame.id
    BY <1>4 DEF Lookup, Inv, TypeOK, Frame
  <2> QED
    BY <1>4, <2>1, ReaderStutter DEF Lookup
<1>5. CASE Push
  BY <1>5, PushDelivers
<1>6. CASE CloseChan
  BY <1>6, CloseStep
<1>7. CASE AwaitWorkers
  BY <1>7, AwaitEnds
<1>8. CASE HandleGoAway
  BY <1>8, ReaderMoves, ReaderStutter DEF HandleGoAway, Inv
<1>9. CASE Cleanup
  BY <1>9, ReaderMoves, ReaderStutter DEF Cleanup, Inv
<1>10. CASE \E w \in Workers : Drain(w)
  BY <1>10, ReaderStutter DEF Drain
<1>11. CASE \E w \in Workers : Pop(w)
  BY <1>11, PopBegins
<1>12. CASE \E w \in Workers : Exit(w)
  <2> SUFFICES ASSUME NEW w \in Workers, Exit(w) PROVE UNCHANGED Mailboxes!vars
    BY <1>12
  <2>1. \A v \in Workers : workers'[v].frame = workers[v].frame /\ (Busy(v)' <=> Busy(v))
    BY WorkerMoves, FrameType DEF Exit, Inv, TypeOK, WorkerStates, Busy, HandlerStates
  <2>2. ASSUME NEW i PROVE InHands(i)' = InHands(i)
    <3>1. \A m : m \in InHands(i)' <=> m \in InHands(i)
      BY <2>1, InHand, InHandNext
    <3> QED
      BY <3>1
  <2>3. \A i : InQueues(i)' = InQueues(i)
    BY DEF Exit, InQueues
  <2>4. UNCHANGED <<Mailbox, Handling, Loose>>
    BY <2>2, <2>3 DEF Mailbox, Handling, Loose
  <2>5. UNCHANGED <<closeChan, Arrived, Incoming, Over>>
    BY DEF Exit, Arrived, Incoming, Over
  <2> QED
    BY <2>4, <2>5 DEF Mailboxes!vars
<1>13. CASE \E w \in Workers : Handler(w) \/ WaitReceives(w)
  BY <1>13, HandlerMoves
<1>14. CASE Application
  BY <1>14, ApplicationSteps, ReaderStutter DEF Inv
<1>15. CASE UNCHANGED vars
  BY <1>15, ReaderStutter DEF vars
<1> QED
  BY <1>1, <1>2, <1>3, <1>4, <1>5, <1>6, <1>7, <1>8, <1>9, <1>10, <1>11, <1>12, <1>13, <1>14, <1>15 DEF Next, ReadLoop

\* A new connection shows empty mailboxes.
LEMMA MailboxesInit == Init => Mailboxes!Init
<1> SUFFICES ASSUME Init PROVE Mailboxes!Init
  OBVIOUS
<1>1. \A w \in Workers : frameQueues[w] = {} /\ ~Busy(w)
  BY DEF Init, Busy, HandlerStates
<1>2. \A id : InQueues(id) = {} /\ InHands(id) = {}
  BY <1>1, InQueue, InHand
<1>3. Sorted({}) = <<>>
  BY SortedSeq, FS_EmptySet
<1>4. Mailbox = [id \in Ids |-> <<>>] /\ Handling = [id \in Ids |-> {}] /\ Loose = {}
  BY <1>2, <1>3 DEF Mailbox, Handling, Loose
<1>5. Arrived = 0 /\ Incoming = {} /\ Over = FALSE /\ closeChan = FALSE
  BY DEF Init, Arrived, Incoming, Over
<1> QED
  BY <1>4, <1>5 DEF Mailboxes!Init

\* Any number of workers with bounded priority queues, fed through the
\* partition, do for the streams what one mailbox per stream would do.
THEOREM ServeImplementsMailboxes == Spec => ImplementsMailboxes
<1>1. Inv /\ [Next]_vars => [Mailboxes!Next]_(Mailboxes!vars)
  BY MailboxesStep
<1> QED
  BY <1>1, MailboxesInit, Invariance, PTL DEF Spec, ImplementsMailboxes, Mailboxes!Spec
=============================================================================
