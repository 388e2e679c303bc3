--------------------------- MODULE ShutdownProofs ---------------------------
(***************************************************************************)
(* Proofs about Shutdown for any number of goroutines, any ids and any     *)
(* sequence of calls.                                                      *)
(***************************************************************************)
EXTENDS Shutdown, TLAPS

USE DEF busy, hangup

\* Where a goroutine that runs shutdown is, and Serve.
Stage == [at: {"none", "begin", "select", "forced", "forcedErr", "handOver", "close"},
          timed: BOOLEAN]
ReaderState == [at: {"read", "add", "close", "wait", "goAway", "cleanup", "done"},
                id: Ids \cup {0}, goAway: BOOLEAN]

\* The type invariant, by the parts that actions change.
CallsOK == pc \in [Threads -> Call] /\ calls \in Nat
TableOK ==
    /\ streams \subseteq Ids /\ nextStreamId \in Nat
    /\ nextIdLock \in Threads \cup {NoOne} /\ syns \in Seq(OwnIds)
AwayOK == received \in Nat /\ goneAway \in BOOLEAN /\ before \subseteq Ids
SettingsOK ==
    /\ closeTimeout \in BOOLEAN /\ goAwayTimeout \in BOOLEAN /\ lastStreamChan \in BOOLEAN
    /\ notice \in OwnIds \cup {0, NoNotice}
ServingOK ==
    /\ reader \in ReaderState /\ stuck \in BOOLEAN /\ unread \subseteq Ids
    /\ closeChan \in BOOLEAN /\ hungUp \in BOOLEAN /\ evicted \subseteq Ids
EndingOK ==
    /\ shutdown \in [Starters -> Stage] /\ hasShutdown \in BOOLEAN
    /\ watcher \in {"none", "running", "asleep", "done"}
    /\ conn \in BOOLEAN /\ shutdownChan \in BOOLEAN /\ cut \subseteq Ids

\* These are the parts.
LEMMA TypeParts ==
    /\ TypeOK <=> CallsOK /\ TableOK /\ AwayOK /\ SettingsOK /\ ServingOK /\ EndingOK
    /\ TypeOK' <=> (CallsOK /\ TableOK /\ AwayOK /\ SettingsOK /\ ServingOK /\ EndingOK)'
BY DEF TypeOK, CallsOK, TableOK, AwayOK, SettingsOK, ServingOK, EndingOK, Stage, ReaderState

\* What is left alone keeps its type.
LEMMA PartsStay ==
    ASSUME TypeOK
    PROVE  /\ UNCHANGED <<pc, calls>> => CallsOK'
           /\ UNCHANGED table => TableOK'
           /\ UNCHANGED away => AwayOK'
           /\ UNCHANGED settings => SettingsOK'
           /\ UNCHANGED serving => ServingOK'
           /\ UNCHANGED ending => EndingOK'
BY TypeParts DEF CallsOK, TableOK, AwayOK, SettingsOK, ServingOK, EndingOK,
   table, away, settings, serving, ending

\* The next id is one of ours, or past the last one, and larger than those
\* before it.  Who writes a SYN_STREAM holds nextIdLock.
IdInv ==
    /\ nextStreamId >= FirstId /\ (nextStreamId - FirstId) % 2 = 0
    /\ \A i \in 1 .. Len(syns) : syns[i] < nextStreamId
    /\ \A t \in Threads : pc[t].at = "write" =>
          /\ nextIdLock = t
          /\ pc[t].id \in OwnIds /\ pc[t].id < nextStreamId
          /\ \A i \in 1 .. Len(syns) : syns[i] < pc[t].id
    /\ IdsIncrease

\* The stream or frame Serve is at.
ReaderInv ==
    /\ reader.at = "add" => reader.id \in PeerIds
    /\ reader.at \in {"read", "add"} => ~reader.goAway
    /\ reader.at = "goAway" => reader.goAway
    /\ reader.goAway => reader.id \in OwnIds \cup {0}

\* Nothing is shut down before the connection has gone away.
AwayInv ==
    /\ \A t \in Threads : pc[t].at = "goAway" => goneAway
    /\ \A g \in Starters : shutdown[g].at # "none" => goneAway
    /\ watcher # "none" => goneAway /\ hasShutdown
    /\ ~goneAway => cut = {} /\ before = {}

\* A stream that is going to be added is not one of those in the table, nor of
\* those before the connection went away.
FreshInv ==
    /\ \A id \in streams \cup before :
          /\ id \in OwnIds => id < nextStreamId
          /\ id \in PeerIds => id < received
    /\ reader.at = "add" => reader.id < received /\ reader.id \notin streams \cup before

\* The stages of the shutdown.
EndInv ==
    /\ watcher = "done" => streams \cap before = {}
    /\ \A g \in Starters :
          /\ shutdown[g].at \in {"forced", "forcedErr", "handOver", "close"} => ~conn
          /\ shutdown[g].at \in {"handOver", "close"} => watcher = "done"
    /\ shutdownChan => watcher = "done" /\ ~conn
    /\ cut \cap before \subseteq evicted

\* The read loop of a connection that is still open was ended by the peer, and
\* only then the end of Serve evicts streams that it closes the network under.
HangUpInv ==
    /\ evicted # {} => reader.at = "done" /\ hungUp
    /\ conn /\ reader.at \notin {"read", "add"} => hungUp

\* A call moves one goroutine.
LEMMA CallMoves ==
    ASSUME TypeOK, NEW t \in Threads, NEW c, pc' = [pc EXCEPT ![t] = c]
    PROVE  /\ pc'[t] = c /\ \A u \in Threads : u # t => pc'[u] = pc[u]
           /\ c \in Call => pc' \in [Threads -> Call]
BY TypeParts DEF CallsOK

\* streamCond.Broadcast() moves those that sleep.
LEMMA AwakeMoves ==
    ASSUME NEW f \in [Threads -> Call]
    PROVE  /\ Awake(f) \in [Threads -> Call]
           /\ \A t \in Threads :
                 /\ Awake(f)[t].at # "asleep"
                 /\ f[t].at # "asleep" => Awake(f)[t] = f[t]
                 /\ Awake(f)[t].at = f[t].at \/ Awake(f)[t].at = "find"
<1>1. ASSUME NEW t \in Threads
      PROVE  /\ [f[t] EXCEPT !.at = "find"] \in Call
             /\ [f[t] EXCEPT !.at = "find"].at = "find"
  <2>1. f[t] \in Call
    OBVIOUS
  <2> QED
    BY <2>1 DEF Call
<1> QED
  BY <1>1 DEF Awake

\* The states a goroutine may get into.
LEMMA CallStates ==
    /\ Idle \in Call /\ Idle.at = "idle"
    /\ \A at \in {"goAway", "recv", "notify", "create", "asleep"}, timed \in BOOLEAN :
          /\ [Idle EXCEPT !.at = at] \in Call
          /\ [Idle EXCEPT !.at = at].at = at
          /\ [Idle EXCEPT !.at = at, !.timed = timed] \in Call
          /\ [Idle EXCEPT !.at = at, !.timed = timed].at = at
    /\ \A id \in FindIds :
          /\ [Idle EXCEPT !.at = "find", !.id = id] \in Call
          /\ [Idle EXCEPT !.at = "find", !.id = id].at = "find"
BY DEF Idle, Call

\* A goroutine moves within its call.
LEMMA CallStatesKept ==
    ASSUME NEW c \in Call
    PROVE  /\ [c EXCEPT !.at = "asleep"] \in Call
           /\ [c EXCEPT !.at = "asleep"].at = "asleep" /\ [c EXCEPT !.at = "asleep"].id = c.id
           /\ \A id \in OwnIds :
                 /\ [c EXCEPT !.at = "write", !.id = id] \in Call
                 /\ [c EXCEPT !.at = "write", !.id = id].at = "write"
                 /\ [c EXCEPT !.at = "write", !.id = id].id = id
BY DEF Call

\* A goroutine that runs shutdown moves on.
LEMMA StagesKept ==
    /\ NoShutdown \in Stage
    /\ \A timed \in BOOLEAN : [at |-> "begin", timed |-> timed] \in Stage
    /\ \A s \in Stage, at \in {"select", "handOver", "close"} : [s EXCEPT !.at = at] \in Stage
    /\ \A at \in {"forced", "forcedErr", "handOver", "close"} :
          [NoShutdown EXCEPT !.at = at] \in Stage /\ [NoShutdown EXCEPT !.at = at].at = at
BY DEF NoShutdown, Stage

\* So does Serve.
LEMMA ReaderKept ==
    ASSUME NEW r \in ReaderState
    PROVE  /\ \A at \in {"read", "add", "close", "wait", "goAway", "cleanup", "done"} :
                 [r EXCEPT !.at = at] \in ReaderState
           /\ \A id \in PeerIds : [r EXCEPT !.at = "add", !.id = id] \in ReaderState
           /\ [r EXCEPT !.at = "read", !.id = 0] \in ReaderState
BY DEF ReaderState, Ids

-----------------------------------------------------------------------------
(* Types                                                                   *)

\* A new connection.
LEMMA InitTyped == Init => TypeOK
<1> SUFFICES ASSUME Init PROVE TypeOK
  OBVIOUS
<1> USE ShutdownAssumption DEF Init
<1>1. CallsOK
  BY CallStates DEF CallsOK
<1>2. TableOK
  BY DEF TableOK, LastId
<1>3. AwayOK /\ SettingsOK
  <2>0. received \in Nat /\ goneAway = FALSE /\ before = {}
    OBVIOUS
  <2>1. AwayOK
    BY ONLY <2>0 DEF AwayOK
  <2>2. notice = NoNotice /\ closeTimeout = FALSE /\ goAwayTimeout = FALSE /\ lastStreamChan = FALSE
    OBVIOUS
  <2>3. SettingsOK
    BY ONLY <2>2 DEF SettingsOK
  <2> QED
    BY <2>1, <2>3
<1>4. ServingOK
  BY DEF ServingOK, ReaderState
<1>5. EndingOK
  BY StagesKept DEF EndingOK
<1> QED
  BY <1>1, <1>2, <1>3, <1>4, <1>5, TypeParts

\* The calls of the application begin.
LEMMA CallingTyped ==
    ASSUME TypeOK, NEW t \in Threads, Calling(t)
    PROVE  TypeOK'
<1> USE TypeParts DEF CallsOK
<1>1. ASSUME NEW name, NEW c \in Call, Start(t, name, c) PROVE CallsOK'
  BY <1>1, CallMoves DEF Start
<1>2. CASE CreateCall(t)
  BY <1>1, <1>2, CallStates, PartsStay DEF CreateCall
<1>3. ASSUME NEW id \in FindIds, FindCall(t, id) PROVE TypeOK'
  BY <1>1, <1>3, CallStates, PartsStay DEF FindCall
<1>4. ASSUME NEW flag \in BOOLEAN, CloseBegin(t, flag) PROVE TypeOK'
  <2> DEFINE c == IF ~goneAway THEN [Idle EXCEPT !.at = "goAway", !.timed = flag]
                  ELSE IF flag THEN [Idle EXCEPT !.at = "recv"] ELSE Idle
  <2>1. c \in Call
    BY CallStates
  <2>2. CallsOK'
    <3> HIDE DEF c
    <3>1. Start(t, IF flag THEN "CloseWait" ELSE "Close", c)
      BY <1>4 DEF CloseBegin, c
    <3> QED
      BY <1>1, <2>1, <3>1
  <2>3. AwayOK'
    BY <1>4 DEF CloseBegin, AwayOK, TableOK
  <2> QED
    BY <1>4, <2>2, <2>3, PartsStay DEF CloseBegin
<1>5. ASSUME NEW flag \in BOOLEAN, WaitCall(t, flag) PROVE TypeOK'
  BY <1>1, <1>5, CallStates, PartsStay DEF WaitCall
<1>6. ASSUME NEW flag \in BOOLEAN, NotifyTimeout(t, flag) PROVE TypeOK'
  <2>1. CallsOK'
    BY <1>1, <1>6, CallStates DEF NotifyTimeout
  <2>2. SettingsOK'
    BY <1>6 DEF NotifyTimeout, SettingsOK
  <2> QED
    BY <1>6, <2>1, <2>2, PartsStay DEF NotifyTimeout
<1>7. ASSUME NEW flag \in BOOLEAN, SetCloseTimeout(t, flag) PROVE TypeOK'
  <2>1. CallsOK'
    BY <1>1, <1>7, CallStates DEF SetCloseTimeout
  <2>2. SettingsOK'
    BY <1>7 DEF SetCloseTimeout, SettingsOK
  <2> QED
    BY <1>7, <2>1, <2>2, PartsStay DEF SetCloseTimeout
<1> QED
  BY <1>2, <1>3, <1>4, <1>5, <1>6, <1>7 DEF Calling

\* The id that is handed out is one of ours.
LEMMA StreamAdded ==
    ASSUME TypeOK, NEW id \in Ids, NEW f \in [Threads -> Call], AddStream(id, f)
    PROVE  /\ pc' = Awake(f) /\ pc' \in [Threads -> Call]
           /\ streams' = streams \cup {id} /\ streams' \subseteq Ids
           /\ watcher' = IF watcher = "asleep" THEN "running" ELSE watcher
BY TypeParts, AwakeMoves DEF AddStream, WakeWatcher, TableOK

\* The next id, while there is one.
LEMMA NextIdOurs ==
    ASSUME TypeOK, IdInv, ~NoIdLeft
    PROVE  nextStreamId \in OwnIds /\ nextStreamId \in Ids
BY TypeParts, ShutdownAssumption DEF TableOK, IdInv, NoIdLeft, OwnIds, Ids

\* Streams leave the table.
LEMMA StreamsRemoved ==
    ASSUME TypeOK, NEW ids, RemoveStreams(ids)
    PROVE  /\ pc' = Awake(pc) /\ pc' \in [Threads -> Call]
           /\ streams' = streams \ ids /\ streams' \subseteq Ids
           /\ watcher' = IF watcher = "asleep" THEN "running" ELSE watcher
BY TypeParts, AwakeMoves DEF RemoveStreams, WakeWatcher, TableOK, CallsOK

\* The goroutines of the application go on.
LEMMA ThreadTyped ==
    ASSUME TypeOK, IdInv, NEW t \in Threads, Thread(t)
    PROVE  TypeOK'
<1> USE TypeParts DEF CallsOK
<1>0. pc[t] \in Call
  OBVIOUS
<1>1. CASE CreateRefused(t)
  BY <1>1, CallMoves, CallStates, PartsStay DEF CreateRefused, Return
<1>2. CASE Create(t)
  <2> DEFINE c == [pc[t] EXCEPT !.at = "write", !.id = nextStreamId]
             f == [pc EXCEPT ![t] = c]
  <2>1. nextStreamId \in OwnIds /\ nextStreamId \in Ids
    BY <1>2, NextIdOurs DEF Create
  <2>2. f \in [Threads -> Call] /\ AddStream(nextStreamId, f)
    BY <1>0, <1>2, <2>1, CallStatesKept DEF Create
  <2> HIDE DEF f
  <2>3. pc' \in [Threads -> Call] /\ streams' \subseteq Ids
        /\ watcher' \in {"none", "running", "asleep", "done"}
    BY <2>1, <2>2, StreamAdded DEF EndingOK
  <2>4. CallsOK' /\ TableOK'
    BY <1>2, <2>3 DEF Create, TableOK
  <2>5. EndingOK'
    BY <1>2, <2>3 DEF Create, EndingOK
  <2> QED
    BY <1>2, <2>4, <2>5, PartsStay DEF Create
<1>3. CASE CreateWrite(t)
  <2>1. pc[t].id \in OwnIds
    BY <1>3 DEF CreateWrite, IdInv
  <2>2. syns' \in Seq(OwnIds)
    BY <1>3, <2>1 DEF CreateWrite, TableOK
  <2>3. TableOK'
    BY <1>3, <2>2 DEF CreateWrite, TableOK
  <2> QED
    BY <1>3, <2>3, CallMoves, CallStates, PartsStay DEF CreateWrite, Return
<1>4. CASE Find(t)
  BY <1>0, <1>4, CallMoves, CallStates, CallStatesKept, PartsStay DEF Find, Return, Goto
<1>5. CASE CloseWrite(t)
  <2>1. CallsOK'
    BY <1>5, CallMoves, CallStates DEF CloseWrite, AfterGoAway
  <2>2. EndingOK'
    BY <1>5, StagesKept DEF CloseWrite, StartShutdown, EndingOK, SettingsOK, Starters
  <2> QED
    BY <1>5, <2>1, <2>2, PartsStay DEF CloseWrite
<1>6. CASE RecvClosed(t)
  BY <1>6, CallMoves, CallStates, PartsStay DEF RecvClosed, Return
<1>7. CASE WaitExpires(t)
  BY <1>7, CallMoves, CallStates, PartsStay DEF WaitExpires, Return
<1>8. CASE NotifyChan(t)
  <2>1. CallsOK'
    BY <1>8, CallMoves, CallStates DEF NotifyChan, Return
  <2>2. SettingsOK'
    BY <1>8 DEF NotifyChan, SettingsOK
  <2> QED
    BY <1>8, <2>1, <2>2, PartsStay DEF NotifyChan
<1> QED
  BY <1>1, <1>2, <1>3, <1>4, <1>5, <1>6, <1>7, <1>8 DEF Thread

\* The peer.
LEMMA PeerTyped ==
    ASSUME TypeOK, Peer
    PROVE  TypeOK'
<1> USE TypeParts
<1>1. ASSUME NEW id \in PeerIds, ReadSyn(id) PROVE TypeOK'
  <2>1. AwayOK'
    BY <1>1, ShutdownAssumption DEF ReadSyn, AwayOK
  <2>2. ServingOK'
    BY <1>1, ReaderKept DEF ReadSyn, ServingOK
  <2> QED
    BY <1>1, <2>1, <2>2, PartsStay DEF ReadSyn
<1>2. ASSUME NEW id \in ToSet(syns) \cup {0}, ReadGoAway(id) PROVE TypeOK'
  <2>1. id \in Ids \cup {0}
    BY DEF TableOK, ToSet, Ids
  <2>2. ServingOK'
    BY <1>2, <2>1 DEF ReadGoAway, ServingOK, ReaderState
  <2> QED
    BY <1>2, <2>2, PartsStay DEF ReadGoAway
<1>3. CASE ReadError
  <2>1. ServingOK'
    BY <1>3, ReaderKept DEF ReadError, ServingOK, ReaderGoto
  <2>2. EndingOK'
    BY <1>3 DEF ReadError, EndingOK
  <2> QED
    BY <1>3, <2>1, <2>2, PartsStay DEF ReadError
<1>4. ASSUME NEW id \in Ids, ReadData(id) PROVE TypeOK'
  <2>1. ServingOK'
    BY <1>4 DEF ReadData, ServingOK
  <2> QED
    BY <1>4, <2>1, PartsStay DEF ReadData
<1> QED
  BY <1>1, <1>2, <1>3, <1>4 DEF Peer

\* The table when streams have left it.
LEMMA RemovedTyped ==
    ASSUME TypeOK, NEW ids, RemoveStreams(ids),
           UNCHANGED <<calls, nextStreamId, nextIdLock, syns, shutdown, hasShutdown, conn,
                       shutdownChan, cut>>
    PROVE  CallsOK' /\ TableOK' /\ EndingOK'
<1>1. pc' \in [Threads -> Call] /\ streams' \subseteq Ids
      /\ watcher' = IF watcher = "asleep" THEN "running" ELSE watcher
  BY StreamsRemoved
<1> QED
  BY <1>1, TypeParts DEF CallsOK, TableOK, EndingOK

\* Serve and the streams that end.
LEMMA ServeTyped ==
    ASSUME TypeOK, ReaderInv,
           \/ Serve
           \/ \E id \in Ids : StreamEnds(id) \/ WorkerSticks(id) \/ DataHandled(id)
           \/ WorkerFreed
    PROVE  TypeOK'
<1> USE TypeParts
<1>0. reader \in ReaderState
  BY DEF ServingOK
<1>1. CASE AddPeerStream
  <2>1. reader.id \in Ids /\ AddStream(reader.id, pc)
    BY <1>1 DEF AddPeerStream, ReaderInv, Ids
  <2>2. pc' \in [Threads -> Call] /\ streams' \subseteq Ids
        /\ watcher' \in {"none", "running", "asleep", "done"}
    BY <2>1, StreamAdded DEF CallsOK, EndingOK
  <2>3. CallsOK' /\ TableOK' /\ EndingOK'
    BY <1>1, <2>2 DEF AddPeerStream, CallsOK, TableOK, EndingOK
  <2> QED
    BY <1>0, <1>1, <2>3, ReaderKept, PartsStay DEF AddPeerStream, ServingOK
<1>2. CASE ReadClosed
  BY <1>0, <1>2, ReaderKept, PartsStay DEF ReadClosed, ServingOK, ReaderGoto
<1>3. CASE CloseChan
  <2>1. ServingOK'
    BY <1>0, <1>3, ReaderKept DEF CloseChan, ServingOK, ReaderGoto
  <2> QED
    BY <1>3, <2>1, PartsStay DEF CloseChan
<1>4. CASE AwaitWorkers
  <2>1. ServingOK'
    BY <1>0, <1>4, ReaderKept DEF AwaitWorkers, ServingOK, ReaderGoto
  <2> QED
    BY <1>4, <2>1, PartsStay DEF AwaitWorkers
<1>5. CASE HandleGoAway
  <2>1. AwayOK'
    BY <1>5 DEF HandleGoAway, AwayOK, TableOK
  <2>2. SettingsOK'
    BY <1>5 DEF HandleGoAway, SettingsOK, ReaderInv
  <2>3. ServingOK'
    BY <1>5 DEF HandleGoAway, ServingOK, ReaderState
  <2>4. EndingOK'
    BY <1>5, StagesKept DEF HandleGoAway, StartShutdown, EndingOK, SettingsOK, Starters
  <2> QED
    BY <1>5, <2>1, <2>2, <2>3, <2>4, PartsStay DEF HandleGoAway
<1>6. CASE Cleanup
  <2>1. CallsOK' /\ TableOK' /\ EndingOK'
    BY <1>6, RemovedTyped DEF Cleanup
  <2>2. ServingOK'
    BY <1>0, <1>6, ReaderKept DEF Cleanup, ServingOK, TableOK, ReaderGoto
  <2> QED
    BY <1>6, <2>1, <2>2, PartsStay DEF Cleanup
<1>7. ASSUME NEW id \in Ids, StreamEnds(id) PROVE TypeOK'
  <2>1. CallsOK' /\ TableOK' /\ EndingOK'
    BY <1>7, RemovedTyped DEF StreamEnds
  <2> QED
    BY <1>7, <2>1, PartsStay DEF StreamEnds
<1>8. ASSUME NEW id \in Ids, WorkerSticks(id) PROVE TypeOK'
  <2>1. CallsOK' /\ TableOK' /\ EndingOK'
    BY <1>8, RemovedTyped DEF WorkerSticks
  <2>2. ServingOK'
    BY <1>8 DEF WorkerSticks, ServingOK
  <2> QED
    BY <1>8, <2>1, <2>2, PartsStay DEF WorkerSticks
<1>9. CASE WorkerFreed
  <2>1. ServingOK'
    BY <1>9 DEF WorkerFreed, ServingOK
  <2> QED
    BY <1>9, <2>1, PartsStay DEF WorkerFreed
<1>10. ASSUME NEW id \in Ids, DataHandled(id) PROVE TypeOK'
  <2>1. ServingOK'
    BY <1>10 DEF DataHandled, ServingOK
  <2> QED
    BY <1>10, <2>1, PartsStay DEF DataHandled
<1> QED
  BY <1>1, <1>2, <1>3, <1>4, <1>5, <1>6, <1>7, <1>8, <1>9, <1>10 DEF Serve

\* shutdown and the goroutine that waits for an empty table.
LEMMA EndingTyped ==
    ASSUME TypeOK, Watch \/ \E g \in Starters : Ending(g)
    PROVE  TypeOK'
<1> USE TypeParts
<1>1. CASE Watch
  <2>1. EndingOK'
    BY <1>1 DEF Watch, EndingOK
  <2> QED
    BY <1>1, <2>1, PartsStay DEF Watch
<1>2. ASSUME NEW g \in Starters, Ending(g) PROVE TypeOK'
  <2>0. shutdown[g] \in Stage
    BY DEF EndingOK
  <2>1. CASE ShutdownBegin(g)
    <3>1. EndingOK'
      BY <2>0, <2>1, StagesKept DEF ShutdownBegin, EndingOK
    <3> QED
      BY <2>1, <3>1, PartsStay DEF ShutdownBegin
  <2>2. CASE ShutdownClose(g)
    <3>1. EndingOK'
      BY <2>2, StagesKept DEF ShutdownClose, CloseConn, EndingOK, TableOK, ServingOK
    <3> QED
      BY <2>2, <3>1, PartsStay DEF ShutdownClose
  <2>3. CASE ShutdownForce(g)
    <3>1. EndingOK'
      BY <2>3, StagesKept DEF ShutdownForce, CloseConn, EndingOK
    <3> QED
      BY <2>3, <3>1, PartsStay DEF ShutdownForce
  <2>4. CASE ShutdownForced(g)
    <3>1. EndingOK'
      BY <2>0, <2>4, StagesKept DEF ShutdownForced, ShutdownGoto, EndingOK
    <3> QED
      BY <2>4, <3>1, PartsStay DEF ShutdownForced
  <2>5. ASSUME NEW t \in Threads, HandOver(g, t) PROVE TypeOK'
    <3>1. EndingOK'
      BY <2>0, <2>5, StagesKept DEF HandOver, ShutdownGoto, EndingOK
    <3>2. CallsOK'
      BY <2>5, CallMoves, CallStates DEF HandOver, Return, CallsOK
    <3> QED
      BY <2>5, <3>1, <3>2, PartsStay DEF HandOver
  <2>6. CASE HandOverExpires(g)
    <3>1. EndingOK'
      BY <2>0, <2>6, StagesKept DEF HandOverExpires, ShutdownGoto, EndingOK
    <3> QED
      BY <2>6, <3>1, PartsStay DEF HandOverExpires
  <2>7. CASE CloseShutdownChan(g)
    <3>1. EndingOK'
      BY <2>7, StagesKept DEF CloseShutdownChan, EndingOK
    <3> QED
      BY <2>7, <3>1, PartsStay DEF CloseShutdownChan
  <2> QED
    BY <1>2, <2>1, <2>2, <2>3, <2>4, <2>5, <2>6, <2>7 DEF Ending
<1> QED
  BY <1>1, <1>2

-----------------------------------------------------------------------------
(* What a step may change                                                  *)

\* A goroutine gets into "write", "asleep" and "goAway" by one action each.
LEMMA CallSteps ==
    ASSUME TypeOK, ShutdownNext, NEW u \in Threads, pc'[u].at \in {"write", "asleep", "goAway"}
    PROVE  \/ pc'[u] = pc[u]
           \/ pc'[u].at = "write" /\ Create(u)
           \/ pc'[u].at = "asleep" /\ Find(u)
           \/ pc'[u].at = "goAway" /\ \E flag \in BOOLEAN : CloseBegin(u, flag)
<1> USE TypeParts DEF CallsOK
<1>1. ASSUME NEW t \in Threads, Calling(t), ~\E flag \in BOOLEAN : CloseBegin(u, flag)
      PROVE  pc'[u] = pc[u]
  <2>1. ASSUME NEW flag \in BOOLEAN, CloseBegin(t, flag) PROVE pc'[u] = pc[u]
    BY <1>1, <2>1 DEF CloseBegin, Start
  <2>2. ASSUME NEW flag \in BOOLEAN, WaitCall(t, flag) \/ NotifyTimeout(t, flag) \/ SetCloseTimeout(t, flag)
        PROVE  pc'[u] = pc[u]
    BY <2>2, CallStates DEF WaitCall, NotifyTimeout, SetCloseTimeout, Start
  <2>3. ASSUME NEW id \in FindIds, FindCall(t, id) PROVE pc'[u] = pc[u]
    BY <2>3, CallStates DEF FindCall, Start
  <2>4. CASE CreateCall(t)
    BY <2>4, CallStates DEF CreateCall, Start
  <2> QED
    BY <1>1, <2>1, <2>2, <2>3, <2>4 DEF Calling
<1>2. ASSUME NEW t \in Threads, Thread(t), ~Create(u), ~Find(u)
      PROVE  pc'[u] = pc[u]
  <2>1. CASE Create(t)
    <3> DEFINE f == [pc EXCEPT ![t] = [pc[t] EXCEPT !.at = "write", !.id = nextStreamId]]
    <3>1. pc' = Awake(f) /\ u # t
      BY <1>2, <2>1 DEF Create, AddStream
    <3>2. pc'[u] = IF pc[u].at = "asleep" THEN [pc[u] EXCEPT !.at = "find"] ELSE pc[u]
      BY <3>1 DEF Awake
    <3>3. pc' = Awake(f) /\ Awake(pc)[u] = pc'[u]
      BY <3>1, <3>2 DEF Awake
    <3>4. pc'[u].at = pc[u].at
      BY <3>3, AwakeMoves
    <3> QED
      BY <3>3, <3>4, AwakeMoves
  <2>2. CASE Find(t)
    <3>1. u # t
      BY <1>2, <2>2
    <3> QED
      BY <2>2, <3>1 DEF Find, Return, Goto
  <2>3. CASE CreateRefused(t) \/ CreateWrite(t) \/ RecvClosed(t) \/ WaitExpires(t) \/ NotifyChan(t)
    BY <2>3, CallStates DEF CreateRefused, CreateWrite, RecvClosed, WaitExpires, NotifyChan, Return
  <2>4. CASE CloseWrite(t)
    BY <2>4, CallStates DEF CloseWrite, AfterGoAway
  <2> QED
    BY <1>2, <2>1, <2>2, <2>3, <2>4 DEF Thread
<1>3. CASE pc' = Awake(pc)
  BY <1>3, AwakeMoves
<1>4. CASE Serve
  BY <1>3, <1>4 DEF Serve, AddPeerStream, AddStream, ReadClosed, CloseChan, AwaitWorkers, HandleGoAway,
     Cleanup, RemoveStreams
<1>5. CASE \/ Peer \/ Watch \/ WorkerFreed
           \/ \E id \in Ids : StreamEnds(id) \/ WorkerSticks(id) \/ DataHandled(id)
  BY <1>3, <1>5 DEF Peer, ReadSyn, ReadData, ReadGoAway, ReadError, Watch, WorkerFreed, StreamEnds,
     WorkerSticks, DataHandled, RemoveStreams
<1>6. ASSUME NEW g \in Starters, Ending(g) PROVE pc'[u] = pc[u]
  <2>1. ASSUME NEW t \in Threads, HandOver(g, t) PROVE pc'[u] = pc[u]
    BY <2>1, CallStates DEF HandOver, Return
  <2> QED
    BY <1>6, <2>1 DEF Ending, ShutdownBegin, ShutdownClose, ShutdownForce, ShutdownForced,
       HandOverExpires, CloseShutdownChan
<1>7. Create(u) => pc'[u].at = "write"
  <2> DEFINE f == [pc EXCEPT ![u] = [pc[u] EXCEPT !.at = "write", !.id = nextStreamId]]
  <2> SUFFICES ASSUME Create(u) PROVE pc'[u].at = "write"
    OBVIOUS
  <2>1. pc' = Awake(f) /\ f[u].at = "write"
    BY DEF Create, AddStream, Call
  <2> HIDE DEF f
  <2> QED
    BY <2>1 DEF Awake
<1>8. Find(u) => pc'[u].at = "asleep"
  <2> SUFFICES ASSUME Find(u) PROVE pc'[u].at = "asleep"
    OBVIOUS
  <2>1. pc'[u] = [pc[u] EXCEPT !.at = "asleep"] \/ pc'[u] = Idle
    BY DEF Find, Return, Goto
  <2>2. pc[u] \in Call
    OBVIOUS
  <2> QED
    BY <2>1, <2>2, CallStates, CallStatesKept
<1>9. ASSUME NEW flag \in BOOLEAN, CloseBegin(u, flag) PROVE pc'[u].at = "goAway"
  BY <1>9, CallStates DEF CloseBegin, Start
<1> QED
  BY <1>1, <1>2, <1>4, <1>5, <1>6, <1>7, <1>8, <1>9 DEF ShutdownNext

\* CreateStream wakes everyone, and is about to write.
LEMMA CreateWakes ==
    ASSUME TypeOK, NEW t \in Threads, Create(t)
    PROVE  /\ pc'[t].at = "write" /\ pc'[t].id = nextStreamId
           /\ \A u \in Threads : pc'[u].at # "asleep"
           /\ watcher' # "asleep"
<1> DEFINE f == [pc EXCEPT ![t] = [pc[t] EXCEPT !.at = "write", !.id = nextStreamId]]
<1>1. pc' = Awake(f) /\ WakeWatcher
  BY DEF Create, AddStream
<1>2. [pc[t] EXCEPT !.at = "write", !.id = nextStreamId] = f[t]
  BY TypeParts DEF CallsOK
<1>3. pc[t] \in Call
  BY TypeParts DEF CallsOK
<1>4. f[t].at = "write" /\ f[t].id = nextStreamId
  BY <1>2, <1>3 DEF Call
<1>5. \A u \in Threads \ {t} : f[u] = pc[u] /\ pc[u] \in Call
  BY TypeParts DEF CallsOK
<1> HIDE DEF f
<1>6. pc'[t].at = "write" /\ pc'[t].id = nextStreamId
  BY <1>1, <1>4 DEF Awake
<1>7. \A u \in Threads \ {t} : pc'[u].at # "asleep"
  <2> SUFFICES ASSUME NEW u \in Threads \ {t} PROVE pc'[u].at # "asleep"
    OBVIOUS
  <2>1. pc'[u] = IF pc[u].at = "asleep" THEN [pc[u] EXCEPT !.at = "find"] ELSE pc[u]
    BY <1>1, <1>5 DEF Awake
  <2>2. [pc[u] EXCEPT !.at = "find"].at = "find"
    BY <1>5 DEF Call
  <2> QED
    BY <2>1, <2>2
<1>8. watcher' # "asleep"
  BY <1>1 DEF WakeWatcher
<1> QED
  BY <1>6, <1>7, <1>8

\* Who writes the variables of the stream table, and how.
LEMMA Frames ==
    ASSUME TypeOK, ShutdownNext
    PROVE  /\ UNCHANGED <<nextStreamId, nextIdLock, syns>> \/ \E t \in Threads : Create(t) \/ CreateWrite(t)
           /\ \/ streams' \subseteq streams
              \/ \E t \in Threads : Create(t)
              \/ AddPeerStream
           /\ \/ UNCHANGED streams
              \/ watcher' # "asleep" /\ \A t \in Threads : pc'[t].at # "asleep"
           /\ UNCHANGED received \/ \E id \in PeerIds : ReadSyn(id)
           /\ UNCHANGED reader \/ reader.at # "add" \/ AddPeerStream
           /\ watcher' = "asleep" => watcher = "asleep" \/ Watch
<1> DEFINE Goal ==
       /\ UNCHANGED <<nextStreamId, nextIdLock, syns>> \/ \E t \in Threads : Create(t) \/ CreateWrite(t)
       /\ \/ streams' \subseteq streams
          \/ \E t \in Threads : Create(t)
          \/ AddPeerStream
       /\ \/ UNCHANGED streams
          \/ watcher' # "asleep" /\ \A t \in Threads : pc'[t].at # "asleep"
       /\ UNCHANGED received \/ \E id \in PeerIds : ReadSyn(id)
       /\ UNCHANGED reader \/ reader.at # "add" \/ AddPeerStream
       /\ watcher' = "asleep" => watcher = "asleep" \/ Watch
<1> USE TypeParts DEF table, away, settings, serving, ending
<1>1. ASSUME NEW t \in Threads, Calling(t) PROVE Goal
  BY <1>1 DEF Calling, CreateCall, FindCall, CloseBegin, WaitCall, NotifyTimeout, SetCloseTimeout
<1>2. ASSUME NEW t \in Threads, Thread(t) PROVE Goal
  <2>1. CASE Create(t)
    <3>1. UNCHANGED <<received, reader>>
      BY <2>1 DEF Create
    <3> QED
      BY <2>1, <3>1, CreateWakes
  <2>2. CASE CreateWrite(t)
    BY <2>2 DEF CreateWrite
  <2>3. CASE ~Create(t) /\ ~CreateWrite(t)
    BY <1>2, <2>3 DEF Thread, CreateRefused, Find, CloseWrite, RecvClosed, WaitExpires, NotifyChan
  <2> QED
    BY <2>1, <2>2, <2>3
<1>3. ASSUME NEW ids, RemoveStreams(ids), UNCHANGED <<nextStreamId, nextIdLock, syns, received>>,
             UNCHANGED reader \/ reader.at # "add"
      PROVE  Goal
  BY <1>3, StreamsRemoved, AwakeMoves DEF CallsOK
<1>4. CASE Serve
  <2>1. CASE AddPeerStream
    <3>1. watcher' # "asleep" /\ (\A u \in Threads : pc'[u].at # "asleep")
      BY <2>1, AwakeMoves DEF AddPeerStream, AddStream, WakeWatcher, CallsOK
    <3> QED
      BY <2>1, <3>1 DEF AddPeerStream
  <2>2. CASE Cleanup
    BY <1>3, <2>2 DEF Cleanup
  <2>3. CASE ReadClosed \/ CloseChan \/ AwaitWorkers \/ HandleGoAway
    BY <2>3 DEF ReadClosed, CloseChan, AwaitWorkers, HandleGoAway
  <2> QED
    BY <1>4, <2>1, <2>2, <2>3 DEF Serve
<1>5. ASSUME NEW id \in Ids, StreamEnds(id) \/ WorkerSticks(id) PROVE Goal
  BY <1>3, <1>5 DEF StreamEnds, WorkerSticks
<1>6. CASE Peer \/ WorkerFreed
  BY <1>6 DEF Peer, ReadSyn, ReadData, ReadGoAway, ReadError, WorkerFreed
<1>7. CASE Watch
  BY <1>7 DEF Watch
<1>8. ASSUME NEW g \in Starters, Ending(g) PROVE Goal
  BY <1>8 DEF Ending, ShutdownBegin, ShutdownClose, ShutdownForce, ShutdownForced,
     HandOver, HandOverExpires, CloseShutdownChan
<1>9. ASSUME NEW id \in Ids, DataHandled(id) PROVE Goal
  BY <1>9 DEF DataHandled
<1>10. Goal
  BY <1>1, <1>2, <1>4, <1>5, <1>6, <1>7, <1>8, <1>9 DEF ShutdownNext
<1> QED
  BY <1>10

\* The goroutine of Serve is one: its steps and those of the peer, which it reads.
LEMMA ReaderSteps ==
    ASSUME ShutdownNext
    PROVE  UNCHANGED <<reader, hangup>> \/ Peer \/ Serve
<1> USE DEF serving
<1>1. ASSUME NEW t \in Threads, Calling(t) PROVE UNCHANGED <<reader, hangup>>
  BY <1>1 DEF Calling, CreateCall, FindCall, CloseBegin, WaitCall, NotifyTimeout, SetCloseTimeout
<1>2. ASSUME NEW t \in Threads, Thread(t) PROVE UNCHANGED <<reader, hangup>>
  BY <1>2 DEF Thread, CreateRefused, Create, CreateWrite, Find, CloseWrite, RecvClosed, WaitExpires,
     NotifyChan
<1>3. ASSUME NEW g \in Starters, Ending(g) PROVE UNCHANGED <<reader, hangup>>
  BY <1>3 DEF Ending, ShutdownBegin, ShutdownClose, ShutdownForce, ShutdownForced,
     HandOver, HandOverExpires, CloseShutdownChan
<1>4. Watch \/ WorkerFreed \/ (\E id \in Ids : StreamEnds(id) \/ WorkerSticks(id) \/ DataHandled(id))
      => UNCHANGED <<reader, hangup>>
  BY DEF Watch, WorkerFreed, StreamEnds, WorkerSticks, DataHandled
<1> QED
  BY <1>1, <1>2, <1>3, <1>4 DEF ShutdownNext

-----------------------------------------------------------------------------
(* Invariants                                                              *)

\* Serve holds a stream of the peer, or a stream of ours named in a GOAWAY.
LEMMA ReaderKeeps ==
    ASSUME TypeOK, ReaderInv, ShutdownNext
    PROVE  ReaderInv'
<1> USE TypeParts DEF ReaderInv, table, away, settings, serving, ending
<1>0. reader \in ReaderState
  BY DEF ServingOK
<1>1. CASE UNCHANGED reader
  BY <1>1
<1>2. CASE Peer
  <2>1. ASSUME NEW id \in PeerIds, ReadSyn(id) PROVE ReaderInv'
    BY <1>0, <2>1 DEF ReadSyn, ReaderState
  <2>2. ASSUME NEW id \in ToSet(syns) \cup {0}, ReadGoAway(id) PROVE ReaderInv'
    <3>1. id \in OwnIds \cup {0}
      BY DEF TableOK, ToSet
    <3> QED
      BY <2>2, <3>1 DEF ReadGoAway
  <2>3. CASE ReadError
    BY <1>0, <2>3 DEF ReadError, ReaderGoto, ReaderState
  <2>4. ASSUME NEW id, ReadData(id) PROVE ReaderInv'
    BY <2>4 DEF ReadData
  <2> QED
    BY <1>2, <2>1, <2>2, <2>3, <2>4 DEF Peer
<1>3. CASE Serve
  <2>1. CASE AddPeerStream
    BY <1>0, <2>1 DEF AddPeerStream, ReaderState
  <2>2. CASE ReadClosed \/ CloseChan \/ Cleanup
    BY <1>0, <2>2 DEF ReadClosed, CloseChan, Cleanup, ReaderGoto, ReaderState
  <2>3. CASE AwaitWorkers
    BY <1>0, <2>3 DEF AwaitWorkers, ReaderGoto, ReaderState
  <2>4. CASE HandleGoAway
    BY <2>4 DEF HandleGoAway
  <2> QED
    BY <1>3, <2>1, <2>2, <2>3, <2>4 DEF Serve
<1> QED
  BY <1>1, <1>2, <1>3, ReaderSteps

\* nextIdLock covers the id and the write of its frame.
LEMMA IdsKeep ==
    ASSUME TypeOK, IdInv, ShutdownNext
    PROVE  IdInv'
<1> USE TypeParts, ShutdownAssumption
<1>0. /\ nextStreamId \in Nat /\ syns \in Seq(OwnIds) /\ OwnIds \subseteq Nat
      /\ FirstId \in Nat /\ pc \in [Threads -> Call]
  BY DEF TableOK, CallsOK, OwnIds
<1>1. ASSUME NEW t \in Threads, Create(t) PROVE IdInv'
  <2>1. /\ nextIdLock = NoOne /\ nextIdLock' = t /\ nextStreamId' = nextStreamId + 2
        /\ syns' = syns /\ nextStreamId \in OwnIds
    BY <1>1, NextIdOurs DEF Create
  <2>2. \A u \in Threads : pc[u].at # "write"
    BY <2>1 DEF IdInv
  <2>3. \A u \in Threads : pc'[u].at = "write" => u = t
    <3>1. ASSUME NEW u \in Threads, pc'[u].at = "write", u # t PROVE FALSE
      <4>1. pc'[u] = pc[u] \/ Create(u)
        BY <3>1, CallSteps
      <4>2. ~Create(u)
        BY <2>1, <3>1 DEF Create
      <4> QED
        BY <2>2, <3>1, <4>1, <4>2
    <3> QED
      BY <3>1
  <2>4. pc'[t].id = nextStreamId
    BY <1>1, CreateWakes
  <2>5. nextStreamId' >= FirstId /\ (nextStreamId' - FirstId) % 2 = 0
    BY <1>0, <2>1 DEF IdInv
  <2>6. \A i \in 1 .. Len(syns) : syns[i] < nextStreamId /\ syns[i] < nextStreamId'
    <3>1. \A i \in 1 .. Len(syns) : syns[i] < nextStreamId
      BY DEF IdInv
    <3>2. \A i \in 1 .. Len(syns) : syns[i] \in Nat
      <4>1. \A i \in 1 .. Len(syns) : syns[i] \in OwnIds
        BY <1>0
      <4> QED
        BY ONLY <1>0, <4>1
    <3> QED
      BY ONLY <1>0, <2>1, <3>1, <3>2
  <2>7. IdsIncrease'
    BY <2>1 DEF IdInv, IdsIncrease
  <2> QED
    BY <1>0, <2>1, <2>3, <2>4, <2>5, <2>6, <2>7 DEF IdInv
<1>2. ASSUME NEW t \in Threads, CreateWrite(t) PROVE IdInv'
  <2> DEFINE id == pc[t].id
  <2>1. /\ nextIdLock = t /\ id \in OwnIds /\ id < nextStreamId
        /\ \A i \in 1 .. Len(syns) : syns[i] < id
    BY <1>2 DEF CreateWrite, IdInv
  <2>2. /\ UNCHANGED nextStreamId
        /\ syns' = syns \/ syns' = Append(syns, id)
        /\ pc'[t] = Idle
    BY <1>0, <1>2 DEF CreateWrite, Return
  <2>3. \A u \in Threads : pc'[u].at # "write"
    <3>1. ASSUME NEW u \in Threads, u # t PROVE pc'[u] = pc[u] /\ pc[u].at # "write"
      BY <1>0, <1>2, <2>1, <3>1 DEF CreateWrite, Return, IdInv
    <3>2. pc'[t].at = "idle"
      BY <2>2, CallStates
    <3> QED
      BY <3>1, <3>2
  <2>4. (\A i \in 1 .. Len(syns') : syns'[i] < nextStreamId) /\ IdsIncrease'
    <3>1. CASE syns' = syns
      BY <3>1 DEF IdInv, IdsIncrease
    <3>2. CASE syns' = Append(syns, id)
      <4>1. /\ Len(syns') = Len(syns) + 1 /\ syns'[Len(syns) + 1] = id
            /\ \A i \in 1 .. Len(syns) : syns'[i] = syns[i]
        BY <1>0, <2>1, <3>2
      <4>2. \A i \in 1 .. Len(syns') : i \in 1 .. Len(syns) \/ i = Len(syns) + 1
        BY <1>0, <4>1
      <4>3. \A i \in 1 .. Len(syns') : syns'[i] < nextStreamId
        BY <2>1, <4>1, <4>2 DEF IdInv
      <4>4. IdsIncrease'
        <5> SUFFICES ASSUME NEW i \in 1 .. Len(syns'), NEW j \in 1 .. Len(syns'), i < j
                     PROVE  syns'[i] < syns'[j]
          BY DEF IdsIncrease
        <5>1. i \in 1 .. Len(syns)
          BY <1>0, <4>1
        <5> QED
          BY <2>1, <4>1, <4>2, <5>1 DEF IdInv, IdsIncrease
      <4> QED
        BY <4>3, <4>4
    <3> QED
      BY <2>2, <3>1, <3>2
  <2> QED
    BY <2>2, <2>3, <2>4 DEF IdInv
<1>3. CASE /\ UNCHANGED <<nextStreamId, nextIdLock, syns>>
           /\ ~\E t \in Threads : Create(t)
  <2>1. \A u \in Threads : pc'[u].at = "write" => pc'[u] = pc[u]
    BY <1>3, CallSteps
  <2> QED
    BY <1>3, <2>1 DEF IdInv, IdsIncrease
<1> QED
  BY <1>1, <1>2, <1>3, Frames

\* Who changes what a sleeper waits for wakes him.
LEMMA SleepersKeep ==
    ASSUME TypeOK, SleepersHaveReason, ShutdownNext
    PROVE  SleepersHaveReason'
<1> USE TypeParts
<1>1. ASSUME NEW t \in Threads, pc'[t].at = "asleep"
      PROVE  pc'[t].id \notin streams' /\ (pc'[t].id >= received' \/ reader'.at = "add")
  <2>1. UNCHANGED streams /\ ~AddPeerStream
    <3>1. UNCHANGED streams
      BY <1>1, Frames
    <3>2. ~AddPeerStream
      BY <1>1, AwakeMoves DEF AddPeerStream, AddStream, CallsOK
    <3> QED
      BY <3>1, <3>2
  <2>2. CASE Find(t)
    <3>1. pc[t].id \notin streams /\ pc[t].id >= received /\ UNCHANGED <<received, reader>>
      <4>1. UNCHANGED <<received, reader>>
        BY <2>2 DEF Find, away, serving
      <4>2. (pc[t].id \notin streams /\ pc[t].id >= received) \/ pc'[t] = Idle
        BY <2>2 DEF Find, Return, CallsOK
      <4> QED
        BY <1>1, <4>1, <4>2, CallStates
    <3>2. pc'[t].id = pc[t].id
      <4>1. pc'[t] = [pc[t] EXCEPT !.at = "asleep"] /\ pc[t] \in Call
        BY <2>2, <3>1 DEF Find, Goto, CallsOK
      <4> QED
        BY <4>1, CallStatesKept
    <3> QED
      BY <2>1, <3>1, <3>2
  <2>3. CASE pc'[t] = pc[t]
    <3>1. pc[t].id \notin streams /\ (pc[t].id >= received \/ reader.at = "add")
      BY <1>1, <2>3 DEF SleepersHaveReason
    <3>2. CASE \E id \in PeerIds : ReadSyn(id)
      <4>1. reader'.at = "add"
        BY <3>2 DEF ReadSyn, ServingOK, ReaderState
      <4> QED
        BY <2>1, <2>3, <3>1, <4>1
    <3>3. CASE UNCHANGED received
      <4>1. reader.at = "add" => UNCHANGED reader
        BY <2>1, Frames
      <4> QED
        BY <2>1, <2>3, <3>1, <3>3, <4>1
    <3> QED
      BY <3>2, <3>3, Frames
  <2> QED
    BY <1>1, <2>2, <2>3, CallSteps
<1>2. ASSUME watcher' = "asleep" PROVE streams' # {}
  <2>1. UNCHANGED streams
    BY <1>2, Frames
  <2>2. CASE Watch
    BY <1>2, <2>1, <2>2 DEF Watch
  <2>3. CASE watcher = "asleep"
    BY <2>1, <2>3 DEF SleepersHaveReason
  <2> QED
    BY <1>2, <2>2, <2>3, Frames
<1> QED
  BY <1>1, <1>2 DEF SleepersHaveReason

-----------------------------------------------------------------------------
(* The end of the connection                                               *)

\* Who writes the variables of the shutdown.
LEMMA EndFrames ==
    ASSUME TypeOK, ShutdownNext
    PROVE  /\ (goneAway => goneAway') /\ (hasShutdown => hasShutdown') /\ (conn' => conn)
           /\ \/ UNCHANGED <<goneAway, before>>
              \/ /\ ~goneAway /\ goneAway' /\ before' = streams
                 /\ UNCHANGED <<streams, watcher, cut, nextStreamId, received>>
                 /\ UNCHANGED reader \/ reader'.at = "cleanup"
           /\ \/ UNCHANGED <<shutdown, cut, shutdownChan>>
              \/ \E g \in Starters : Ending(g)
              \/ \E t \in Threads : CloseWrite(t)
              \/ HandleGoAway
           /\ \/ UNCHANGED watcher \/ (watcher = "asleep" /\ watcher' = "running")
              \/ Watch \/ \E g \in Starters : ShutdownBegin(g)
<1> DEFINE Goal ==
       /\ (goneAway => goneAway') /\ (hasShutdown => hasShutdown') /\ (conn' => conn)
       /\ \/ UNCHANGED <<goneAway, before>>
          \/ /\ ~goneAway /\ goneAway' /\ before' = streams
             /\ UNCHANGED <<streams, watcher, cut, nextStreamId, received>>
             /\ UNCHANGED reader \/ reader'.at = "cleanup"
       /\ \/ UNCHANGED <<shutdown, cut, shutdownChan>>
          \/ \E g \in Starters : Ending(g)
          \/ \E t \in Threads : CloseWrite(t)
          \/ HandleGoAway
       /\ \/ UNCHANGED watcher \/ (watcher = "asleep" /\ watcher' = "running")
          \/ Watch \/ \E g \in Starters : ShutdownBegin(g)
<1> USE TypeParts DEF AwayOK, table, away, settings, serving, ending
<1>1. ASSUME NEW t \in Threads, Calling(t) PROVE Goal
  <2>1. ASSUME NEW flag \in BOOLEAN, CloseBegin(t, flag) PROVE Goal
    BY <2>1 DEF CloseBegin
  <2>2. CASE ~\E flag \in BOOLEAN : CloseBegin(t, flag)
    <3>1. ASSUME NEW flag \in BOOLEAN, WaitCall(t, flag) \/ NotifyTimeout(t, flag) \/ SetCloseTimeout(t, flag)
          PROVE  Goal
      BY <3>1 DEF WaitCall, NotifyTimeout, SetCloseTimeout
    <3>2. CASE CreateCall(t)
      BY <3>2 DEF CreateCall
    <3>3. ASSUME NEW id, FindCall(t, id) PROVE Goal
      BY <3>3 DEF FindCall
    <3> QED
      BY <1>1, <2>2, <3>1, <3>2, <3>3 DEF Calling
  <2> QED
    BY <2>1, <2>2
<1>2. ASSUME NEW t \in Threads, Thread(t) PROVE Goal
  <2>1. CASE CloseWrite(t)
    BY <2>1 DEF CloseWrite
  <2>2. CASE ~CloseWrite(t)
    BY <1>2, <2>2 DEF Thread, CreateRefused, Create, AddStream, WakeWatcher, CreateWrite, Find,
       RecvClosed, WaitExpires, NotifyChan
  <2> QED
    BY <2>1, <2>2
<1>3. CASE Serve
  <2>1. CASE HandleGoAway
    BY <2>1 DEF HandleGoAway
  <2>2. CASE ~HandleGoAway
    BY <1>3, <2>2 DEF Serve, AddPeerStream, AddStream, WakeWatcher, ReadClosed, CloseChan, AwaitWorkers,
       Cleanup, RemoveStreams
  <2> QED
    BY <2>1, <2>2
<1>4. ASSUME NEW id \in Ids, StreamEnds(id) \/ WorkerSticks(id) \/ DataHandled(id) PROVE Goal
  BY <1>4 DEF StreamEnds, WorkerSticks, DataHandled, RemoveStreams, WakeWatcher
<1>5. CASE Peer \/ WorkerFreed
  <2>1. CASE ReadError \/ WorkerFreed
    BY <2>1 DEF ReadError, WorkerFreed
  <2>2. ASSUME NEW id, ReadSyn(id) \/ ReadData(id) \/ ReadGoAway(id) PROVE Goal
    BY <2>2 DEF ReadSyn, ReadData, ReadGoAway
  <2> QED
    BY <1>5, <2>1, <2>2 DEF Peer
<1>6. CASE Watch
  BY <1>6 DEF Watch
<1>7. ASSUME NEW g \in Starters, Ending(g) PROVE Goal
  <2>1. CASE ShutdownBegin(g)
    BY <1>7, <2>1 DEF ShutdownBegin
  <2>2. CASE ~ShutdownBegin(g)
    <3>1. /\ UNCHANGED <<goneAway, before, hasShutdown, watcher>> /\ (conn' => conn)
      BY <1>7, <2>2 DEF Ending, ShutdownClose, ShutdownForce, CloseConn, ShutdownForced,
         HandOver, HandOverExpires, CloseShutdownChan
    <3> QED
      BY <1>7, <3>1
  <2> QED
    BY <2>1, <2>2
<1>8. Goal
  BY <1>1, <1>2, <1>3, <1>4, <1>5, <1>6, <1>7 DEF ShutdownNext
<1> QED
  BY <1>8

\* One goroutine that runs shutdown moves.
LEMMA StageMoves ==
    ASSUME TypeOK, NEW g \in Starters, NEW s, shutdown' = [shutdown EXCEPT ![g] = s]
    PROVE  shutdown'[g] = s /\ \A h \in Starters : h # g => shutdown'[h] = shutdown[h]
BY TypeParts DEF EndingOK

\* What each action does to the goroutines that run shutdown.
LEMMA StageSteps ==
    ASSUME TypeOK, ShutdownNext, NEW h \in Starters, shutdown'[h] # shutdown[h], shutdown'[h].at # "none"
    PROVE  \/ shutdown'[h].at = "begin" /\ ((\E t \in Threads : CloseWrite(t)) \/ HandleGoAway)
           \/ shutdown'[h].at = "select" /\ ShutdownBegin(h)
           \/ shutdown'[h].at \in {"handOver", "close"} /\ ShutdownClose(h)
           \/ shutdown'[h].at \in {"forced", "forcedErr"} /\ ShutdownForce(h)
           \/ shutdown'[h].at \in {"handOver", "close"} /\ ShutdownForced(h)
           \/ shutdown'[h].at = "close" /\ shutdown[h].at = "handOver" /\ UNCHANGED <<watcher, conn>>
<1> USE TypeParts DEF table, away, settings, serving, ending
<1>0. shutdown \in [Starters -> Stage]
  BY DEF EndingOK
<1>1. ASSUME NEW t \in Threads, CloseWrite(t) PROVE shutdown'[h].at = "begin"
  BY <1>1, StageMoves DEF CloseWrite, StartShutdown, Starters
<1>2. CASE HandleGoAway
  <2>1. shutdown'[h].at = "begin"
    BY <1>2, StageMoves DEF HandleGoAway, StartShutdown, Starters
  <2> QED
    BY <1>2, <2>1
<1>3. ASSUME NEW g \in Starters, Ending(g)
      PROVE  \/ shutdown'[h].at = "select" /\ ShutdownBegin(h)
             \/ shutdown'[h].at \in {"handOver", "close"} /\ ShutdownClose(h)
             \/ shutdown'[h].at \in {"forced", "forcedErr"} /\ ShutdownForce(h)
             \/ shutdown'[h].at \in {"handOver", "close"} /\ ShutdownForced(h)
             \/ shutdown'[h].at = "close" /\ shutdown[h].at = "handOver" /\ UNCHANGED <<watcher, conn>>
  <2>0. shutdown[g] \in Stage
    BY <1>0
  <2>1. CASE ShutdownBegin(g)
    <3>1. shutdown' = [shutdown EXCEPT ![g] = IF hasShutdown THEN NoShutdown
                                              ELSE [shutdown[g] EXCEPT !.at = "select"]]
      BY <2>1 DEF ShutdownBegin
    <3>2. g = h
      BY <3>1, StageMoves
    <3>3. shutdown'[h].at = "select"
      BY <2>0, <3>1, <3>2, StageMoves DEF NoShutdown, Stage
    <3> QED
      BY <2>1, <3>2, <3>3
  <2>2. CASE ShutdownClose(g)
    <3>1. PICK err \in BOOLEAN : shutdown' = [shutdown EXCEPT ![g] =
             [NoShutdown EXCEPT !.at = IF err THEN "handOver" ELSE "close"]]
      BY <2>2 DEF ShutdownClose, CloseConn, EndingOK
    <3>2. g = h /\ shutdown'[h].at \in {"handOver", "close"}
      BY <3>1, StageMoves, StagesKept
    <3> QED
      BY <2>2, <3>2
  <2>3. CASE ShutdownForce(g)
    <3>1. PICK err \in BOOLEAN : shutdown' = [shutdown EXCEPT ![g] =
             [NoShutdown EXCEPT !.at = IF err THEN "forcedErr" ELSE "forced"]]
      BY <2>3 DEF ShutdownForce, CloseConn, EndingOK
    <3>2. g = h /\ shutdown'[h].at \in {"forced", "forcedErr"}
      BY <3>1, StageMoves, StagesKept
    <3> QED
      BY <2>3, <3>2
  <2>4. CASE ShutdownForced(g)
    <3>1. shutdown' = [shutdown EXCEPT ![g].at = IF shutdown[g].at = "forcedErr" THEN "handOver" ELSE "close"]
      BY <2>4 DEF ShutdownForced, ShutdownGoto
    <3>2. g = h /\ shutdown'[h].at \in {"handOver", "close"}
      BY <1>0, <2>0, <3>1 DEF Stage
    <3> QED
      BY <2>4, <3>2
  <2>5. CASE (\E t \in Threads : HandOver(g, t)) \/ HandOverExpires(g)
    <3>1. /\ shutdown' = [shutdown EXCEPT ![g].at = "close"] /\ shutdown[g].at = "handOver"
          /\ UNCHANGED <<watcher, conn>>
      BY <2>5 DEF HandOver, HandOverExpires, ShutdownGoto
    <3>2. g = h /\ shutdown'[h].at = "close"
      BY <1>0, <2>0, <3>1 DEF Stage
    <3> QED
      BY <3>1, <3>2
  <2>6. CASE CloseShutdownChan(g)
    BY <2>6, StageMoves DEF CloseShutdownChan, NoShutdown
  <2> QED
    BY <1>3, <2>1, <2>2, <2>3, <2>4, <2>5, <2>6 DEF Ending
<1> QED
  BY <1>1, <1>2, <1>3, EndFrames

\* Serve adds a stream after it has read its frame.
LEMMA AddAfterSyn ==
    ASSUME TypeOK, ShutdownNext, reader'.at = "add"
    PROVE  UNCHANGED reader \/ \E id \in PeerIds : ReadSyn(id)
<1> USE DEF table, away, settings, serving, ending
<1>0. reader \in ReaderState
  BY TypeParts DEF ServingOK
<1>1. ~ReadError /\ \A id \in ToSet(syns) \cup {0} : ~ReadGoAway(id)
  BY <1>0 DEF ReadError, ReadGoAway, ReaderGoto, ReaderState
<1>2. ~Serve
  <2>1. ~AddPeerStream
    BY <1>0 DEF AddPeerStream, ReaderState
  <2>2. ~HandleGoAway
    BY DEF HandleGoAway
  <2>3. ~ReadClosed /\ ~CloseChan /\ ~AwaitWorkers /\ ~Cleanup
    BY <1>0 DEF ReadClosed, CloseChan, AwaitWorkers, Cleanup, ReaderGoto, ReaderState
  <2> QED
    BY <2>1, <2>2, <2>3 DEF Serve
<1>3. \A id \in Ids : ReadData(id) => UNCHANGED reader
  BY DEF ReadData
<1> QED
  BY <1>1, <1>2, <1>3, ReaderSteps DEF Peer

\* Nothing is shut down before goneAway is set.
LEMMA AwayKeeps ==
    ASSUME TypeOK, AwayInv, ShutdownNext
    PROVE  AwayInv'
<1> USE TypeParts DEF AwayInv
<1>1. \A t \in Threads : pc'[t].at = "goAway" => goneAway'
  <2> SUFFICES ASSUME NEW t \in Threads, pc'[t].at = "goAway" PROVE goneAway'
    OBVIOUS
  <2>1. CASE pc'[t] = pc[t]
    BY <2>1, EndFrames
  <2>2. ASSUME NEW flag \in BOOLEAN, CloseBegin(t, flag) PROVE goneAway'
    BY <2>2 DEF CloseBegin
  <2> QED
    BY <2>1, <2>2, CallSteps
<1>2. \A g \in Starters : shutdown'[g].at # "none" => goneAway'
  <2> SUFFICES ASSUME NEW g \in Starters, shutdown'[g].at # "none", shutdown'[g] # shutdown[g]
               PROVE  goneAway'
    BY EndFrames
  <2>1. CASE HandleGoAway
    BY <2>1 DEF HandleGoAway, AwayOK
  <2>2. ASSUME NEW t \in Threads, CloseWrite(t) PROVE goneAway'
    BY <2>2, EndFrames DEF CloseWrite
  <2>3. CASE ShutdownBegin(g) \/ ShutdownClose(g) \/ ShutdownForce(g) \/ ShutdownForced(g)
    BY <2>3, EndFrames DEF ShutdownBegin, ShutdownClose, ShutdownForce, ShutdownForced
  <2>4. CASE shutdown[g].at = "handOver"
    BY <2>4, EndFrames
  <2> QED
    BY <2>1, <2>2, <2>3, <2>4, StageSteps
<1>3. watcher' # "none" => goneAway' /\ hasShutdown'
  <2>1. CASE watcher # "none"
    BY <2>1, EndFrames
  <2>2. ASSUME NEW g \in Starters, ShutdownBegin(g) PROVE goneAway' /\ hasShutdown'
    BY <2>2, EndFrames DEF ShutdownBegin
  <2> QED
    BY <2>1, <2>2, EndFrames DEF Watch
<1>4. ~goneAway' => cut' = {} /\ before' = {}
  <2> SUFFICES ASSUME ~goneAway' PROVE cut' = {} /\ before' = {}
    OBVIOUS
  <2>1. ~goneAway /\ UNCHANGED before
    BY EndFrames
  <2>2. \A g \in Starters : ~Ending(g)
    <3>1. \A g \in Starters : shutdown[g].at = "none"
      BY <2>1
    <3> QED
      BY <3>1 DEF Ending, ShutdownBegin, ShutdownClose, ShutdownForce, ShutdownForced,
         HandOver, HandOverExpires, CloseShutdownChan
  <2>3. UNCHANGED cut
    BY <2>2, EndFrames DEF CloseWrite, HandleGoAway
  <2> QED
    BY <2>1, <2>3
<1> QED
  BY <1>1, <1>2, <1>3, <1>4

\* An id that comes into the table was not in it before.
LEMMA FreshKeeps ==
    ASSUME PeerIds \cap OwnIds = {}, TypeOK, IdInv, ReaderInv, AwayInv, FreshInv, ShutdownNext
    PROVE  FreshInv'
<1> USE TypeParts
<1>0. /\ nextStreamId \in Nat /\ received \in Nat /\ streams \subseteq Ids /\ before \subseteq Ids
      /\ Ids \subseteq Nat /\ reader \in ReaderState
  <2>0. FirstId \in Nat /\ MaxStreamId \in Nat /\ PeerIds \subseteq Nat
    BY ShutdownAssumption
  <2>1. \A id \in OwnIds : id \in Nat
    BY <2>0 DEF OwnIds
  <2>2. Ids \subseteq Nat
    BY <2>0, <2>1 DEF Ids
  <2> QED
    BY <2>2 DEF TableOK, AwayOK, ServingOK
<1>1. ASSUME NEW t \in Threads, Create(t) PROVE FreshInv'
  <2>1. /\ nextStreamId' = nextStreamId + 2 /\ streams' = streams \cup {nextStreamId}
        /\ UNCHANGED <<received, before, reader>>
    BY <1>1 DEF Create, AddStream, away, serving
  <2>2. nextStreamId \in OwnIds /\ nextStreamId \notin PeerIds
    BY <1>1, NextIdOurs DEF Create
  <2>3. reader.at = "add" => reader.id # nextStreamId
    BY <2>2 DEF ReaderInv
  <2> QED
    BY <1>0, <2>1, <2>2, <2>3 DEF FreshInv
<1>2. CASE AddPeerStream
  <2>1. /\ UNCHANGED <<nextStreamId, received, before>> /\ streams' = streams \cup {reader.id}
        /\ reader.at = "add" /\ reader'.at = "read"
    BY <1>0, <1>2 DEF AddPeerStream, AddStream, away, ReaderState
  <2>2. reader.id \notin OwnIds
    BY <2>1 DEF ReaderInv
  <2> QED
    BY <2>1, <2>2 DEF FreshInv
<1>3. ASSUME NEW id \in PeerIds, ReadSyn(id) PROVE FreshInv'
  <2>1. /\ UNCHANGED <<nextStreamId, streams, before>> /\ received' = id + 2 /\ id >= received
        /\ reader'.at = "add" /\ reader'.id = id
    BY <1>0, <1>3 DEF ReadSyn, table, ReaderState
  <2>2. id \in Nat /\ id \notin streams \cup before
    BY <1>0, <2>1, ShutdownAssumption DEF FreshInv
  <2> QED
    BY <1>0, <2>1, <2>2 DEF FreshInv
<1>4. CASE /\ streams' \subseteq streams /\ UNCHANGED received
           /\ ~AddPeerStream
  <2>1. nextStreamId' >= nextStreamId /\ nextStreamId' \in Nat
    <3>1. ASSUME NEW t \in Threads, Create(t) \/ CreateWrite(t)
          PROVE  nextStreamId' \in {nextStreamId, nextStreamId + 2}
      BY <3>1 DEF Create, CreateWrite
    <3> QED
      BY <1>0, <3>1, Frames
  <2>2. before' = before \/ before' = streams
    BY EndFrames
  <2>3. reader'.at = "add" => UNCHANGED reader
    <3>1. UNCHANGED reader \/ reader.at # "add"
      BY <1>4, Frames
    <3>2. reader'.at = "add" => reader.at = "add" \/ \E id \in PeerIds : ReadSyn(id)
      BY AddAfterSyn
    <3>3. ASSUME NEW id \in PeerIds, ReadSyn(id) PROVE FALSE
      BY <1>0, <1>4, <3>3, ShutdownAssumption DEF ReadSyn
    <3> QED
      BY <3>1, <3>2, <3>3
  <2>4. streams' \cup before' \subseteq streams \cup before
    BY <1>4, <2>2
  <2>5. \A id \in streams' \cup before' :
           (id \in OwnIds => id < nextStreamId') /\ (id \in PeerIds => id < received')
    BY <1>0, <1>4, <2>1, <2>4 DEF FreshInv
  <2>6. reader'.at = "add" => reader'.id < received' /\ reader'.id \notin streams' \cup before'
    BY <1>4, <2>3, <2>4 DEF FreshInv
  <2> QED
    BY <2>5, <2>6 DEF FreshInv
<1> QED
  BY <1>1, <1>2, <1>3, <1>4, Frames

\* The peer has ended the read loop, or the connection is closed.
LEMMA HangUpKeeps ==
    ASSUME TypeOK, HangUpInv, ShutdownNext
    PROVE  HangUpInv'
<1> USE TypeParts DEF HangUpInv
<1>0. reader \in ReaderState /\ (conn' => conn)
  BY EndFrames DEF ServingOK
<1>1. CASE UNCHANGED <<reader, hangup>>
  BY <1>0, <1>1
<1>2. CASE Peer
  <2>1. ASSUME NEW id, ReadSyn(id) \/ ReadData(id) \/ ReadGoAway(id) PROVE HangUpInv'
    BY <1>0, <2>1 DEF ReadSyn, ReadData, ReadGoAway, ReaderState
  <2>2. CASE ReadError
    BY <1>0, <2>2 DEF ReadError, ReaderGoto, ReaderState
  <2> QED
    BY <1>2, <2>1, <2>2 DEF Peer
<1>3. CASE Serve
  <2>1. CASE AddPeerStream
    BY <1>0, <2>1 DEF AddPeerStream, ReaderState
  <2>2. CASE ReadClosed \/ CloseChan \/ AwaitWorkers
    BY <1>0, <2>2 DEF ReadClosed, CloseChan, AwaitWorkers, ReaderGoto, ReaderState
  <2>3. CASE HandleGoAway
    BY <1>0, <2>3 DEF HandleGoAway
  <2>4. CASE Cleanup
    BY <1>0, <2>4 DEF Cleanup, ReaderGoto, ReaderState
  <2> QED
    BY <1>3, <2>1, <2>2, <2>3, <2>4 DEF Serve
<1> QED
  BY <1>1, <1>2, <1>3, ReaderSteps

\* Streams are evicted once, at the end of Serve.
LEMMA EvictedOnce ==
    ASSUME HangUpInv, ShutdownNext
    PROVE  evicted \subseteq evicted'
<1>1. CASE Cleanup
  BY <1>1 DEF Cleanup, HangUpInv
<1>2. CASE Serve /\ ~Cleanup
  BY <1>2 DEF Serve, AddPeerStream, ReadClosed, CloseChan, AwaitWorkers, HandleGoAway
<1>3. CASE Peer
  BY <1>3 DEF Peer, ReadSyn, ReadData, ReadGoAway, ReadError
<1> QED
  BY <1>1, <1>2, <1>3, ReaderSteps

\* The stages of the shutdown come one after the other.
LEMMA EndKeeps ==
    ASSUME PeerIds \cap OwnIds = {}, TypeOK, IdInv, ReaderInv, AwayInv, FreshInv, HangUpInv, EndInv,
           ShutdownNext
    PROVE  EndInv'
<1> USE TypeParts
<1>1. watcher = "done" => watcher' = "done" /\ goneAway /\ UNCHANGED before
  <2> SUFFICES ASSUME watcher = "done" PROVE watcher' = "done" /\ goneAway /\ UNCHANGED before
    OBVIOUS
  <2>1. goneAway /\ hasShutdown
    BY DEF AwayInv
  <2>2. UNCHANGED before
    BY <2>1, EndFrames
  <2>3. watcher' = "done"
    BY <2>1, EndFrames DEF Watch, ShutdownBegin
  <2> QED
    BY <2>1, <2>2, <2>3
<1>2. watcher' = "done" => streams' \cap before' = {}
  <2>1. CASE watcher = "done"
    <3>1. streams \cap before = {} /\ UNCHANGED before
      BY <1>1, <2>1 DEF EndInv
    <3>2. ASSUME NEW t \in Threads, Create(t) PROVE streams' \cap before = {}
      <4>1. nextStreamId \in OwnIds /\ streams' = streams \cup {nextStreamId} /\ nextStreamId \in Nat
        BY <3>2, NextIdOurs DEF Create, AddStream, TableOK
      <4>2. nextStreamId \notin before
        BY <4>1 DEF FreshInv
      <4> QED
        BY <3>1, <4>1, <4>2
    <3>3. CASE AddPeerStream
      BY <3>1, <3>3 DEF AddPeerStream, AddStream, FreshInv
    <3> QED
      BY <3>1, <3>2, <3>3, Frames
  <2>2. CASE watcher # "done"
    <3> SUFFICES ASSUME watcher' = "done" PROVE streams' = {}
      OBVIOUS
    <3>1. CASE Watch
      BY <3>1 DEF Watch, table
    <3>2. ~Watch => FALSE
      BY <2>2, EndFrames DEF ShutdownBegin
    <3> QED
      BY <3>1, <3>2
  <2> QED
    BY <2>1, <2>2
<1>3. cut' \cap before' \subseteq evicted'
  <2>0. evicted \subseteq evicted'
    BY EvictedOnce
  <2>1. CASE UNCHANGED <<cut, before>>
    BY <2>0, <2>1 DEF EndInv
  <2>2. CASE before' # before
    BY <2>2, EndFrames DEF AwayInv
  <2>3. CASE UNCHANGED before /\ cut' # cut
    <3>1. PICK g \in Starters : ShutdownClose(g)
      BY <2>3, EndFrames DEF CloseWrite, HandleGoAway, Ending, ShutdownBegin, ShutdownForce, ShutdownForced,
         HandOver, HandOverExpires, CloseShutdownChan
    <3> QED
      BY <2>0, <2>3, <3>1 DEF ShutdownClose, EndInv
  <2> QED
    BY <2>1, <2>2, <2>3
<1>4. ASSUME NEW g \in Starters
      PROVE  /\ shutdown'[g].at \in {"forced", "forcedErr", "handOver", "close"} => ~conn'
             /\ shutdown'[g].at \in {"handOver", "close"} => watcher' = "done"
  <2>1. CASE shutdown'[g] = shutdown[g]
    BY <1>1, <2>1, EndFrames DEF EndInv
  <2>2. CASE ShutdownClose(g) \/ ShutdownForced(g)
    BY <2>2 DEF ShutdownClose, ShutdownForced, CloseConn, EndInv
  <2>3. CASE ShutdownForce(g) /\ shutdown'[g].at \in {"forced", "forcedErr"}
    BY <2>3 DEF ShutdownForce, CloseConn
  <2>4. CASE shutdown[g].at = "handOver" /\ UNCHANGED <<watcher, conn>>
    BY <2>4 DEF EndInv
  <2> QED
    BY <2>1, <2>2, <2>3, <2>4, StageSteps
<1>5. shutdownChan' => watcher' = "done" /\ ~conn'
  <2>1. CASE shutdownChan
    BY <1>1, <2>1, EndFrames DEF EndInv
  <2>2. ASSUME NEW g \in Starters, CloseShutdownChan(g) PROVE watcher' = "done" /\ ~conn'
    BY <2>2 DEF CloseShutdownChan, EndInv
  <2>3. shutdownChan' => shutdownChan \/ \E g \in Starters : CloseShutdownChan(g)
    BY EndFrames DEF CloseWrite, HandleGoAway, Ending, ShutdownBegin, ShutdownClose, ShutdownForce,
       ShutdownForced, HandOver, HandOverExpires
  <2> QED
    BY <2>1, <2>2, <2>3
<1> QED
  BY <1>2, <1>3, <1>4, <1>5 DEF EndInv

-----------------------------------------------------------------------------
(* shutdown is called once                                                 *)

\* Whoever is going to call shutdown, or runs it: one goroutine at most, from
\* when goneAway is set to when shutdownChan is closed.
Ends(g) == shutdown[g].at # "none" \/ (g \in Threads /\ pc[g].at = "goAway")

OnceInv ==
    /\ \A g, h \in Starters : Ends(g) /\ Ends(h) => g = h
    /\ \A g \in Starters : Ends(g) =>
          /\ ~shutdownChan
          /\ shutdown[g].at \in {"none", "begin"} => ~hasShutdown
    /\ \A t \in Threads : pc[t].at = "goAway" => shutdown[t].at = "none"
    /\ ~goneAway => ~hasShutdown /\ ~shutdownChan
    /\ goneAway => shutdownChan \/ \E g \in Starters : Ends(g)

\* The goroutine that has to write the GOAWAY leaves by doing so.
LEMMA GoAwayStays ==
    ASSUME TypeOK, ShutdownNext, NEW u \in Threads, pc[u].at = "goAway", ~CloseWrite(u)
    PROVE  pc'[u] = pc[u]
<1> USE TypeParts DEF CallsOK
<1>1. ASSUME NEW t \in Threads, Calling(t) PROVE pc'[u] = pc[u]
  <2>1. pc[t].at = "idle" /\ \E c : pc' = [pc EXCEPT ![t] = c]
    BY <1>1 DEF Calling, CreateCall, FindCall, CloseBegin, WaitCall, NotifyTimeout, SetCloseTimeout, Start
  <2> QED
    BY <2>1, CallMoves
<1>2. ASSUME NEW f \in [Threads -> Call], f[u] = pc[u], pc' = Awake(f) PROVE pc'[u] = pc[u]
  BY <1>2, AwakeMoves
<1>3. ASSUME NEW t \in Threads, Thread(t) PROVE pc'[u] = pc[u]
  <2>1. CASE Create(t)
    <3> DEFINE f == [pc EXCEPT ![t] = [pc[t] EXCEPT !.at = "write", !.id = nextStreamId]]
    <3>1. u # t /\ pc' = Awake(f)
      BY <2>1 DEF Create, AddStream
    <3>2. Awake(f)[u] = Awake(pc)[u]
      BY <3>1 DEF Awake
    <3> QED
      BY <3>1, <3>2, AwakeMoves
  <2>2. CASE ~Create(t)
    <3>1. t # u
      BY <1>3, <2>2 DEF Thread, CreateRefused, CreateWrite, Find, RecvClosed, WaitExpires, NotifyChan
    <3> QED
      BY <1>3, <2>2, <3>1 DEF Thread, CreateRefused, CreateWrite, Find, CloseWrite, AfterGoAway,
         RecvClosed, WaitExpires, NotifyChan, Return, Goto
  <2> QED
    BY <2>1, <2>2
<1>4. CASE Serve
  BY <1>2, <1>4 DEF Serve, AddPeerStream, AddStream, ReadClosed, CloseChan, AwaitWorkers, HandleGoAway,
     Cleanup, RemoveStreams
<1>5. CASE \/ Peer \/ Watch \/ WorkerFreed
           \/ \E id \in Ids : StreamEnds(id) \/ WorkerSticks(id) \/ DataHandled(id)
  BY <1>2, <1>5 DEF Peer, ReadSyn, ReadData, ReadGoAway, ReadError, Watch, WorkerFreed, StreamEnds,
     WorkerSticks, DataHandled, RemoveStreams
<1>6. ASSUME NEW g \in Starters, Ending(g) PROVE pc'[u] = pc[u]
  <2>1. ASSUME NEW t \in Threads, HandOver(g, t) PROVE pc'[u] = pc[u]
    BY <2>1 DEF HandOver, Return
  <2> QED
    BY <1>6, <2>1 DEF Ending, ShutdownBegin, ShutdownClose, ShutdownForce, ShutdownForced,
       HandOverExpires, CloseShutdownChan
<1> QED
  BY <1>1, <1>3, <1>4, <1>5, <1>6 DEF ShutdownNext

\* Close writes its GOAWAY, and starts the shutdown.
LEMMA WriteBegins ==
    ASSUME TypeOK, NEW t \in Threads, CloseWrite(t)
    PROVE  /\ pc[t].at = "goAway" /\ pc'[t].at # "goAway"
           /\ \A u \in Threads : u # t => pc'[u] = pc[u]
           /\ shutdown'[t].at = "begin"
           /\ \A h \in Starters : h # t => shutdown'[h] = shutdown[h]
           /\ UNCHANGED <<goneAway, hasShutdown, shutdownChan>>
<1>1. t \in Starters
  BY DEF Starters
<1>2. shutdown' = [shutdown EXCEPT ![t] = [at |-> "begin", timed |-> closeTimeout]]
  BY DEF CloseWrite, StartShutdown
<1>3. /\ shutdown'[t] = [at |-> "begin", timed |-> closeTimeout]
      /\ \A h \in Starters : h # t => shutdown'[h] = shutdown[h]
  BY <1>1, <1>2, StageMoves
<1>4. PICK c \in {Idle, [Idle EXCEPT !.at = "recv"]} : pc' = [pc EXCEPT ![t] = c]
  BY DEF CloseWrite, AfterGoAway
<1>5. c.at # "goAway"
  BY CallStates
<1>6. pc'[t].at # "goAway" /\ \A u \in Threads : u # t => pc'[u] = pc[u]
  BY <1>4, <1>5, CallMoves
<1>7. shutdown'[t].at = "begin"
  BY <1>3
<1>8. pc[t].at = "goAway" /\ UNCHANGED <<goneAway, hasShutdown, shutdownChan>>
  BY DEF CloseWrite, away
<1> QED
  BY <1>3, <1>6, <1>7, <1>8

\* The goroutine that runs shutdown goes on.
LEMMA StageGoesOn ==
    ASSUME TypeOK, NEW g \in Starters, Ending(g)
    PROVE  /\ shutdown[g].at # "none" /\ shutdown'[g].at # "begin"
           /\ \A h \in Starters : h # g => shutdown'[h] = shutdown[h]
           /\ UNCHANGED goneAway
           /\ \/ ShutdownBegin(g) /\ hasShutdown' /\ UNCHANGED shutdownChan
                 /\ (hasShutdown \/ shutdown'[g].at # "none")
              \/ ~ShutdownBegin(g) /\ UNCHANGED <<hasShutdown, shutdownChan>> /\ shutdown'[g].at # "none"
              \/ UNCHANGED hasShutdown /\ shutdownChan' /\ shutdown'[g].at = "none"
<1> USE DEF away
<1>0. shutdown[g] \in Stage
  BY TypeParts DEF EndingOK
<1>1. CASE ShutdownBegin(g)
  <2>1. shutdown' = [shutdown EXCEPT ![g] = IF hasShutdown THEN NoShutdown
                                            ELSE [shutdown[g] EXCEPT !.at = "select"]]
    BY <1>1 DEF ShutdownBegin
  <2>2. /\ shutdown'[g] = IF hasShutdown THEN NoShutdown ELSE [shutdown[g] EXCEPT !.at = "select"]
        /\ \A h \in Starters : h # g => shutdown'[h] = shutdown[h]
    BY <2>1, StageMoves
  <2>3. shutdown'[g].at = IF hasShutdown THEN "none" ELSE "select"
    BY <1>0, <2>2 DEF NoShutdown, Stage
  <2>4. /\ shutdown[g].at = "begin" /\ hasShutdown' /\ UNCHANGED <<goneAway, shutdownChan>>
    BY <1>1 DEF ShutdownBegin
  <2> QED
    BY <1>1, <2>2, <2>3, <2>4
<1>2. CASE ShutdownClose(g) \/ ShutdownForce(g)
  <2>1. PICK at \in {"forced", "forcedErr", "handOver", "close"} :
           shutdown' = [shutdown EXCEPT ![g] = [NoShutdown EXCEPT !.at = at]]
    BY <1>2 DEF ShutdownClose, ShutdownForce, CloseConn
  <2>2. shutdown'[g].at = at /\ \A h \in Starters : h # g => shutdown'[h] = shutdown[h]
    BY <2>1, StageMoves, StagesKept
  <2>3. /\ shutdown[g].at = "select" /\ ~ShutdownBegin(g)
        /\ UNCHANGED <<goneAway, hasShutdown, shutdownChan>>
    BY <1>2 DEF ShutdownClose, ShutdownForce, ShutdownBegin
  <2> QED
    BY <2>2, <2>3
<1>3. CASE ShutdownForced(g) \/ (\E t \in Threads : HandOver(g, t)) \/ HandOverExpires(g)
  <2>1. PICK at \in {"handOver", "close"} : shutdown' = [shutdown EXCEPT ![g].at = at]
    BY <1>3 DEF ShutdownForced, HandOver, HandOverExpires, ShutdownGoto
  <2>2. shutdown' = [shutdown EXCEPT ![g] = [shutdown[g] EXCEPT !.at = at]]
    BY <2>1
  <2>3. shutdown'[g].at = at /\ \A h \in Starters : h # g => shutdown'[h] = shutdown[h]
    <3>1. /\ shutdown'[g] = [shutdown[g] EXCEPT !.at = at]
          /\ \A h \in Starters : h # g => shutdown'[h] = shutdown[h]
      BY <2>2, StageMoves
    <3>2. [shutdown[g] EXCEPT !.at = at].at = at
      BY <1>0 DEF Stage
    <3> QED
      BY <3>1, <3>2
  <2>4. /\ shutdown[g].at \in {"forced", "forcedErr", "handOver"} /\ ~ShutdownBegin(g)
        /\ UNCHANGED <<goneAway, hasShutdown, shutdownChan>>
    BY <1>3 DEF ShutdownForced, HandOver, HandOverExpires, ShutdownBegin
  <2> QED
    BY <2>3, <2>4
<1>4. CASE CloseShutdownChan(g)
  <2>1. shutdown'[g] = NoShutdown /\ \A h \in Starters : h # g => shutdown'[h] = shutdown[h]
    BY <1>4, StageMoves DEF CloseShutdownChan
  <2>2. shutdown'[g].at = "none"
    BY <2>1 DEF NoShutdown
  <2>3. /\ shutdown[g].at = "close" /\ shutdownChan' /\ UNCHANGED <<goneAway, hasShutdown>>
    BY <1>4 DEF CloseShutdownChan
  <2> QED
    BY <2>1, <2>2, <2>3
<1> QED
  BY <1>1, <1>2, <1>3, <1>4 DEF Ending

\* It makes nobody close the connection.
LEMMA EndingCalls ==
    ASSUME TypeOK, NEW g \in Starters, Ending(g), NEW u \in Threads, pc'[u].at = "goAway"
    PROVE  pc[u].at = "goAway"
<1>1. ASSUME NEW t \in Threads, HandOver(g, t) PROVE pc'[u] = pc[u]
  <2>1. pc' = [pc EXCEPT ![t] = Idle]
    BY <1>1 DEF HandOver, Return
  <2> QED
    BY <2>1, CallMoves, CallStates
<1> QED
  BY <1>1 DEF Ending, ShutdownBegin, ShutdownClose, ShutdownForce, ShutdownForced,
     HandOverExpires, CloseShutdownChan

\* Nothing else has to do with it.
LEMMA OnlyTheseEnd ==
    ASSUME TypeOK, ShutdownNext,
           ~\E t \in Threads : CloseWrite(t),
           ~\E g \in Starters : Ending(g),
           ~(HandleGoAway /\ ~goneAway),
           ~(~goneAway /\ \E t \in Threads : \E flag \in BOOLEAN : CloseBegin(t, flag))
    PROVE  UNCHANGED <<shutdown, hasShutdown, shutdownChan, goneAway>>
<1> DEFINE Goal == UNCHANGED <<shutdown, hasShutdown, shutdownChan, goneAway>>
<1> USE TypeParts DEF AwayOK, away, ending
<1>1. ASSUME NEW t \in Threads, Calling(t) PROVE Goal
  <2>1. ASSUME NEW flag \in BOOLEAN, CloseBegin(t, flag) PROVE Goal
    <3>1. goneAway
      BY <2>1
    <3> QED
      BY <2>1, <3>1 DEF CloseBegin
  <2> QED
    BY <1>1, <2>1 DEF Calling, CreateCall, FindCall, WaitCall, NotifyTimeout, SetCloseTimeout
<1>2. ASSUME NEW t \in Threads, Thread(t) PROVE Goal
  BY <1>2 DEF Thread, CreateRefused, Create, CreateWrite, Find, RecvClosed, WaitExpires, NotifyChan
<1>3. CASE Serve
  BY <1>3 DEF Serve, AddPeerStream, ReadClosed, CloseChan, AwaitWorkers, HandleGoAway, Cleanup
<1>4. CASE \/ Peer \/ Watch \/ WorkerFreed
           \/ \E id \in Ids : StreamEnds(id) \/ WorkerSticks(id) \/ DataHandled(id)
  BY <1>4 DEF Peer, ReadSyn, ReadData, ReadGoAway, ReadError, Watch, WorkerFreed, StreamEnds,
     WorkerSticks, DataHandled
<1> QED
  BY <1>1, <1>2, <1>3, <1>4 DEF ShutdownNext

\* Who sets goneAway is the only one to call shutdown, and nobody else closes
\* shutdownChan.
LEMMA OnceKeeps ==
    ASSUME TypeOK, AwayInv, OnceInv, ShutdownNext
    PROVE  OnceInv'
<1> USE DEF Ends
<1>0. Threads \subseteq Starters /\ serve \in Starters /\ serve \notin Threads
  BY ShutdownAssumption DEF Starters
<1>1. ASSUME NEW t \in Threads, CloseWrite(t) PROVE OnceInv'
  <2>1. \A u \in Starters : u # t => ~Ends(u) /\ ~Ends(u)'
    BY <1>0, <1>1, WriteBegins DEF OnceInv
  <2>2. Ends(t) /\ Ends(t)' /\ t \in Starters
    BY <1>0, <1>1, WriteBegins
  <2>3. ~shutdownChan' /\ ~hasShutdown'
    BY <1>1, <2>2, WriteBegins DEF OnceInv
  <2>4. \A u \in Threads : pc'[u].at = "goAway" => shutdown'[u].at = "none"
    BY <1>0, <1>1, WriteBegins DEF OnceInv
  <2> QED
    BY <2>1, <2>2, <2>3, <2>4 DEF OnceInv
<1>2. ASSUME NEW g \in Starters, Ending(g) PROVE OnceInv'
  <2>0. \A u \in Threads : pc'[u].at = "goAway" => pc[u].at = "goAway"
    BY <1>2, EndingCalls
  <2>1. \A h \in Starters : h # g => ~Ends(h) /\ ~Ends(h)'
    BY <1>2, <2>0, StageGoesOn DEF OnceInv
  <2>2. /\ Ends(g) /\ ~shutdownChan /\ goneAway /\ goneAway'
        /\ \A u \in Threads : pc'[u].at # "goAway"
    <3>1. shutdown[g].at # "none" /\ UNCHANGED goneAway
      BY <1>2, StageGoesOn
    <3>2. goneAway /\ Ends(g) /\ ~shutdownChan
      BY <3>1 DEF AwayInv, OnceInv
    <3>3. \A u \in Threads : pc[u].at # "goAway"
      BY <1>0, <2>1, <3>1 DEF OnceInv
    <3> QED
      BY <2>0, <3>1, <3>2, <3>3
  <2>3. ShutdownBegin(g) => ~hasShutdown
    BY <2>2 DEF ShutdownBegin, OnceInv
  <2>4. /\ Ends(g)' => ~shutdownChan' /\ shutdown'[g].at \notin {"none", "begin"}
        /\ shutdownChan' \/ Ends(g)'
    BY <1>2, <2>2, <2>3, StageGoesOn
  <2> QED
    BY <2>1, <2>2, <2>4 DEF OnceInv
<1>3. ASSUME ~goneAway, goneAway', NEW g \in Starters, Ends(g)',
             \A h \in Starters : h # g => ~Ends(h)',
             \A u \in Threads : pc'[u].at = "goAway" => shutdown'[u].at = "none",
             shutdown'[g].at \in {"none", "begin"}, UNCHANGED <<hasShutdown, shutdownChan>>
      PROVE  OnceInv'
  BY <1>3 DEF OnceInv
<1>4. CASE HandleGoAway /\ ~goneAway
  <2>1. /\ goneAway' /\ UNCHANGED <<pc, hasShutdown, shutdownChan>>
        /\ shutdown' = [shutdown EXCEPT ![serve] = [at |-> "begin", timed |-> goAwayTimeout]]
    BY <1>4 DEF HandleGoAway, StartShutdown
  <2>2. \A h \in Starters : ~Ends(h)
    BY <1>4 DEF AwayInv
  <2>3. shutdown'[serve].at = "begin" /\ \A h \in Starters : h # serve => shutdown'[h] = shutdown[h]
    <3>1. /\ shutdown'[serve] = [at |-> "begin", timed |-> goAwayTimeout]
          /\ \A h \in Starters : h # serve => shutdown'[h] = shutdown[h]
      BY <1>0, <2>1, StageMoves
    <3> QED
      BY <3>1
  <2>4. Ends(serve)' /\ \A h \in Starters : h # serve => ~Ends(h)'
    BY <2>1, <2>2, <2>3
  <2>5. \A u \in Threads : pc'[u].at # "goAway"
    BY <1>0, <2>1, <2>2
  <2> QED
    BY <1>0, <1>3, <1>4, <2>1, <2>3, <2>4, <2>5
<1>5. ASSUME NEW t \in Threads, NEW flag \in BOOLEAN, CloseBegin(t, flag), ~goneAway PROVE OnceInv'
  <2>1. /\ goneAway' /\ UNCHANGED <<shutdown, hasShutdown, shutdownChan>>
        /\ pc' = [pc EXCEPT ![t] = [Idle EXCEPT !.at = "goAway", !.timed = flag]]
    BY <1>5 DEF CloseBegin, Start, ending
  <2>2. \A h \in Starters : ~Ends(h)
    BY <1>5 DEF AwayInv
  <2>3. pc'[t].at = "goAway" /\ \A u \in Threads : u # t => pc'[u] = pc[u]
    BY <2>1, CallStates, CallMoves
  <2>4. t \in Starters /\ Ends(t)' /\ \A h \in Starters : h # t => ~Ends(h)'
    BY <1>0, <2>1, <2>2, <2>3
  <2>5. \A u \in Starters : shutdown'[u].at = "none"
    BY <2>1, <2>2
  <2> QED
    BY <1>0, <1>3, <1>5, <2>1, <2>4, <2>5
<1>6. CASE /\ ~\E t \in Threads : CloseWrite(t)
           /\ ~\E g \in Starters : Ending(g)
           /\ ~(HandleGoAway /\ ~goneAway)
           /\ ~(~goneAway /\ \E t \in Threads : \E flag \in BOOLEAN : CloseBegin(t, flag))
  <2>1. UNCHANGED <<shutdown, shutdownChan, hasShutdown, goneAway>>
    BY <1>6, OnlyTheseEnd
  <2>2. \A u \in Threads : (pc'[u].at = "goAway") = (pc[u].at = "goAway")
    <3>1. ASSUME NEW u \in Threads, pc[u].at = "goAway" PROVE pc'[u].at = "goAway"
      BY <1>6, <3>1, GoAwayStays
    <3>2. ASSUME NEW u \in Threads, pc'[u].at = "goAway" PROVE pc[u].at = "goAway"
      <4>1. ASSUME NEW flag \in BOOLEAN, CloseBegin(u, flag) PROVE FALSE
        <5>1. goneAway
          BY <1>6, <4>1
        <5>2. PICK c \in {Idle, [Idle EXCEPT !.at = "recv"]} : pc' = [pc EXCEPT ![u] = c]
          BY <4>1, <5>1 DEF CloseBegin, Start
        <5>3. c.at # "goAway"
          BY CallStates
        <5>4. pc'[u] = c
          BY <5>2, CallMoves
        <5> QED
          BY <3>2, <5>3, <5>4
      <4> QED
        BY <3>2, <4>1, CallSteps
    <3> QED
      BY <3>1, <3>2
  <2>3. \A g \in Starters : Ends(g)' = Ends(g)
    BY <2>1, <2>2
  <2> HIDE DEF Ends
  <2> QED
    BY <2>1, <2>2, <2>3 DEF OnceInv
<1> QED
  BY <1>1, <1>2, <1>4, <1>5, <1>6

-----------------------------------------------------------------------------
\* The inductive invariant, when the peer keeps to its own ids and when it need
\* not.
TableInv == TypeOK /\ IdInv /\ ReaderInv /\ SleepersHaveReason
ShutdownInv == TableInv /\ AwayInv /\ FreshInv /\ HangUpInv /\ EndInv

\* A new connection, or one with a single id left.
LEMMA InitTableInv ==
    ASSUME Init
    PROVE  TableInv /\ AwayInv /\ FreshInv /\ HangUpInv /\ EndInv /\ OnceInv
<1> USE ShutdownAssumption DEF Init
<1>1. TypeOK
  BY InitTyped
<1>2. IdInv
  <2>1. \A t \in Threads : pc[t].at = "idle"
    BY CallStates
  <2>2. nextStreamId >= FirstId /\ (nextStreamId - FirstId) % 2 = 0
    BY DEF LastId
  <2> QED
    BY <2>1, <2>2 DEF IdInv, IdsIncrease
<1>3. ReaderInv
  BY DEF ReaderInv
<1>4. SleepersHaveReason
  BY CallStates DEF SleepersHaveReason
<1>5. AwayInv
  BY CallStates DEF AwayInv, NoShutdown
<1>6. FreshInv
  BY DEF FreshInv
<1>7. EndInv
  BY DEF EndInv, NoShutdown
<1>8. OnceInv
  BY CallStates DEF OnceInv, Ends, NoShutdown, Starters
<1>9. HangUpInv
  BY DEF HangUpInv
<1> QED
  BY <1>1, <1>2, <1>3, <1>4, <1>5, <1>6, <1>7, <1>8, <1>9 DEF TableInv

\* Every action keeps the types.
LEMMA TypesKeep ==
    ASSUME TypeOK, IdInv, ReaderInv, ShutdownNext
    PROVE  TypeOK'
BY CallingTyped, ThreadTyped, PeerTyped, ServeTyped, EndingTyped DEF ShutdownNext

\* What is about the stream table holds whatever ids the peer uses.
LEMMA TableKeeps ==
    ASSUME TableInv, [ShutdownNext]_shutdownVars
    PROVE  TableInv'
<1>1. CASE ShutdownNext
  BY <1>1, TypesKeep, IdsKeep, ReaderKeeps, SleepersKeep DEF TableInv
<1>2. CASE UNCHANGED shutdownVars
  <2>1. UNCHANGED <<pc, calls, table, away, settings, serving, ending>>
    BY <1>2 DEF shutdownVars
  <2>2. TypeOK'
    BY <2>1, PartsStay, TypeParts DEF TableInv
  <2>3. IdInv' /\ ReaderInv' /\ SleepersHaveReason'
    BY <2>1 DEF TableInv, IdInv, IdsIncrease, ReaderInv, SleepersHaveReason, table, away, serving, ending
  <2> QED
    BY <2>2, <2>3 DEF TableInv
<1> QED
  BY <1>1, <1>2

\* The end of the connection.
LEMMA ShutdownKeeps ==
    ASSUME PeerIds \cap OwnIds = {}, ShutdownInv, [ShutdownNext]_shutdownVars
    PROVE  ShutdownInv'
<1>0. TableInv'
  BY TableKeeps DEF ShutdownInv
<1>1. CASE ShutdownNext
  BY <1>0, <1>1, AwayKeeps, FreshKeeps, HangUpKeeps, EndKeeps DEF ShutdownInv, TableInv
<1>2. CASE UNCHANGED shutdownVars
  <2>1. UNCHANGED <<pc, table, away, serving, ending>>
    BY <1>2 DEF shutdownVars
  <2>2. AwayInv' /\ FreshInv' /\ HangUpInv' /\ EndInv'
    BY <2>1 DEF ShutdownInv, AwayInv, FreshInv, HangUpInv, EndInv, table, away, serving, ending
  <2> QED
    BY <1>0, <2>2 DEF ShutdownInv
<1> QED
  BY <1>1, <1>2

\* shutdown is called once, whatever ids the peer uses.
LEMMA OnceInvKeeps ==
    ASSUME TableInv, AwayInv, OnceInv, [ShutdownNext]_shutdownVars
    PROVE  AwayInv' /\ OnceInv'
<1>1. CASE ShutdownNext
  BY <1>1, AwayKeeps, OnceKeeps DEF TableInv
<1>2. CASE UNCHANGED shutdownVars
  BY <1>2 DEF shutdownVars, away, ending, AwayInv, OnceInv, Ends
<1> QED
  BY <1>1, <1>2

\* What the invariants are for.
LEMMA EndIsGraceful == ShutdownInv => GracefulEnd
BY DEF ShutdownInv, HangUpInv, EndInv, GracefulEnd

\* The types hold in every state of a connection.
THEOREM TypesHold == Spec => []TypeOK
<1>1. TableInv => TypeOK
  BY DEF TableInv
<1> QED
  BY <1>1, InitTableInv, TableKeeps, PTL DEF Spec

\* connection.go:684: SYN_STREAM frames go out in the order of their ids, each id
\* once, whoever creates streams and whichever writes fail.
THEOREM IdsGoUp == Spec => []IdsIncrease
<1>1. TableInv => IdsIncrease
  BY DEF TableInv, IdInv
<1> QED
  BY <1>1, InitTableInv, TableKeeps, PTL DEF Spec

\* streamCond: no wake-up is lost on FindStream or on the shutdown.
THEOREM NoWakeUpIsLost == Spec => []SleepersHaveReason
<1>1. TableInv => SleepersHaveReason
  BY DEF TableInv
<1> QED
  BY <1>1, InitTableInv, TableKeeps, PTL DEF Spec

\* connection.go:713: the TODO of shutdown is done by goneAway: Close and
\* handleGoAwayFrame start it once between them, however often and from however
\* many goroutines they are called, and shutdownChan is closed once.
THEOREM ShutdownRunsOnce == Spec => []ShutdownOnce
<1>1. Init => TableInv /\ AwayInv /\ OnceInv
  BY InitTableInv
<1>2. TableInv /\ AwayInv /\ OnceInv /\ [ShutdownNext]_shutdownVars => (TableInv /\ AwayInv /\ OnceInv)'
  BY TableKeeps, OnceInvKeeps
<1>3. OnceInv => ShutdownOnce
  BY DEF OnceInv, ShutdownOnce, Ends, Starters
<1> QED
  BY <1>1, <1>2, <1>3, PTL DEF Spec

\* connection.go:743: if the peer uses ids of its own parity, the shutdown closes
\* the network, until its timeout, under no stream that was open when the connection
\* went away, but those that the end of Serve took from the table of an open
\* connection; and then it was the peer that had ended the read loop.
THEOREM ShutdownIsGraceful ==
    ASSUME PeerIds \cap OwnIds = {}
    PROVE  Spec => []GracefulEnd
<1>1. Init => ShutdownInv
  BY InitTableInv DEF ShutdownInv
<1>2. ShutdownInv /\ [ShutdownNext]_shutdownVars => ShutdownInv'
  BY ShutdownKeeps
<1> QED
  BY <1>1, <1>2, EndIsGraceful, PTL DEF Spec
=============================================================================
