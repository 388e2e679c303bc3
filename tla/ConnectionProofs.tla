-------------------------- MODULE ConnectionProofs --------------------------
(***************************************************************************)
(* Proofs about Connection: the stream table and the pings run beside each *)
(* other in any number of goroutines, and each keeps what it promises      *)
(* alone.                                                                  *)
(***************************************************************************)
EXTENDS Connection, ShutdownProofs

PP == INSTANCE PingProofs WITH Pingers <- Threads

\* A step of the composition is one of the table, or leaves it alone.
LEMMA TableSteps ==
    ASSUME [ConnectionNext]_connectionVars
    PROVE  [ShutdownNext]_shutdownVars
<1>1. ASSUME NEW t \in Threads, TableCall(t) \/ TableThread(t) PROVE ShutdownNext
  BY <1>1 DEF TableCall, TableThread, ShutdownNext
<1>2. ASSUME NEW t \in Threads, PingCalled(t) \/ PingThread(t) PROVE UNCHANGED shutdownVars
  BY <1>2 DEF PingCalled, PingThread
<1>3. ServeStep \/ TableWatch \/ TableOthers => ShutdownNext
  BY DEF ServeStep, TableWatch, TableOthers, ShutdownNext
<1>4. ASSUME NEW g \in Starters, TableEnding(g) PROVE ShutdownNext
  BY <1>4 DEF TableEnding, ShutdownNext
<1>5. ASSUME NEW w \in Handlers, PingHandler(w) PROVE UNCHANGED shutdownVars
  BY <1>5 DEF PingHandler
<1>6. UNCHANGED connectionVars => UNCHANGED shutdownVars
  BY DEF connectionVars
<1> QED
  BY <1>1, <1>2, <1>3, <1>4, <1>5, <1>6 DEF ConnectionNext

-----------------------------------------------------------------------------
(* The pings                                                               *)

\* closeChan is closed by CloseChan, and stays so.
LEMMA ClosesOnce ==
    ASSUME ShutdownNext
    PROVE  UNCHANGED closeChan \/ closeChan' = TRUE
<1> USE DEF serving
<1>1. ASSUME NEW t \in Threads, Calling(t) PROVE UNCHANGED closeChan
  BY <1>1 DEF Calling, CreateCall, FindCall, CloseBegin, WaitCall, NotifyTimeout, SetCloseTimeout
<1>2. ASSUME NEW t \in Threads, Thread(t) PROVE UNCHANGED closeChan
  BY <1>2 DEF Thread, CreateRefused, Create, CreateWrite, Find, CloseWrite, RecvClosed, WaitExpires,
     NotifyChan
<1>3. Peer => UNCHANGED closeChan
  BY DEF Peer, ReadSyn, ReadData, ReadGoAway, ReadError
<1>4. Serve => UNCHANGED closeChan \/ closeChan' = TRUE
  BY DEF Serve, AddPeerStream, ReadClosed, CloseChan, AwaitWorkers, HandleGoAway, Cleanup
<1>5. ASSUME NEW g \in Starters, Ending(g) PROVE UNCHANGED closeChan
  BY <1>5 DEF Ending, ShutdownBegin, ShutdownClose, ShutdownForce, ShutdownForced,
     HandOver, HandOverExpires, CloseShutdownChan
<1>6. Watch \/ WorkerFreed \/ (\E id \in Ids : StreamEnds(id) \/ WorkerSticks(id) \/ DataHandled(id))
      => UNCHANGED closeChan
  BY DEF Watch, WorkerFreed, StreamEnds, WorkerSticks, DataHandled
<1> QED
  BY <1>1, <1>2, <1>3, <1>4, <1>5, <1>6 DEF ShutdownNext

\* P and PP are two instances of Ping: what Connection calls P!X is PP!X to its
\* proofs.  The assumption on the constants is the same.
LEMMA SamePingAssumption == P!PingAssumption => PP!PingAssumption
BY DEF P!PingAssumption, PP!PingAssumption

\* The pings of a new connection are the same.
LEMMA SameInit == P!PingInit => PP!PingInit
BY DEF P!PingInit, PP!PingInit, P!Quiet, PP!Quiet,
       P!PingIds, PP!PingIds

\* A call of Ping is the same.
LEMMA SameCall ==
    ASSUME NEW t \in Threads, P!PingCall(t)
    PROVE  PP!PingCall(t)
BY DEF P!PingCall, PP!PingCall, P!Quiet, PP!Quiet, P!handling, PP!handling

\* A step of a goroutine in Ping is the same.
LEMMA SameStep ==
    ASSUME NEW t \in Threads, P!PingStep(t)
    PROVE  PP!PingStep(t)
<1> USE DEF P!handling, PP!handling, P!PingGoto, PP!PingGoto, P!Quiet, PP!Quiet
<1>1. P!Register(t) => PP!Register(t)
  BY DEF P!Register, PP!Register, P!SameId, PP!SameId, P!NextPingId, PP!NextPingId
<1>2. P!WritePing(t) => PP!WritePing(t)
  BY DEF P!WritePing, PP!WritePing
<1>3. P!PingAborted(t) => PP!PingAborted(t)
  BY DEF P!PingAborted, PP!PingAborted
<1>4. P!PingAnswered(t) => PP!PingAnswered(t)
  BY DEF P!PingAnswered, PP!PingAnswered
<1>5. P!PingDelete(t) => PP!PingDelete(t)
  BY DEF P!PingDelete, PP!PingDelete
<1> QED
  BY <1>1, <1>2, <1>3, <1>4, <1>5 DEF P!PingStep, PP!PingStep

\* A step of a worker in handlePingFrame is the same.
LEMMA SameHandle ==
    ASSUME NEW w \in Handlers, P!Handle(w)
    PROVE  PP!Handle(w)
<1> USE DEF P!calling, PP!calling, P!IsEcho, PP!IsEcho
<1>1. P!HandleEcho(w) => PP!HandleEcho(w)
  BY DEF P!HandleEcho, PP!HandleEcho
<1>2. P!HandleClose(w) => PP!HandleClose(w)
  BY DEF P!HandleClose, PP!HandleClose
<1>3. \A id \in P!PingIds : P!HandlePeerPing(w, id) => id \in PP!PingIds /\ PP!HandlePeerPing(w, id)
  BY DEF P!HandlePeerPing, PP!HandlePeerPing, P!PingIds, PP!PingIds
<1> QED
  BY <1>1, <1>2, <1>3 DEF P!Handle, PP!Handle

\* What is promised of the pings is the same.
LEMMA SameSound == PP!PingTypeOK /\ PP!PingSound => P!PingTypeOK /\ P!PingSound
BY DEF P!PingTypeOK, PP!PingTypeOK, P!PingIds, PP!PingIds, P!PingSound, PP!PingSound,
       P!ParityTells, PP!ParityTells, P!NilMeansEchoed, PP!NilMeansEchoed,
       P!PanicsOnlyIfShared, PP!PanicsOnlyIfShared

\* To the pings a step of the table is one of their environment.
LEMMA PingSteps ==
    ASSUME [ConnectionNext]_connectionVars
    PROVE  [PP!PingNext]_<<PP!pingVars, closeChan>>
<1>1. ASSUME ShutdownNext, UNCHANGED pings PROVE [PP!PingNext]_<<PP!pingVars, closeChan>>
  <2>1. UNCHANGED PP!pingVars
    BY <1>1 DEF PP!pingVars, PP!calling, PP!handling, pings
  <2>2. CASE UNCHANGED closeChan
    BY <2>1, <2>2
  <2>3. CASE closeChan' = TRUE
    <3>1. PP!ServeEnds
      BY <2>1, <2>3 DEF PP!ServeEnds
    <3> QED
      BY <3>1 DEF PP!PingNext
  <2> QED
    BY <1>1, <2>2, <2>3, ClosesOnce
<1>2. ASSUME NEW t \in Threads, TableCall(t) \/ TableThread(t) PROVE ShutdownNext /\ UNCHANGED pings
  BY <1>2 DEF TableCall, TableThread, ShutdownNext
<1>3. ASSUME NEW t \in Threads, PingCalled(t) PROVE PP!PingNext
  BY <1>3, SameCall DEF PingCalled, PP!PingNext
<1>4. ASSUME NEW t \in Threads, PingThread(t) PROVE PP!PingNext
  BY <1>4, SameStep DEF PingThread, PP!PingNext
<1>5. ServeStep \/ TableWatch \/ TableOthers => ShutdownNext /\ UNCHANGED pings
  BY DEF ServeStep, TableWatch, TableOthers, ShutdownNext
<1>6. ASSUME NEW g \in Starters, TableEnding(g) PROVE ShutdownNext /\ UNCHANGED pings
  BY <1>6 DEF TableEnding, ShutdownNext
<1>7. ASSUME NEW w \in Handlers, PingHandler(w) PROVE PP!PingNext
  BY <1>7, SameHandle DEF PingHandler, PP!PingNext
<1>8. UNCHANGED connectionVars => UNCHANGED <<PP!pingVars, closeChan>>
  BY DEF connectionVars, shutdownVars, serving, pings, PP!pingVars, PP!calling, PP!handling
<1>9. CASE UNCHANGED connectionVars
  BY <1>8, <1>9
<1>10. CASE ConnectionNext
  BY <1>1, <1>2, <1>3, <1>4, <1>5, <1>6, <1>7, <1>10 DEF ConnectionNext
<1> QED
  BY <1>9, <1>10

-----------------------------------------------------------------------------
\* A connection with pings does with its stream table what one without does: all
\* that is proved of Shutdown holds of it.
THEOREM ConnectionImplementsShutdown == ConnectionSpec => Spec
<1>1. ConnectionInit => Init
  BY DEF ConnectionInit
<1>2. [ConnectionNext]_connectionVars => [ShutdownNext]_shutdownVars
  BY TableSteps
<1> QED
  BY <1>1, <1>2, PTL DEF ConnectionSpec, Spec

\* connection.go:634, 638: in a whole connection, too, our pings and the peer's are
\* told apart, nil means that this ping was echoed, and a panic needs a shared id.
THEOREM ConnectionPingsAreSound == ConnectionSpec => []PingSound
<1>1. ConnectionInit => PP!PingInv
  BY ConnectionAssumption, SamePingAssumption, SameInit, PP!InitPingInv DEF ConnectionInit, Init
<1>2. PP!PingInv /\ [ConnectionNext]_connectionVars => PP!PingInv'
  BY ConnectionAssumption, SamePingAssumption, PingSteps, PP!PingNextKeeps
<1>3. PP!PingInv => PingSound
  BY SameSound, PP!PingInvSound DEF PingSound
<1> QED
  BY <1>1, <1>2, <1>3, PTL DEF ConnectionSpec

\* The types of both hold.
THEOREM ConnectionTypesHold == ConnectionSpec => []ConnectionTypeOK
<1>1. ConnectionInit => PP!PingInv
  BY ConnectionAssumption, SamePingAssumption, SameInit, PP!InitPingInv DEF ConnectionInit, Init
<1>2. PP!PingInv /\ [ConnectionNext]_connectionVars => PP!PingInv'
  BY ConnectionAssumption, SamePingAssumption, PingSteps, PP!PingNextKeeps
<1>3. TypeOK /\ PP!PingInv => ConnectionTypeOK
  BY SameSound, PP!PingInvSound DEF ConnectionTypeOK
<1> QED
  BY <1>1, <1>2, <1>3, ConnectionImplementsShutdown, TypesHold, PTL DEF ConnectionSpec

\* connection.go:684: the pings do not disturb the stream table: SYN_STREAM frames
\* go out in the order of their ids, each id once.
THEOREM ConnectionIdsGoUp == ConnectionSpec => []IdsIncrease
BY ConnectionImplementsShutdown, IdsGoUp, PTL

\* connection.go:991: with pings on the connection, too, nobody sleeps on streamCond
\* beside the stream, or the empty table, that it waits for.
THEOREM ConnectionNoWakeUpLost == ConnectionSpec => []SleepersHaveReason
BY ConnectionImplementsShutdown, NoWakeUpIsLost, PTL

\* connection.go:713, 771: a whole connection, too, is shut down by one goroutine,
\* which closes shutdownChan once.
THEOREM ConnectionShutsDownOnce == ConnectionSpec => []ShutdownOnce
BY ConnectionImplementsShutdown, ShutdownRunsOnce, PTL

\* connection.go:743: with pings on the connection, too, the shutdown closes the
\* network, until its timeout, under no stream that was open when the connection went
\* away, but those that Serve, ended by the peer, had evicted.
THEOREM ConnectionEndsGracefully ==
    ASSUME PeerIds \cap OwnIds = {}
    PROVE  ConnectionSpec => []GracefulEnd
BY ConnectionImplementsShutdown, ShutdownIsGraceful, PTL
=============================================================================
