------------------------------ MODULE Shutdown ------------------------------
(***************************************************************************)
(* The life of a Connection's stream table and its end: CreateStream and   *)
(* FindStream, Close, CloseWait, Wait, NotifyClose and SetCloseTimeout,    *)
(* called from any number of goroutines; the shutdown goroutine with the   *)
(* one that waits for the table to empty; and Serve as far as they see it. *)
(*                                                                         *)
(* streamCond is a condition variable over the stream table: a goroutine   *)
(* is asleep in its Wait, or runs and looks again.                         *)
(***************************************************************************)
EXTENDS Integers, Sequences, SequencesExt

CONSTANTS
    Threads,      \* goroutines of the application
    serve,        \* the goroutine that runs Serve
    NoOne,        \* holder of a free mutex
    FirstId,      \* first id we hand out: 1 or 2
    FirstPeerId,  \* first id the peer may use: 2 or 1
    PeerIds,      \* ids the peer uses in SYN_STREAM
    DataIds,      \* ids of streams on which the peer sends data or headers
    FindIds,      \* ids FindStream is asked for
    MaxStreamId,  \* the largest stream id, 0x7fffffff in the code
    Calls,        \* what each goroutine calls
    MaxCalls      \* bound: calls the application makes

ASSUME ShutdownAssumption ==
    /\ serve \notin Threads /\ NoOne \notin Threads
    /\ FirstId \in {1, 2} /\ FirstPeerId \in {1, 2}
    /\ MaxStreamId \in Nat /\ MaxStreamId >= FirstId
    /\ PeerIds \subseteq Nat \ {0} /\ FindIds \subseteq Nat
    /\ Calls \in [Threads -> SUBSET STRING] /\ MaxCalls \in Nat

VARIABLES
    pc,             \* each application goroutine: where it is, in which call
    calls,          \* counter for the bound
    streams,        \* ids in s.streams
    nextStreamId,   \* s.nextStreamId
    nextIdLock,     \* who holds s.nextIdLock
    syns,           \* history: ids of the SYN_STREAM frames written
    received,       \* s.receivedStreamId
    goneAway,       \* s.goneAway
    closeTimeout,   \* s.closeTimeout is positive
    goAwayTimeout,  \* s.goAwayTimeout is positive
    lastStreamChan, \* s.lastStreamChan is set
    notice,         \* the stream sent on lastStreamChan: 0 is nil, NoNotice none
    reader,         \* Serve: where it is, with which stream or frame
    stuck,          \* a worker waits for a receiver of ErrReset
    unread,         \* streams with data or headers that the workers have in hand
    closeChan,      \* s.closeChan is closed
    hungUp,         \* history: the peer, by GOAWAY or EOF, ended the read loop
    evicted,        \* history: streams the end of Serve took out of the table, conn open
    shutdown,       \* each goroutine that runs shutdown, by who started it
    hasShutdown,    \* s.hasShutdown
    watcher,        \* the goroutine that closes streamsClosed
    conn,           \* the network connection is open
    shutdownChan,   \* s.shutdownChan is closed
    before,         \* history: the table when goneAway was set
    cut             \* history: what conn was closed under as safe: the table, the evicted

table == <<streams, nextStreamId, nextIdLock, syns>>
away == <<received, goneAway, before>>
settings == <<closeTimeout, goAwayTimeout, lastStreamChan, notice>>
busy == <<stuck, unread>>
hangup == <<hungUp, evicted>>
serving == <<reader, busy, closeChan, hangup>>
ending == <<shutdown, hasShutdown, watcher, conn, shutdownChan, cut>>
shutdownVars == <<pc, calls, table, away, settings, serving, ending>>

Starters == Threads \cup {serve}
OwnIds == {id \in FirstId .. MaxStreamId : (id - FirstId) % 2 = 0}
Ids == PeerIds \cup OwnIds

LastId == IF (MaxStreamId - FirstId) % 2 = 0 THEN MaxStreamId ELSE MaxStreamId - 1

Idle == [at |-> "idle", id |-> 0, timed |-> FALSE]
Call == [at: {"idle", "goAway", "recv", "notify", "create", "write", "find", "asleep"},
         id: FindIds \cup OwnIds \cup {0},
         timed: BOOLEAN]     \* Wait has a timeout; Close is called by CloseWait
NoNotice == -1
NoShutdown == [at |-> "none", timed |-> FALSE]

TypeOK ==
    /\ pc \in [Threads -> Call]
    /\ calls \in Nat
    /\ streams \subseteq Ids
    /\ nextStreamId \in Nat
    /\ nextIdLock \in Threads \cup {NoOne}
    /\ syns \in Seq(OwnIds)
    /\ received \in Nat
    /\ goneAway \in BOOLEAN
    /\ closeTimeout \in BOOLEAN /\ goAwayTimeout \in BOOLEAN
    /\ lastStreamChan \in BOOLEAN
    /\ notice \in OwnIds \cup {0, NoNotice}
    /\ reader \in [at: {"read", "add", "close", "wait", "goAway", "cleanup", "done"},
                   id: Ids \cup {0}, goAway: BOOLEAN]
    /\ stuck \in BOOLEAN /\ unread \subseteq Ids /\ closeChan \in BOOLEAN
    /\ hungUp \in BOOLEAN /\ evicted \subseteq Ids
    /\ shutdown \in [Starters -> [at: {"none", "begin", "select", "forced", "forcedErr", "handOver", "close"},
                                  timed: BOOLEAN]]
    /\ hasShutdown \in BOOLEAN
    /\ watcher \in {"none", "running", "asleep", "done"}
    /\ conn \in BOOLEAN /\ shutdownChan \in BOOLEAN
    /\ before \subseteq Ids /\ cut \subseteq Ids

\* A new connection; or one whose streams have all ended and which has one id
\* left.
Init ==
    /\ pc = [t \in Threads |-> Idle] /\ calls = 0
    /\ streams = {} /\ nextStreamId \in {FirstId, LastId} /\ nextIdLock = NoOne /\ syns = <<>>
    /\ received = FirstPeerId /\ goneAway = FALSE /\ before = {}
    /\ closeTimeout = FALSE /\ goAwayTimeout = FALSE
    /\ lastStreamChan = FALSE /\ notice = NoNotice
    /\ reader = [at |-> "read", id |-> 0, goAway |-> FALSE]
    /\ stuck = FALSE /\ unread = {} /\ closeChan = FALSE
    /\ hungUp = FALSE /\ evicted = {}
    /\ shutdown = [g \in Starters |-> NoShutdown] /\ hasShutdown = FALSE
    /\ watcher = "none" /\ conn = TRUE /\ shutdownChan = FALSE /\ cut = {}

-----------------------------------------------------------------------------
(* streamCond                                                              *)

Goto(t, at) == pc' = [pc EXCEPT ![t].at = at]
Return(f, t) == [f EXCEPT ![t] = Idle]

\* streamCond.Broadcast(): who sleeps in FindStream or in the wait for an empty
\* table runs again.
Awake(f) == [t \in Threads |-> IF f[t].at = "asleep" THEN [f[t] EXCEPT !.at = "find"] ELSE f[t]]

\* Mutant of WakeWatcher: if instead of for around streamCond.Wait().
WakeWatcherUnasked == watcher' = IF watcher = "asleep" THEN "done" ELSE watcher
WakeWatcher == watcher' = IF watcher = "asleep" THEN "running" ELSE watcher

\* Mutant of AddStream: nobody is told.
AddStreamSilent(id, f) ==
    /\ streams' = streams \cup {id}
    /\ pc' = f /\ UNCHANGED watcher

AddStream(id, f) ==
    /\ streams' = streams \cup {id}
    /\ pc' = Awake(f) /\ WakeWatcher

\* removeStream for one id; the end of Serve for all.
RemoveStreams(ids) ==
    /\ streams' = streams \ ids
    /\ pc' = Awake(pc) /\ WakeWatcher

-----------------------------------------------------------------------------
(* CreateStream and FindStream                                             *)

Start(t, name, call) ==
    /\ pc[t].at = "idle" /\ name \in Calls[t] /\ calls < MaxCalls
    /\ calls' = calls + 1
    /\ pc' = [pc EXCEPT ![t] = call]

CreateCall(t) ==
    /\ Start(t, "CreateStream", [Idle EXCEPT !.at = "create"])
    /\ UNCHANGED <<table, away, settings, serving, ending>>

\* Mutant of NoIdLeft: one id too many.
NoIdLeftLate == nextStreamId > MaxStreamId + 2

\* getNextStreamId: 0 once the ids are used up.
NoIdLeft == nextStreamId > MaxStreamId

CreateRefused(t) ==
    /\ pc[t].at = "create" /\ nextIdLock = NoOne /\ NoIdLeft
    /\ pc' = Return(pc, t)
    /\ UNCHANGED <<calls, table, away, settings, serving, ending>>

\* Mutant of Create: the lock covers the id only.
CreateUnlocked(t) ==
    /\ pc[t].at = "create" /\ nextIdLock = NoOne /\ ~NoIdLeft
    /\ nextStreamId' = nextStreamId + 2
    /\ AddStream(nextStreamId, [pc EXCEPT ![t].at = "write", ![t].id = nextStreamId])
    /\ UNCHANGED <<calls, nextIdLock, syns, away, settings, serving,
                   shutdown, hasShutdown, conn, shutdownChan, cut>>

\* The id is taken and the stream added, with nextIdLock held.
Create(t) ==
    /\ pc[t].at = "create" /\ nextIdLock = NoOne /\ ~NoIdLeft
    /\ nextIdLock' = t
    /\ nextStreamId' = nextStreamId + 2
    /\ AddStream(nextStreamId, [pc EXCEPT ![t].at = "write", ![t].id = nextStreamId])
    /\ UNCHANGED <<calls, syns, away, settings, serving,
                   shutdown, hasShutdown, conn, shutdownChan, cut>>

\* sendStream, and nextIdLock is released.  When the write fails the stream
\* stays in the table.
CreateWrite(t) ==
    /\ pc[t].at = "write"
    /\ syns' \in {syns} \cup (IF conn THEN {Append(syns, pc[t].id)} ELSE {})
    /\ nextIdLock' = IF nextIdLock = t THEN NoOne ELSE nextIdLock
    /\ pc' = Return(pc, t)
    /\ UNCHANGED <<calls, streams, nextStreamId, away, settings, serving, ending>>

FindCall(t, id) ==
    /\ Start(t, "FindStream", [Idle EXCEPT !.at = "find", !.id = id])
    /\ UNCHANGED <<table, away, settings, serving, ending>>

\* Under streamCond.L: found, given up, or asleep until the next Broadcast.
Find(t) ==
    /\ pc[t].at = "find"
    /\ IF pc[t].id \notin streams /\ pc[t].id >= received
       THEN Goto(t, "asleep")
       ELSE pc' = Return(pc, t)
    /\ UNCHANGED <<calls, table, away, settings, serving, ending>>

\* A handler, Reset or Close takes a stream out of the table.
StreamEnds(id) ==
    /\ id \in streams
    /\ RemoveStreams({id})
    /\ UNCHANGED <<calls, nextStreamId, nextIdLock, syns, away, settings, serving,
                   shutdown, hasShutdown, conn, shutdownChan, cut>>

-----------------------------------------------------------------------------
(* Close, CloseWait, Wait, NotifyClose, SetCloseTimeout                    *)

\* go s.shutdown(timeout)
StartShutdown(g, timed) ==
    shutdown' = [shutdown EXCEPT ![g] = [at |-> "begin", timed |-> timed]]

\* Close up to the release of receiveIdLock.  CloseWait goes on to receive from
\* shutdownChan.
CloseBegin(t, wait) ==
    /\ Start(t, IF wait THEN "CloseWait" ELSE "Close",
                IF ~goneAway THEN [Idle EXCEPT !.at = "goAway", !.timed = wait]
                ELSE IF wait THEN [Idle EXCEPT !.at = "recv"] ELSE Idle)
    /\ goneAway' = TRUE
    /\ before' = IF goneAway THEN before ELSE streams
    /\ UNCHANGED <<received, table, settings, serving, ending>>

AfterGoAway(t, err) == pc' = [pc EXCEPT ![t] =
    IF ~err /\ pc[t].timed THEN [Idle EXCEPT !.at = "recv"] ELSE Idle]

\* Mutant of CloseWrite: an error ends Close at once.
CloseWriteGivesUp(t) ==
    /\ pc[t].at = "goAway"
    /\ \E err \in {TRUE, ~conn} :
          /\ AfterGoAway(t, err)
          /\ IF err THEN UNCHANGED shutdown ELSE StartShutdown(t, closeTimeout)
    /\ UNCHANGED <<calls, table, away, settings, serving,
                   hasShutdown, watcher, conn, shutdownChan, cut>>

\* The GOAWAY is written, or that fails and CloseWait does not wait; the
\* shutdown is started in either case.
CloseWrite(t) ==
    /\ pc[t].at = "goAway"
    /\ \E err \in {TRUE, ~conn} : AfterGoAway(t, err)
    /\ StartShutdown(t, closeTimeout)
    /\ UNCHANGED <<calls, table, away, settings, serving,
                   hasShutdown, watcher, conn, shutdownChan, cut>>

WaitCall(t, timed) ==
    /\ Start(t, "Wait", [Idle EXCEPT !.at = "recv", !.timed = timed])
    /\ UNCHANGED <<table, away, settings, serving, ending>>

\* shutdownChan is closed: nil is returned.
RecvClosed(t) ==
    /\ pc[t].at = "recv" /\ shutdownChan
    /\ pc' = Return(pc, t)
    /\ UNCHANGED <<calls, table, away, settings, serving, ending>>

\* ErrTimeout
WaitExpires(t) ==
    /\ pc[t].at = "recv" /\ pc[t].timed
    /\ pc' = Return(pc, t)
    /\ UNCHANGED <<calls, table, away, settings, serving, ending>>

\* The two assignments of NotifyClose, without a lock.
NotifyTimeout(t, timed) ==
    /\ Start(t, "NotifyClose", [Idle EXCEPT !.at = "notify"])
    /\ goAwayTimeout' = timed
    /\ UNCHANGED <<table, away, closeTimeout, lastStreamChan, notice, serving, ending>>

NotifyChan(t) ==
    /\ pc[t].at = "notify"
    /\ lastStreamChan' = TRUE
    /\ pc' = Return(pc, t)
    /\ UNCHANGED <<calls, table, away, closeTimeout, goAwayTimeout, notice, serving, ending>>

SetCloseTimeout(t, timed) ==
    /\ Start(t, "SetCloseTimeout", Idle)
    /\ closeTimeout' = timed
    /\ UNCHANGED <<table, away, goAwayTimeout, lastStreamChan, notice, serving, ending>>

-----------------------------------------------------------------------------
(* Serve: what its read loop, workers and end do to the table              *)

ReaderGoto(at) == reader' = [reader EXCEPT !.at = at]

\* checkStreamFrame lets a stream in; one after GOAWAY or with a bad id changes
\* nothing here.
ReadSyn(id) ==
    /\ reader.at = "read" /\ conn
    /\ ~goneAway /\ id <= MaxStreamId /\ id >= received
    /\ received' = id + 2
    /\ reader' = [reader EXCEPT !.at = "add", !.id = id]
    /\ UNCHANGED <<pc, calls, table, goneAway, before, settings, busy, closeChan, hangup, ending>>

\* addStreamFrame
AddPeerStream ==
    /\ reader.at = "add"
    /\ AddStream(reader.id, pc)
    /\ reader' = [reader EXCEPT !.at = "read", !.id = 0]
    /\ UNCHANGED <<calls, nextStreamId, nextIdLock, syns, away, settings, busy, closeChan, hangup,
                   shutdown, hasShutdown, conn, shutdownChan, cut>>

\* Data or headers of a stream: their worker blocks until somebody reads them.
ReadData(id) ==
    /\ reader.at = "read" /\ conn
    /\ id \in streams
    /\ unread' = unread \cup {id}
    /\ UNCHANGED <<pc, calls, table, away, settings, reader, stuck, closeChan, hangup, ending>>

\* A GOAWAY that names one of our streams, or none, ends the read loop.
ReadGoAway(id) ==
    /\ reader.at = "read" /\ conn
    /\ reader' = [at |-> "close", id |-> id, goAway |-> TRUE]
    /\ hungUp' = TRUE
    /\ UNCHANGED <<pc, calls, table, away, settings, busy, closeChan, evicted, ending>>

\* The peer hangs up; at a malformed frame we close the network connection.
ReadError ==
    /\ reader.at = "read" /\ conn
    /\ ReaderGoto("close")
    /\ conn' \in BOOLEAN
    /\ hungUp' = conn'
    /\ UNCHANGED <<pc, calls, table, away, settings, busy, closeChan, evicted,
                   shutdown, hasShutdown, watcher, shutdownChan, cut>>

\* Our own conn.Close() ends the read loop.
ReadClosed ==
    /\ reader.at = "read" /\ ~conn
    /\ ReaderGoto("close")
    /\ UNCHANGED <<pc, calls, table, away, settings, busy, closeChan, hangup, ending>>

\* A worker in handleResetFrame has removed a stream without a reply and hands
\* ErrReset to whoever calls Wait on it.  It gets there after the stream's data.
WorkerSticks(id) ==
    /\ reader.at \in {"read", "add", "close", "wait"} /\ ~stuck
    /\ id \in streams \ unread
    /\ stuck' = TRUE
    /\ RemoveStreams({id})
    /\ UNCHANGED <<calls, nextStreamId, nextIdLock, syns, away, settings, reader, unread,
                   closeChan, hangup, shutdown, hasShutdown, conn, shutdownChan, cut>>

WorkerFreed ==
    /\ stuck
    /\ stuck' = FALSE
    /\ UNCHANGED <<pc, calls, table, away, settings, reader, unread, closeChan, hangup, ending>>

\* The data is read; or the stream has left the table, and whoever takes it out
\* closes its closeChan.
DataHandled(id) ==
    /\ id \in unread
    /\ unread' = unread \ {id}
    /\ UNCHANGED <<pc, calls, table, away, settings, reader, stuck, closeChan, hangup, ending>>

CloseChan ==
    /\ reader.at = "close"
    /\ closeChan' = TRUE
    /\ ReaderGoto("wait")
    /\ UNCHANGED <<pc, calls, table, away, settings, busy, hangup, ending>>

\* wg.Wait() returns.
AwaitWorkers ==
    /\ reader.at = "wait" /\ ~stuck /\ unread = {}
    /\ ReaderGoto(IF reader.goAway THEN "goAway" ELSE "cleanup")
    /\ UNCHANGED <<pc, calls, table, away, settings, busy, closeChan, hangup, ending>>

\* handleGoAwayFrame.  Nothing that happens between its test-and-set of goneAway
\* and its end makes a difference.
HandleGoAway ==
    /\ reader.at = "goAway"
    /\ IF goneAway
       THEN UNCHANGED <<goneAway, before, notice, shutdown>>
       ELSE /\ goneAway' = TRUE /\ before' = streams
            /\ notice' = IF ~lastStreamChan THEN NoNotice
                         ELSE IF reader.id \in streams THEN reader.id ELSE 0
            /\ StartShutdown(serve, goAwayTimeout)
    /\ reader' = [at |-> "cleanup", id |-> 0, goAway |-> FALSE]
    /\ UNCHANGED <<pc, calls, table, received, closeTimeout, goAwayTimeout, lastStreamChan,
                   busy, closeChan, hangup, hasShutdown, watcher, conn, shutdownChan, cut>>

Cleanup ==
    /\ reader.at = "cleanup"
    /\ RemoveStreams(streams)
    /\ evicted' = IF conn THEN streams ELSE {}
    /\ ReaderGoto("done")
    /\ UNCHANGED <<calls, nextStreamId, nextIdLock, syns, away, settings, busy, closeChan, hungUp,
                   shutdown, hasShutdown, conn, shutdownChan, cut>>

-----------------------------------------------------------------------------
(* shutdown                                                                *)

ShutdownGoto(g, at) == shutdown' = [shutdown EXCEPT ![g].at = at]

\* Only the first caller goes on; it starts the goroutine that waits for an
\* empty table.
ShutdownBegin(g) ==
    /\ shutdown[g].at = "begin"
    /\ shutdown' = [shutdown EXCEPT ![g] = IF hasShutdown THEN NoShutdown ELSE [@ EXCEPT !.at = "select"]]
    /\ hasShutdown' = TRUE
    /\ watcher' = IF hasShutdown THEN watcher ELSE "running"
    /\ UNCHANGED <<pc, calls, table, away, settings, serving, conn, shutdownChan, cut>>

\* Wait on streamCond while the table is not empty, then close streamsClosed.
Watch ==
    /\ watcher = "running"
    /\ watcher' = IF streams = {} THEN "done" ELSE "asleep"
    /\ UNCHANGED <<pc, calls, table, away, settings, serving,
                   shutdown, hasShutdown, conn, shutdownChan, cut>>

\* err = s.conn.Close(): it fails if the connection was closed before, and may.
CloseConn(g, ifErr, ifNil) ==
    /\ conn' = FALSE
    /\ \E err \in {TRUE, ~conn} :
          shutdown' = [shutdown EXCEPT ![g] = [NoShutdown EXCEPT !.at = IF err THEN ifErr ELSE ifNil]]

\* streamsClosed is closed: no active streams, close should be safe.
ShutdownClose(g) ==
    /\ shutdown[g].at = "select" /\ watcher = "done"
    /\ CloseConn(g, "handOver", "close")
    /\ cut' = IF conn THEN streams \cup evicted ELSE cut
    /\ UNCHANGED <<pc, calls, table, away, settings, serving, hasShutdown, watcher, shutdownChan>>

\* The timeout: an ungraceful close.
ShutdownForce(g) ==
    /\ shutdown[g].at = "select" /\ shutdown[g].timed
    /\ CloseConn(g, "forcedErr", "forced")
    /\ UNCHANGED <<pc, calls, table, away, settings, serving, hasShutdown, watcher,
                   shutdownChan, cut>>

\* Cleanup, set off by the close, empties the table.
ShutdownForced(g) ==
    /\ shutdown[g].at \in {"forced", "forcedErr"} /\ watcher = "done"
    /\ ShutdownGoto(g, IF shutdown[g].at = "forcedErr" THEN "handOver" ELSE "close")
    /\ UNCHANGED <<pc, calls, table, away, settings, serving, hasShutdown, watcher, conn,
                   shutdownChan, cut>>

\* shutdownChan <- err, to a goroutine in CloseWait or Wait.
HandOver(g, t) ==
    /\ shutdown[g].at = "handOver" /\ pc[t].at = "recv"
    /\ pc' = Return(pc, t)
    /\ ShutdownGoto(g, "close")
    /\ UNCHANGED <<calls, table, away, settings, serving, hasShutdown, watcher, conn,
                   shutdownChan, cut>>

\* Nobody asks for the error within the time given.
HandOverExpires(g) ==
    /\ shutdown[g].at = "handOver"
    /\ ShutdownGoto(g, "close")
    /\ UNCHANGED <<pc, calls, table, away, settings, serving, hasShutdown, watcher, conn,
                   shutdownChan, cut>>

CloseShutdownChan(g) ==
    /\ shutdown[g].at = "close"
    /\ shutdownChan' = TRUE
    /\ shutdown' = [shutdown EXCEPT ![g] = NoShutdown]
    /\ UNCHANGED <<pc, calls, table, away, settings, serving, hasShutdown, watcher, conn, cut>>

-----------------------------------------------------------------------------
Calling(t) ==
    \/ CreateCall(t)
    \/ \E id \in FindIds : FindCall(t, id)
    \/ \E flag \in BOOLEAN :
          CloseBegin(t, flag) \/ WaitCall(t, flag) \/ NotifyTimeout(t, flag) \/ SetCloseTimeout(t, flag)

Thread(t) ==
    \/ CreateRefused(t) \/ Create(t) \/ CreateWrite(t) \/ Find(t) \/ CloseWrite(t)
    \/ RecvClosed(t) \/ WaitExpires(t) \/ NotifyChan(t)

Peer ==
    \/ \E id \in PeerIds : ReadSyn(id)
    \/ \E id \in Ids \cap DataIds : ReadData(id)
    \/ \E id \in ToSet(syns) \cup {0} : ReadGoAway(id)
    \/ ReadError

Serve == AddPeerStream \/ ReadClosed \/ CloseChan \/ AwaitWorkers \/ HandleGoAway \/ Cleanup

Ending(g) ==
    \/ ShutdownBegin(g) \/ ShutdownClose(g) \/ ShutdownForce(g) \/ ShutdownForced(g)
    \/ \E t \in Threads : HandOver(g, t)
    \/ HandOverExpires(g) \/ CloseShutdownChan(g)

ShutdownNext ==
    \/ \E t \in Threads : Calling(t) \/ Thread(t)
    \/ Peer \/ Serve \/ Watch
    \/ \E id \in Ids : StreamEnds(id) \/ WorkerSticks(id) \/ DataHandled(id)
    \/ WorkerFreed
    \/ \E g \in Starters : Ending(g)

Spec == Init /\ [][ShutdownNext]_shutdownVars

-----------------------------------------------------------------------------
(* Properties                                                              *)

\* connection.go:743: until its timeout the shutdown does not close the network
\* under a stream that was open when the connection went away, unless the end of
\* Serve has evicted it from the table, after the peer sent GOAWAY or hung up: then
\* it does so at once, whatever the timeout.  Whoever waits for the end of the
\* shutdown finds these streams gone and the network closed.
GracefulEnd ==
    /\ cut \cap before \subseteq evicted
    /\ cut \cap before # {} => hungUp
    /\ shutdownChan => streams \cap before = {} /\ ~conn

\* connection.go:684: SYN_STREAM frames go out in the order of their ids, each id
\* once, however many goroutines create streams and writes fail.
IdsIncrease == \A i, j \in 1 .. Len(syns) : i < j => syns[i] < syns[j]

\* connection.go:713, 771: shutdown is not called a second time, nobody sends on
\* shutdownChan or closes it once it is closed, and a connection that has gone
\* away always has one goroutine on its way to close it.
ShutdownOnce ==
    /\ \A g \in Starters : shutdown[g].at # "none" =>
          /\ ~shutdownChan
          /\ shutdown[g].at = "begin" => ~hasShutdown
          /\ \A h \in Starters \ {g} : shutdown[h].at = "none"
    /\ goneAway => \/ shutdownChan
                   \/ \E g \in Starters : shutdown[g].at # "none"
                   \/ \E t \in Threads : pc[t].at = "goAway"

\* Nobody sleeps on streamCond beside what it waits for: FindStream beside its
\* stream or an id that has passed (the read loop is about to tell), the
\* shutdown beside an empty table.
SleepersHaveReason ==
    /\ \A t \in Threads : pc[t].at = "asleep" =>
          pc[t].id \notin streams /\ (pc[t].id >= received \/ reader.at = "add")
    /\ watcher = "asleep" => streams # {}

\* There is no timeout, or the streams were created after the end of Serve.
LeftAlone == reader.at = "done" \/ (conn /\ ~\E g \in Starters : shutdown[g].timed)

\* CloseWait and Wait return, unless the connection never goes away, streams stay
\* in the table that nothing clears, or wg.Wait() never returns and so nothing
\* clears it, in spite of a timeout: a worker hands ErrReset to nobody, or data
\* that nobody reads.
WaitersReturn ==
    \A t \in Threads : <>[](pc[t].at = "recv") =>
        <>[](~goneAway \/ stuck \/ unread \cap streams # {} \/ (streams # {} /\ LeftAlone))
=============================================================================
