----------------------------- MODULE Connection -----------------------------
(***************************************************************************)
(* One Connection: the stream table and its shutdown (Shutdown) together   *)
(* with its pings (Ping).  The two share the goroutines of the application,*)
(* each in one call at a time; the network connection; the frame workers,  *)
(* all at rest before Serve goes on from wg.Wait; and closeChan, which     *)
(* Serve closes.                                                           *)
(***************************************************************************)
EXTENDS Shutdown, FiniteSets

CONSTANTS Handlers, FirstPing, PingWrap, MaxPings   \* of Ping

VARIABLES pingId, pingChans, ping, made, closed, wire, handlers,
          answered, shared, misread, panicked

P == INSTANCE Ping WITH Pingers <- Threads

ASSUME ConnectionAssumption == P!PingAssumption

pings == <<pingId, pingChans, ping, made, closed, wire, handlers,
           answered, shared, misread, panicked>>
connectionVars == <<shutdownVars, pings>>

ConnectionTypeOK == TypeOK /\ P!PingTypeOK

ConnectionInit == Init /\ P!PingInit

-----------------------------------------------------------------------------
\* Bound: MaxCalls calls in all.
MayCall == calls + made + Cardinality({t \in Threads : ping[t].at = "register"}) < MaxCalls

\* A goroutine is in one call at a time.
TableCall(t) ==
    /\ ping[t].at = "idle" /\ MayCall
    /\ Calling(t) /\ UNCHANGED pings

PingCalled(t) ==
    /\ pc[t].at = "idle" /\ MayCall /\ "Ping" \in Calls[t]
    /\ P!PingCall(t) /\ UNCHANGED shutdownVars

\* wg.Wait() returns when no worker is busy.
ServeStep ==
    /\ Serve /\ UNCHANGED pings
    /\ reader.at = "wait" => \A w \in Handlers : handlers[w] = 0

TableThread(t) == Thread(t) /\ UNCHANGED pings
TableWatch == Watch /\ UNCHANGED pings
TableEnding(g) == Ending(g) /\ UNCHANGED pings

\* The peer, the handlers of streams, workers stuck in one.
TableOthers ==
    /\ \/ Peer \/ WorkerFreed
       \/ \E id \in Ids : StreamEnds(id) \/ WorkerSticks(id) \/ DataHandled(id)
    /\ UNCHANGED pings

\* A frame is written on an open connection only.
PingThread(t) ==
    /\ P!PingStep(t) /\ UNCHANGED shutdownVars
    /\ wire' # wire => conn

\* Frames taken before the end of the read loop are handled before wg.Wait().
WorkersRun == reader.at \in {"read", "add", "close", "wait"}
PingHandler(w) ==
    /\ WorkersRun
    /\ P!Handle(w) /\ UNCHANGED shutdownVars

ConnectionNext ==
    \/ \E t \in Threads : TableCall(t) \/ TableThread(t) \/ PingCalled(t) \/ PingThread(t)
    \/ ServeStep \/ TableWatch \/ TableOthers
    \/ \E g \in Starters : TableEnding(g)
    \/ \E w \in Handlers : PingHandler(w)

ConnectionSpec == ConnectionInit /\ [][ConnectionNext]_connectionVars

\* Every goroutine that can run does, and timers fire.  Nothing is asked of the
\* peer, of the application or of the handlers of streams, but a worker that waits
\* for a reader goes on once its stream has left the table and is closed.
ConnectionFairSpec ==
    /\ ConnectionSpec
    /\ \A t \in Threads : WF_connectionVars(TableThread(t) \/ PingThread(t))
    /\ WF_connectionVars(ServeStep) /\ WF_connectionVars(TableWatch)
    /\ WF_connectionVars(\E g \in Starters : TableEnding(g))
    /\ WF_connectionVars((\E id \in unread \ streams : DataHandled(id)) /\ UNCHANGED pings)
    /\ \A w \in Handlers :
          WF_connectionVars(WorkersRun /\ P!HandleClose(w) /\ UNCHANGED shutdownVars)

-----------------------------------------------------------------------------
(* Properties of the pings, see Ping; those of the table are in Shutdown   *)

\* connection.go:634, 638: our pings and the peer's are told apart, nil means that
\* this ping was echoed, and a panic needs a shared id.
PingSound == P!PingSound

\* connection.go:305: a ping that was echoed, or whose connection ended, returns,
\* unless it shared its id.
PingReturns == P!PingReturns
=============================================================================
