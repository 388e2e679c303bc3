-------------------------------- MODULE Ping --------------------------------
(***************************************************************************)
(* Connection.Ping and handlePingFrame: any number of goroutines ping, the *)
(* frame workers handle the peer's echoes and its own pings.               *)
(*                                                                         *)
(* A channel made by Ping is a number.  The peer echoes a ping at most     *)
(* once, as handlePingFrame does.                                          *)
(***************************************************************************)
EXTENDS Naturals

CONSTANTS
    Pingers,    \* goroutines that call Ping
    Handlers,   \* frame workers
    FirstPing,  \* pingId of a new connection: 1 or 2
    PingWrap,   \* 0x7ffffffe in the code
    MaxPings    \* bound: channels made before the last calls of Ping

VARIABLES
    pingId,     \* s.pingId
    pingChans,  \* s.pingChans, 0 where there is no entry
    ping,       \* each pinger: where it is, its id and its channel
    made,       \* number of channels made
    closed,     \* channels that are closed
    wire,       \* pings written and not yet echoed
    handlers,   \* each worker: the channel it is going to close, or 0
    closeChan,  \* s.closeChan is closed
    answered,   \* history: channels whose own ping was echoed
    shared,     \* history: channels of pings whose id was in use
    misread,    \* history: an echo was taken for a ping of the peer or vice versa
    panicked    \* history: a closed channel was closed

calling == <<pingId, pingChans, ping, made, shared>>
handling == <<closed, handlers, answered, misread, panicked>>
pingVars == <<calling, wire, handling>>

PingIds == 1 .. PingWrap + 2

\* 0x7ffffffe is even.
PingAssumption ==
    /\ FirstPing \in {1, 2} /\ PingWrap \in Nat /\ PingWrap >= 2
    /\ PingWrap % 2 = 0

PingTypeOK ==
    /\ pingId \in PingIds
    /\ pingChans \in [PingIds -> Nat]
    /\ ping \in [Pingers -> [at: {"idle", "register", "write", "wait", "delete"},
                             id: PingIds, chan: Nat, ok: BOOLEAN]]
    /\ made \in Nat
    /\ closed \subseteq Nat
    /\ wire \subseteq [id: PingIds, chan: Nat]
    /\ handlers \in [Handlers -> Nat]
    /\ closeChan \in BOOLEAN
    /\ answered \subseteq Nat /\ shared \subseteq Nat
    /\ misread \in BOOLEAN /\ panicked \in BOOLEAN

Quiet == [at |-> "idle", id |-> FirstPing, chan |-> 0, ok |-> FALSE]

PingInit ==
    /\ pingId = FirstPing
    /\ pingChans = [id \in PingIds |-> 0]
    /\ ping = [t \in Pingers |-> Quiet]
    /\ made = 0 /\ closed = {} /\ wire = {}
    /\ handlers = [w \in Handlers |-> 0]
    /\ answered = {} /\ shared = {}
    /\ misread = FALSE /\ panicked = FALSE

-----------------------------------------------------------------------------
(* Ping                                                                    *)

PingGoto(t, at) == ping' = [ping EXCEPT ![t].at = at]

\* pid := s.pingId, without pingLock.
PingCall(t) ==
    /\ ping[t].at = "idle" /\ made < MaxPings
    /\ ping' = [ping EXCEPT ![t] = [Quiet EXCEPT !.at = "register", !.id = pingId]]
    /\ UNCHANGED <<pingId, pingChans, made, shared, wire, handling, closeChan>>

\* Mutant of NextPingId: it wraps by an odd number.
NextPingIdOdd == IF pingId > PingWrap THEN pingId - PingWrap + 1 ELSE pingId + 2
NextPingId == IF pingId > PingWrap THEN pingId - PingWrap ELSE pingId + 2

\* Calls of Ping in progress with this id.
SameId(id) == {u \in Pingers : ping[u].at \in {"write", "wait", "delete"} /\ ping[u].id = id}

\* Under pingLock.  History: the id is shared if another call has it or a ping
\* with it is on its way.
Register(t) ==
    /\ ping[t].at = "register"
    /\ LET id == ping[t].id
           chan == made + 1 IN
          /\ pingId' = NextPingId
          /\ made' = chan
          /\ pingChans' = [pingChans EXCEPT ![id] = chan]
          /\ ping' = [ping EXCEPT ![t].at = "write", ![t].chan = chan]
          /\ shared' = IF SameId(id) # {} \/ \E p \in wire : p.id = id
                       THEN shared \cup {chan} \cup {ping[u].chan : u \in SameId(id)}
                       ELSE shared
    /\ UNCHANGED <<wire, handling, closeChan>>

\* The frame is written, or that fails.
WritePing(t) ==
    /\ ping[t].at = "write"
    /\ \/ wire' = wire \cup {[id |-> ping[t].id, chan |-> ping[t].chan]} /\ PingGoto(t, "wait")
       \/ UNCHANGED wire /\ PingGoto(t, "delete")
    /\ UNCHANGED <<pingId, pingChans, made, shared, handling, closeChan>>

\* The select: "connection closed", or nil.
PingAborted(t) ==
    /\ ping[t].at = "wait" /\ closeChan
    /\ PingGoto(t, "delete")
    /\ UNCHANGED <<pingId, pingChans, made, shared, wire, handling, closeChan>>

PingAnswered(t) ==
    /\ ping[t].at = "wait" /\ ping[t].chan \in closed
    /\ ping' = [ping EXCEPT ![t].at = "delete", ![t].ok = TRUE]
    /\ UNCHANGED <<pingId, pingChans, made, shared, wire, handling, closeChan>>

\* The deferred delete, under pingLock.
PingDelete(t) ==
    /\ ping[t].at = "delete"
    /\ pingChans' = [pingChans EXCEPT ![ping[t].id] = 0]
    /\ ping' = [ping EXCEPT ![t] = Quiet]
    /\ UNCHANGED <<pingId, made, shared, wire, handling, closeChan>>

-----------------------------------------------------------------------------
(* handlePingFrame                                                         *)

\* Mutant of IsEcho: the test is the wrong way round.
IsEchoInverted(id) == pingId % 2 # id % 2

\* pingId&1 == frame.Id&1
IsEcho(id) == pingId % 2 = id % 2

\* A worker takes an echo and looks up its channel under pingLock; a ping of the
\* peer it would send back.
HandleEcho(w) ==
    /\ handlers[w] = 0
    /\ \E p \in wire :
          /\ wire' = wire \ {p}
          /\ answered' = answered \cup {p.chan}
          /\ IF IsEcho(p.id)
             THEN handlers' = [handlers EXCEPT ![w] = pingChans[p.id]] /\ UNCHANGED misread
             ELSE misread' = TRUE /\ UNCHANGED handlers
    /\ UNCHANGED <<calling, closed, panicked, closeChan>>

\* A ping of the peer is sent back (or that fails).  Its ids have the other
\* parity.
HandlePeerPing(w, id) ==
    /\ handlers[w] = 0
    /\ id % 2 # FirstPing % 2
    /\ misread' = (misread \/ IsEcho(id))
    /\ UNCHANGED <<calling, wire, closed, handlers, answered, panicked, closeChan>>

\* close(pingChan), no longer under pingLock.
HandleClose(w) ==
    /\ handlers[w] # 0
    /\ closed' = closed \cup {handlers[w]}
    /\ panicked' = (panicked \/ handlers[w] \in closed)
    /\ handlers' = [handlers EXCEPT ![w] = 0]
    /\ UNCHANGED <<calling, wire, answered, misread, closeChan>>

-----------------------------------------------------------------------------
PingStep(t) == Register(t) \/ WritePing(t) \/ PingAborted(t) \/ PingAnswered(t) \/ PingDelete(t)

Handle(w) == HandleEcho(w) \/ HandleClose(w) \/ \E id \in PingIds : HandlePeerPing(w, id)

\* The environment: the end of Serve.
ServeEnds == closeChan' = TRUE /\ UNCHANGED pingVars

PingNext ==
    \/ \E t \in Pingers : PingCall(t) \/ PingStep(t)
    \/ \E w \in Handlers : Handle(w)
    \/ ServeEnds

PingSpec == PingInit /\ closeChan = FALSE /\ [][PingNext]_<<pingVars, closeChan>>

-----------------------------------------------------------------------------
(* Properties                                                              *)

\* connection.go:634: the parity of the ids tells our pings from the peer's, also
\* after pingId has wrapped.
ParityTells == ~misread

\* Ping returns nil only after the peer has echoed this very ping, not another
\* one; not so when its id was shared.
NilMeansEchoed ==
    \A t \in Pingers :
        ping[t].at = "delete" /\ ping[t].ok => ping[t].chan \in answered \cup shared

\* A channel is closed twice, which panics, only if pings shared an id.
PanicsOnlyIfShared == panicked => shared # {}

PingSound == ParityTells /\ NilMeansEchoed /\ PanicsOnlyIfShared

\* types.go:176: "unique id for this ping"; connection.go:211: "pingLock protects
\* pingChans and pingId".
PingIdsUnique == \A t, u \in Pingers :
    {ping[t].at, ping[u].at} \subseteq {"write", "wait"} /\ ping[t].id = ping[u].id => t = u

\* A call of Ping whose echo has been taken by a worker, or whose connection has
\* ended, returns, unless it shared its id.
PingReturns ==
    \A t \in Pingers :
        ping[t].at = "wait" /\ (closeChan \/ ping[t].chan \in answered)
            ~> ping[t].at = "idle" \/ ping[t].chan \in shared
=============================================================================
