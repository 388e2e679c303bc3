----------------------------- MODULE PingProofs -----------------------------
(***************************************************************************)
(* Proofs about Ping for any number of pingers, workers and calls, and for *)
(* any even wrap: our pings are told from the peer's, nil means that this  *)
(* very ping was echoed, and a channel is closed twice only if two calls   *)
(* shared an id.                                                           *)
(***************************************************************************)
EXTENDS Ping, TLAPS

Owners == {t \in Pingers : ping[t].at \in {"write", "wait", "delete"}}

\* Every id of ours has the parity of the first one.
ParityInv ==
    /\ pingId % 2 = FirstPing % 2
    /\ \A t \in Pingers : ping[t].id % 2 = FirstPing % 2
    /\ \A p \in wire : p.id % 2 = FirstPing % 2
    /\ ~misread

\* A channel belongs to one call, is on the wire once at most, and is answered
\* after that.
ChanInv ==
    /\ answered \subseteq 1 .. made
    /\ \A t \in Owners : ping[t].chan \in 1 .. made
    /\ \A t, u \in Owners : ping[t].chan = ping[u].chan => t = u
    /\ \A p \in wire : p.chan \in 1 .. made /\ p.chan \notin answered
    /\ \A p, q \in wire : p.chan = q.chan => p = q
    /\ \A t \in Owners : ping[t].at = "write" =>
          ping[t].chan \notin answered /\ \A p \in wire : p.chan # ping[t].chan

\* The entry of an id that is about to be written or is on the wire is that of
\* its call, unless it is shared.
EntryInv ==
    /\ \A p \in wire : pingChans[p.id] \in {0, p.chan} \cup shared
    /\ \A t \in Owners : ping[t].at = "write" =>
          pingChans[ping[t].id] \in {0, ping[t].chan} \cup shared

\* What is closed, or about to be, was answered.
ClosedInv ==
    /\ closed \subseteq answered \cup shared
    /\ \A w \in Handlers : handlers[w] # 0 => handlers[w] \in answered \cup shared
    /\ \A t \in Pingers : ping[t].ok =>
          ping[t].at = "delete" /\ ping[t].chan \in answered \cup shared

\* No two workers close the same channel, unless an id is shared.
OnceInv == shared = {} =>
    /\ ~panicked
    /\ \A w \in Handlers : handlers[w] # 0 => handlers[w] \notin closed
    /\ \A v, w \in Handlers : handlers[w] # 0 /\ handlers[v] = handlers[w] => v = w

PingInv == PingTypeOK /\ ParityInv /\ ChanInv /\ EntryInv /\ ClosedInv /\ OnceInv

\* Adding 2, or taking away an even number, keeps the parity.
LEMMA ParityKept ==
    ASSUME NEW n \in Nat, NEW w \in Nat, w % 2 = 0
    PROVE  (n + 2) % 2 = n % 2 /\ (n - w) % 2 = n % 2
OBVIOUS

\* A new connection has made no ping.
LEMMA InitPingInv ==
    ASSUME PingAssumption, PingInit, closeChan = FALSE
    PROVE  PingInv
<1> USE DEF PingInit, PingIds, Quiet, Owners, PingAssumption
<1>1. PingTypeOK
  <2>1. Quiet \in [at: {"idle", "register", "write", "wait", "delete"},
                  id: PingIds, chan: Nat, ok: BOOLEAN]
    OBVIOUS
  <2> QED
    BY <2>1 DEF PingTypeOK
<1>2. ParityInv
  BY DEF ParityInv
<1>3. ChanInv /\ EntryInv
  BY DEF ChanInv, EntryInv
<1>4. ClosedInv /\ OnceInv
  BY DEF ClosedInv, OnceInv
<1> QED
  BY <1>1, <1>2, <1>3, <1>4 DEF PingInv

-----------------------------------------------------------------------------
(* Ping                                                                    *)

\* A call of Ping reads the id it will use.
LEMMA PingCallKeeps ==
    ASSUME PingInv, NEW t \in Pingers, PingCall(t)
    PROVE  PingInv'
<1> USE DEF PingInv, PingCall, calling, handling
<1>1. PingTypeOK'
  BY DEF PingTypeOK, Quiet
<1>2. \A u \in Pingers : u # t => ping'[u] = ping[u]
  BY DEF PingTypeOK
<1>3. Owners' = Owners /\ t \notin Owners
  BY <1>2 DEF Owners, PingTypeOK, Quiet
<1>4. ping'[t].id = pingId /\ ping'[t].at = "register" /\ ~ping'[t].ok
  BY DEF PingTypeOK, Quiet
<1>5. ParityInv'
  BY <1>2, <1>4 DEF ParityInv
<1>6. ChanInv' /\ EntryInv'
  BY <1>2, <1>3 DEF ChanInv, EntryInv, Owners
<1>7. ClosedInv'
  BY <1>2, <1>4 DEF ClosedInv
<1>8. OnceInv'
  BY DEF OnceInv
<1> QED
  BY <1>1, <1>5, <1>6, <1>7, <1>8

\* The new channel is nobody else's, and an entry it overwrites becomes shared.
LEMMA RegisterKeeps ==
    ASSUME PingAssumption, PingInv, NEW t \in Pingers, Register(t)
    PROVE  PingInv'
<1> DEFINE id == ping[t].id
<1> USE DEF PingInv, handling
<1>0. /\ made \in Nat /\ made' = made + 1 /\ id \in PingIds
      /\ pingId' = NextPingId
      /\ pingChans' = [pingChans EXCEPT ![id] = made + 1]
      /\ ping' = [ping EXCEPT ![t].at = "write", ![t].chan = made + 1]
      /\ UNCHANGED <<wire, closed, handlers, answered, misread, panicked, closeChan>>
  BY DEF Register, PingTypeOK
<1>1. NextPingId \in PingIds /\ NextPingId % 2 = pingId % 2
  <2>1. pingId \in 1 .. PingWrap + 2 /\ PingWrap \in Nat /\ PingWrap % 2 = 0
    BY DEF PingTypeOK, PingIds, PingAssumption
  <2>2. NextPingId \in PingIds
    BY <2>1 DEF NextPingId, PingIds
  <2>3. NextPingId % 2 = pingId % 2
    BY <2>1, ParityKept DEF NextPingId
  <2> QED
    BY <2>2, <2>3
<1>2. /\ \A u \in Pingers : u # t => ping'[u] = ping[u]
      /\ ping'[t].id = id /\ ping'[t].at = "write" /\ ping'[t].chan = made + 1
      /\ ping'[t].ok = ping[t].ok /\ ping[t].at = "register"
  BY <1>0 DEF PingTypeOK, Register
<1>3. Owners' = Owners \cup {t} /\ t \notin Owners /\ Owners \subseteq Pingers
  BY <1>2 DEF Owners, Register
<1>4. shared \subseteq shared' /\ shared' \subseteq Nat
  BY DEF Register, PingTypeOK, SameId
<1>5. \A u \in Owners : ping[u].id = id =>
         made + 1 \in shared' /\ ping[u].chan \in shared'
  BY DEF Register, SameId, Owners
<1>6. \A p \in wire : p.id = id => made + 1 \in shared'
  BY DEF Register
<1>7. PingTypeOK'
  <2> DEFINE Rec == [at: {"idle", "register", "write", "wait", "delete"},
                     id: PingIds, chan: Nat, ok: BOOLEAN]
  <2>0. ping \in [Pingers -> Rec] /\ [ping[t] EXCEPT !.at = "write", !.chan = made + 1] \in Rec
    <3>1. ping \in [Pingers -> Rec]
      BY DEF PingTypeOK
    <3>2. ping[t] \in Rec /\ made + 1 \in Nat
      BY <1>0, <3>1
    <3> QED
      BY <3>1, <3>2
  <2>1. ping' \in [Pingers -> Rec]
    <3> HIDE DEF Rec
    <3>1. ping' = [ping EXCEPT ![t] = [ping[t] EXCEPT !.at = "write", !.chan = made + 1]]
      BY <1>0
    <3> QED
      BY <2>0, <3>1
  <2>2. pingChans' \in [PingIds -> Nat]
    BY <1>0 DEF PingTypeOK
  <2> QED
    BY <1>0, <1>1, <1>4, <2>1, <2>2 DEF PingTypeOK
<1>8. ParityInv'
  BY <1>0, <1>1, <1>2 DEF ParityInv
<1>9. ChanInv'
  <2>1. \A u \in Owners : ping'[u] = ping[u] /\ ping[u].chan \in 1 .. made /\ u # t
    BY <1>2, <1>3 DEF ChanInv, Owners
  <2>2. made + 1 \notin answered /\ \A p \in wire : p.chan # made + 1
    BY <1>0 DEF ChanInv
  <2>3. 1 .. made \subseteq 1 .. made' /\ made + 1 \in 1 .. made' /\ made + 1 \notin 1 .. made
    BY <1>0
  <2>4. \A u \in Owners' : ping'[u].chan \in 1 .. made'
    BY <1>2, <1>3, <2>1, <2>3
  <2>5. \A u, v \in Owners' : ping'[u].chan = ping'[v].chan => u = v
    BY <1>2, <1>3, <2>1, <2>3 DEF ChanInv
  <2>6. \A u \in Owners' : ping'[u].at = "write" =>
           ping'[u].chan \notin answered /\ \A p \in wire : p.chan # ping'[u].chan
    BY <1>2, <1>3, <2>1, <2>2 DEF ChanInv
  <2>7. answered' \subseteq 1 .. made'
    BY <1>0, <2>3 DEF ChanInv
  <2>8. \A p \in wire' : p.chan \in 1 .. made' /\ p.chan \notin answered'
    BY <1>0, <2>3 DEF ChanInv
  <2>9. \A p, q \in wire' : p.chan = q.chan => p = q
    BY <1>0 DEF ChanInv
  <2>10. wire' = wire /\ answered' = answered
    BY <1>0
  <2> QED
    BY <2>4, <2>5, <2>6, <2>7, <2>8, <2>9, <2>10 DEF ChanInv
<1>10. EntryInv'
  <2>1. \A p \in wire : pingChans'[p.id] \in {0, p.chan} \cup shared'
    BY <1>0, <1>4, <1>6 DEF EntryInv, PingTypeOK
  <2>2. \A u \in Owners : ping[u].at = "write" =>
           pingChans'[ping[u].id] \in {0, ping[u].chan} \cup shared'
    BY <1>0, <1>4, <1>5 DEF EntryInv, PingTypeOK, Owners
  <2>3. pingChans'[id] = made + 1
    BY <1>0 DEF PingTypeOK
  <2>4. \A u \in Owners' : ping'[u].at = "write" =>
           pingChans'[ping'[u].id] \in {0, ping'[u].chan} \cup shared'
    BY <1>2, <1>3, <2>2, <2>3
  <2> QED
    BY <1>0, <2>1, <2>4 DEF EntryInv
<1>11. ClosedInv'
  <2>1. ~ping'[t].ok
    BY <1>2 DEF ClosedInv
  <2>2. closed' \subseteq answered' \cup shared'
    BY <1>0, <1>4 DEF ClosedInv
  <2>3. \A w \in Handlers : handlers'[w] # 0 => handlers'[w] \in answered' \cup shared'
    BY <1>0, <1>4 DEF ClosedInv
  <2>4. \A u \in Pingers : ping'[u].ok =>
           ping'[u].at = "delete" /\ ping'[u].chan \in answered' \cup shared'
    <3> SUFFICES ASSUME NEW u \in Pingers, ping'[u].ok
                 PROVE  ping'[u].at = "delete" /\ ping'[u].chan \in answered' \cup shared'
      OBVIOUS
    <3>1. ping'[u] = ping[u]
      BY <1>2, <2>1
    <3>2. ping[u].at = "delete" /\ ping[u].chan \in answered \cup shared
      BY <3>1 DEF ClosedInv
    <3>3. answered' = answered
      BY <1>0
    <3> QED
      BY <1>4, <3>1, <3>2, <3>3
  <2> QED
    BY <2>2, <2>3, <2>4 DEF ClosedInv
<1>12. OnceInv'
  BY <1>0, <1>4 DEF OnceInv
<1> QED
  BY <1>7, <1>8, <1>9, <1>10, <1>11, <1>12

\* The other steps of a call.
LEMMA PingStepKeeps ==
    ASSUME PingAssumption, PingInv, NEW t \in Pingers, PingStep(t)
    PROVE  PingInv'
<1> USE DEF PingInv, calling, handling
<1>1. CASE Register(t)
  BY <1>1, RegisterKeeps
<1>2. CASE ~Register(t)
  <2>0. /\ \A u \in Pingers : u # t => ping'[u] = ping[u]
        /\ t \in Owners
        /\ UNCHANGED <<pingId, made, shared, closed, handlers, answered, misread, panicked>>
    BY <1>2 DEF PingTypeOK, PingStep, WritePing, PingAborted, PingAnswered, PingDelete, PingGoto, Owners
  <2>1. CASE WritePing(t)
    <3>1. ping'[t].id = ping[t].id /\ ping'[t].chan = ping[t].chan /\ ping'[t].ok = ping[t].ok
          /\ ping'[t].at \in {"wait", "delete"}
      BY <2>1 DEF WritePing, PingTypeOK, PingGoto
    <3>2. ping[t].at = "write" /\ UNCHANGED pingChans
      BY <2>1 DEF WritePing
    <3>3. wire' = wire \/ wire' = wire \cup {[id |-> ping[t].id, chan |-> ping[t].chan]}
      BY <2>1 DEF WritePing
    <3>4. Owners' = Owners
      BY <2>0, <3>1 DEF Owners
    <3>5. PingTypeOK'
      BY <2>0, <2>1 DEF PingTypeOK, WritePing, PingGoto
    <3>6. ParityInv'
      BY <2>0, <3>1, <3>3 DEF ParityInv
    <3>7. ChanInv'
      BY <2>0, <3>1, <3>2, <3>3, <3>4 DEF ChanInv, Owners
    <3>8. EntryInv'
      BY <2>0, <3>1, <3>2, <3>3, <3>4 DEF EntryInv, Owners
    <3>9. ClosedInv' /\ OnceInv'
      BY <2>0, <3>1, <3>2 DEF ClosedInv, OnceInv
    <3> QED
      BY <3>5, <3>6, <3>7, <3>8, <3>9
  <2>2. CASE PingAborted(t) \/ PingAnswered(t)
    <3>1. ping'[t].id = ping[t].id /\ ping'[t].chan = ping[t].chan /\ ping'[t].at = "delete"
      BY <2>2 DEF PingAborted, PingAnswered, PingTypeOK, PingGoto
    <3>2. ping[t].at = "wait" /\ UNCHANGED <<pingChans, wire>>
      BY <2>2 DEF PingAborted, PingAnswered
    <3>3. Owners' = Owners
      BY <2>0, <3>1 DEF Owners
    <3>4. ping'[t].ok => ping[t].ok \/ ping[t].chan \in closed
      BY <2>2 DEF PingAborted, PingAnswered, PingTypeOK, PingGoto
    <3>5. PingTypeOK'
      BY <2>0, <2>2 DEF PingTypeOK, PingAborted, PingAnswered, PingGoto
    <3>6. ParityInv' /\ ChanInv' /\ EntryInv'
      BY <2>0, <3>1, <3>2, <3>3 DEF ParityInv, ChanInv, EntryInv, Owners
    <3>7. ClosedInv' /\ OnceInv'
      BY <2>0, <3>1, <3>2, <3>4 DEF ClosedInv, OnceInv
    <3> QED
      BY <3>5, <3>6, <3>7
  <2>3. CASE PingDelete(t)
    <3>1. ping'[t].at = "idle" /\ ping'[t].id = FirstPing /\ ~ping'[t].ok /\ UNCHANGED wire
      BY <2>3 DEF PingDelete, PingTypeOK, Quiet
    <3>2. \A i \in PingIds : pingChans'[i] \in {0, pingChans[i]}
      BY <2>3 DEF PingDelete, PingTypeOK
    <3>3. Owners' = Owners \ {t}
      BY <2>0, <3>1 DEF Owners
    <3>4. PingTypeOK'
      <4>1. Quiet \in [at: {"idle", "register", "write", "wait", "delete"},
                      id: PingIds, chan: Nat, ok: BOOLEAN]
        BY DEF Quiet, PingIds, PingAssumption
      <4>2. /\ pingChans' = [pingChans EXCEPT ![ping[t].id] = 0]
            /\ ping' = [ping EXCEPT ![t] = Quiet]
            /\ UNCHANGED <<wire, closeChan>>
        BY <2>3 DEF PingDelete
      <4> QED
        BY <2>0, <4>1, <4>2 DEF PingTypeOK
    <3>5. ParityInv'
      BY <2>0, <3>1 DEF ParityInv
    <3>6. ChanInv'
      BY <2>0, <3>1, <3>3 DEF ChanInv, Owners
    <3>7. EntryInv'
      BY <2>0, <3>1, <3>2, <3>3 DEF EntryInv, Owners, PingTypeOK
    <3>8. ClosedInv' /\ OnceInv'
      BY <2>0, <3>1 DEF ClosedInv, OnceInv
    <3> QED
      BY <3>4, <3>5, <3>6, <3>7, <3>8
  <2> QED
    BY <1>2, <2>1, <2>2, <2>3 DEF PingStep
<1> QED
  BY <1>1, <1>2

-----------------------------------------------------------------------------
(* handlePingFrame                                                         *)

\* An echo is ours by its parity, and the channel found is that of its call.
LEMMA HandleEchoKeeps ==
    ASSUME PingInv, NEW w \in Handlers, HandleEcho(w)
    PROVE  PingInv'
<1> USE DEF PingInv, calling
<1>1. PICK p \in wire :
         /\ wire' = wire \ {p}
         /\ answered' = answered \cup {p.chan}
         /\ IF IsEcho(p.id)
            THEN handlers' = [handlers EXCEPT ![w] = pingChans[p.id]] /\ UNCHANGED misread
            ELSE misread' = TRUE /\ UNCHANGED handlers
  BY DEF HandleEcho
<1>2. /\ handlers[w] = 0
      /\ UNCHANGED <<pingId, pingChans, ping, made, shared, closed, panicked, closeChan>>
  BY DEF HandleEcho
<1>3. IsEcho(p.id)
  BY DEF ParityInv, IsEcho
<1>4. p.id \in PingIds /\ p.chan \in Nat
  BY DEF PingTypeOK
<1>5. /\ handlers'[w] = pingChans[p.id]
      /\ \A v \in Handlers : v # w => handlers'[v] = handlers[v]
      /\ handlers'[w] \in {0, p.chan} \cup shared
  BY <1>1, <1>3 DEF PingTypeOK, EntryInv
<1>6. PingTypeOK'
  BY <1>1, <1>2, <1>3, <1>4 DEF PingTypeOK
<1>7. ParityInv'
  BY <1>1, <1>2, <1>3 DEF ParityInv
<1>8. ChanInv' /\ EntryInv'
  BY <1>1, <1>2 DEF ChanInv, EntryInv, Owners
<1>9. ClosedInv'
  BY <1>1, <1>2, <1>5 DEF ClosedInv
<1>10. OnceInv'
  BY <1>1, <1>2, <1>5 DEF OnceInv, ClosedInv, ChanInv
<1> QED
  BY <1>6, <1>7, <1>8, <1>9, <1>10

\* Pings of the peer, and the close of a channel outside pingLock.
LEMMA HandleKeeps ==
    ASSUME PingAssumption, PingInv, NEW w \in Handlers, Handle(w)
    PROVE  PingInv'
<1> USE DEF PingInv, calling
<1>1. CASE HandleEcho(w)
  BY <1>1, HandleEchoKeeps
<1>2. CASE HandleClose(w)
  <2>1. /\ handlers[w] # 0 /\ handlers'[w] = 0
        /\ \A v \in Handlers : v # w => handlers'[v] = handlers[v]
        /\ UNCHANGED <<calling, wire, answered, misread, closeChan>>
        /\ closed' = closed \cup {handlers[w]}
        /\ panicked' = (panicked \/ handlers[w] \in closed)
    BY <1>2 DEF HandleClose, PingTypeOK
  <2>2. PingTypeOK'
    BY <1>2 DEF HandleClose, PingTypeOK
  <2>3. ParityInv' /\ ChanInv' /\ EntryInv'
    BY <2>1 DEF ParityInv, ChanInv, EntryInv, Owners
  <2>4. ClosedInv'
    BY <2>1 DEF ClosedInv
  <2>5. OnceInv'
    BY <2>1 DEF OnceInv
  <2> QED
    BY <2>2, <2>3, <2>4, <2>5
<1>3. ASSUME NEW id \in PingIds, HandlePeerPing(w, id) PROVE PingInv'
  <2>1. ~IsEcho(id)
    BY <1>3 DEF ParityInv, IsEcho, HandlePeerPing
  <2>2. UNCHANGED <<pingVars, closeChan>>
    BY <1>3, <2>1 DEF HandlePeerPing, ParityInv, PingTypeOK, pingVars, handling
  <2> QED
    BY <2>2 DEF pingVars, handling, PingTypeOK, ParityInv, ChanInv, EntryInv, ClosedInv, OnceInv, Owners
<1> QED
  BY <1>1, <1>2, <1>3 DEF Handle

-----------------------------------------------------------------------------
\* The invariant is inductive.
LEMMA PingNextKeeps ==
    ASSUME PingAssumption, PingInv, [PingNext]_<<pingVars, closeChan>>
    PROVE  PingInv'
<1>1. CASE ServeEnds \/ UNCHANGED <<pingVars, closeChan>>
  <2> USE <1>1 DEF ServeEnds, PingInv, pingVars, calling, handling
  <2>1. UNCHANGED pingVars /\ (closeChan' = TRUE \/ UNCHANGED closeChan)
    OBVIOUS
  <2>2. PingTypeOK'
    BY <2>1 DEF PingTypeOK
  <2>3. ParityInv' /\ ChanInv' /\ EntryInv'
    BY <2>1 DEF ParityInv, ChanInv, EntryInv, Owners
  <2>4. ClosedInv' /\ OnceInv'
    BY <2>1 DEF ClosedInv, OnceInv
  <2> QED
    BY <2>2, <2>3, <2>4
<1> QED
  BY <1>1, PingCallKeeps, PingStepKeeps, HandleKeeps DEF PingNext

\* It contains the types and what is promised of Ping.
LEMMA PingInvSound == PingInv => PingTypeOK /\ PingSound
BY DEF PingInv, ParityInv, ClosedInv, OnceInv, PingSound, ParityTells, NilMeansEchoed,
       PanicsOnlyIfShared

\* Whoever pings, and however often pingId wraps: echoes are told from pings of
\* the peer, Ping returns nil only if this ping was echoed, and no channel is
\* closed twice, except where two calls shared an id.
THEOREM PingsAreSound ==
    ASSUME PingAssumption
    PROVE  PingSpec => [](PingTypeOK /\ PingSound)
<1>1. PingInit /\ closeChan = FALSE => PingInv
  BY InitPingInv
<1>2. PingInv /\ [PingNext]_<<pingVars, closeChan>> => PingInv'
  BY PingNextKeeps
<1> QED
  BY <1>1, <1>2, PingInvSound, PTL DEF PingSpec
=============================================================================
