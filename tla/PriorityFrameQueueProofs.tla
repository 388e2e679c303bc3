---------------------- MODULE PriorityFrameQueueProofs ----------------------
(***************************************************************************)
(* Proofs about PriorityFrameQueue, for any queue size, any set of         *)
(* priorities and any number of frames.  Inv is inductive: it adds to the  *)
(* checked invariants that nobody is in Push once drain is set, and that   *)
(* no two frames ever pushed have the same insertId.                       *)
(***************************************************************************)
EXTENDS PriorityFrameQueue, SortedSetsProofs

PushersGone == drain => \A p \in Pushers : pc[p] = "idle"

InsertIdsUnique ==
    \A e, f \in queue \cup popped : e.insertId = f.insertId => e = f

Inv ==
    /\ TypeOK /\ Conservation /\ NoOvertaking /\ InsertIdsUnique
    /\ PushersGone /\ DrainLosesNothing

\* Signal moves at most one waiter back to running and nobody else.
LEMMA SignalMoves ==
    ASSUME NEW at \in [Threads -> PcStates], Signal(at)
    PROVE  /\ pc' \in [Threads -> PcStates]
           /\ \A t \in Threads : \/ pc'[t] = at[t]
                                 \/ at[t] = "waiting" /\ pc'[t] = "running"
<1>1. CASE \E t \in Threads : at[t] = "waiting"
  <2>1. PICK t \in Threads : at[t] = "waiting" /\ pc' = [at EXCEPT ![t] = "running"]
    BY <1>1 DEF Signal
  <2> QED
    BY <2>1 DEF PcStates
<1>2. CASE ~ \E t \in Threads : at[t] = "waiting"
  BY <1>2 DEF Signal
<1> QED
  BY <1>1, <1>2

\* Every action keeps the variables in their types.
LEMMA TypeInvariant == TypeOK /\ [Next]_vars => TypeOK'
<1> SUFFICES ASSUME TypeOK, [Next]_vars PROVE TypeOK'
  OBVIOUS
<1> USE QueueAssumption
<1>1. ASSUME NEW p \in Pushers, PushCall(p) PROVE TypeOK'
  BY <1>1 DEF TypeOK, PushCall, Move, Threads, PcStates
<1>2. ASSUME NEW p \in Pushers, PushWait(p) PROVE TypeOK'
  BY <1>2 DEF TypeOK, PushWait, Move, Threads, PcStates
<1>3. ASSUME NEW p \in Pushers, PushInsert(p) PROVE TypeOK'
  <2>1. [pc EXCEPT ![p] = "idle"] \in [Threads -> PcStates]
    BY <1>3 DEF TypeOK, Threads, PcStates
  <2>2. pc' \in [Threads -> PcStates]
    BY <1>3, <2>1, SignalMoves DEF PushInsert
  <2>3. queue' \subseteq Entries
    BY <1>3 DEF TypeOK, PushInsert, Entries
  <2>4. IsFiniteSet(queue')
    BY <1>3, FS_AddElement DEF TypeOK, PushInsert
  <2> QED
    BY <1>3, <2>2, <2>3, <2>4 DEF TypeOK, PushInsert
<1>4. ASSUME NEW c \in Poppers, PopCall(c) PROVE TypeOK'
  BY <1>4 DEF TypeOK, PopCall, Move, Threads, PcStates
<1>5. ASSUME NEW c \in Poppers, PopWait(c) PROVE TypeOK'
  BY <1>5 DEF TypeOK, PopWait, Move, Threads, PcStates
<1>6. ASSUME NEW c \in Poppers, PopTake(c) PROVE TypeOK'
  <2>1. [pc EXCEPT ![c] = "idle"] \in [Threads -> PcStates]
    BY <1>6 DEF TypeOK, Threads, PcStates
  <2>2. pc' \in [Threads -> PcStates]
    BY <1>6, <2>1, SignalMoves DEF PopTake
  <2>3. PICK e \in queue : queue' = queue \ {e} /\ popped' = popped \cup {e}
    BY <1>6 DEF PopTake
  <2>4. IsFiniteSet(queue')
    BY <2>3, FS_RemoveElement DEF TypeOK
  <2> QED
    BY <1>6, <2>2, <2>3, <2>4 DEF TypeOK, PopTake
<1>7. ASSUME NEW c \in Poppers, PopNil(c) PROVE TypeOK'
  BY <1>7 DEF TypeOK, PopNil, Move, Threads, PcStates
<1>8. CASE Drain
  BY <1>8 DEF TypeOK, Drain, Broadcast, PcStates
<1>9. CASE UNCHANGED vars
  BY <1>9 DEF TypeOK, vars
<1> QED
  BY <1>1, <1>2, <1>3, <1>4, <1>5, <1>6, <1>7, <1>8, <1>9 DEF Next, Push, Pop

\* A new queue is empty and nobody is in it.
LEMMA InitInv == Init => Inv
<1> SUFFICES ASSUME Init PROVE Inv
  OBVIOUS
<1>1. TypeOK
  BY QueueAssumption, FS_EmptySet DEF Init, TypeOK, Threads, PcStates, Entries
<1>2. Conservation
  <2>1. Cardinality(queue) = 0
    BY FS_EmptySet DEF Init
  <2> QED
    BY <2>1, QueueAssumption DEF Init, Conservation
<1>3. NoOvertaking /\ InsertIdsUnique /\ PushersGone /\ DrainLosesNothing
  BY QueueAssumption
  DEF Init, NoOvertaking, InsertIdsUnique, PushersGone, DrainLosesNothing, Threads
<1> QED
  BY <1>1, <1>2, <1>3 DEF Inv

\* A step that leaves queue and popped alone keeps what is said of them.
LEMMA QueueUntouched ==
    ASSUME Inv, UNCHANGED <<queue, nextInsertId, popped>>
    PROVE  Conservation' /\ NoOvertaking' /\ InsertIdsUnique'
BY DEF Inv, Conservation, NoOvertaking, InsertIdsUnique

\* Push inserts behind every frame there is, and only below the limit.
LEMMA PushInsertStep ==
    ASSUME Inv, NEW p \in Pushers, PushInsert(p)
    PROVE  /\ Conservation' /\ NoOvertaking' /\ InsertIdsUnique'
           /\ PushersGone' /\ DrainLosesNothing'
<1> DEFINE new == [priority |-> arg[p], insertId |-> nextInsertId]
<1>1. /\ queue' = queue \cup {new} /\ popped' = popped
      /\ nextInsertId' = nextInsertId + 1
      /\ drain' = drain /\ ~Full /\ pc[p] = "running"
  BY DEF PushInsert
<1>2. \A e \in queue \cup popped : e.insertId \in Nat /\ e.insertId < nextInsertId
  BY DEF Inv, TypeOK, Conservation, Entries
<1>3. new \notin queue /\ new \notin popped /\ new.insertId = nextInsertId
  BY <1>2 DEF Inv, TypeOK
<1>4. Conservation'
  <2>1. Cardinality(queue') = Cardinality(queue) + 1 /\ Cardinality(queue) \in Nat
    BY <1>1, <1>3, FS_AddElement, FS_CardinalityType DEF Inv, TypeOK
  <2>2. Cardinality(queue') <= Size
    BY <1>1, <2>1, QueueAssumption DEF Full
  <2>3. queue' \cap popped' = {}
    BY <1>1, <1>3 DEF Inv, Conservation
  <2>4. {e.insertId : e \in queue' \cup popped'} = 0 .. nextInsertId' - 1
    <3>1. {e.insertId : e \in queue' \cup popped'}
            = {e.insertId : e \in queue \cup popped} \cup {nextInsertId}
      BY <1>1, <1>3
    <3>2. 0 .. (nextInsertId + 1) - 1 = (0 .. nextInsertId - 1) \cup {nextInsertId}
      BY DEF Inv, TypeOK
    <3> QED
      BY <1>1, <3>1, <3>2 DEF Inv, Conservation
  <2> QED
    BY <2>2, <2>3, <2>4 DEF Conservation
<1>5. NoOvertaking'
  BY <1>1, <1>2, <1>3 DEF Inv, NoOvertaking
<1>6. ~drain /\ ~drain'
  BY <1>1 DEF Inv, PushersGone
<1>7. DrainLosesNothing'
  <2>1. [pc EXCEPT ![p] = "idle"] \in [Threads -> PcStates]
    BY DEF Inv, TypeOK, Threads, PcStates
  <2>2. \A c \in Poppers : pc'[c] = "exited" => pc[c] = "exited"
    BY <2>1, SignalMoves, QueueAssumption DEF PushInsert, Threads, Inv, TypeOK
  <2> QED
    BY <1>6, <2>2 DEF Inv, DrainLosesNothing
<1>8. InsertIdsUnique'
  <2>1. \A e \in queue' \cup popped' : e \in queue \cup popped \/ e = new
    BY <1>1
  <2> QED
    BY <1>2, <1>3, <2>1 DEF Inv, TypeOK, InsertIdsUnique
<1> QED
  BY <1>4, <1>5, <1>6, <1>7, <1>8 DEF PushersGone

\* Pop takes the least entry, so what stays behind is younger.
LEMMA PopTakeStep ==
    ASSUME Inv, NEW c \in Poppers, PopTake(c)
    PROVE  /\ Conservation' /\ NoOvertaking' /\ InsertIdsUnique'
           /\ PushersGone' /\ DrainLosesNothing'
<1>1. PICK e \in queue : /\ IsFirst(e) /\ queue' = queue \ {e}
                         /\ popped' = popped \cup {e}
  BY DEF PopTake
<1>2. nextInsertId' = nextInsertId /\ drain' = drain
  BY DEF PopTake
<1>3. Conservation'
  <2>1. Cardinality(queue') = Cardinality(queue) - 1 /\ Cardinality(queue) \in Nat
    BY <1>1, FS_RemoveElement, FS_CardinalityType DEF Inv, TypeOK
  <2>2. queue' \cup popped' = queue \cup popped /\ queue' \cap popped' = {}
    BY <1>1 DEF Inv, Conservation
  <2> QED
    BY <1>2, <2>1, <2>2, QueueAssumption DEF Inv, Conservation
<1>4. NoOvertaking'
  <2>1. ASSUME NEW f \in queue', e.priority = f.priority
        PROVE  e.insertId < f.insertId
    <3>1. f \in queue \ {e} /\ Less(e, f)
      BY <1>1 DEF IsFirst
    <3>2. e.priority \in Nat
      BY <1>1, QueueAssumption DEF Inv, TypeOK, Entries
    <3> QED
      BY <2>1, <3>1, <3>2 DEF Less
  <2> QED
    BY <1>1, <2>1 DEF Inv, NoOvertaking
<1>5. [pc EXCEPT ![c] = "idle"] \in [Threads -> PcStates]
  BY DEF Inv, TypeOK, Threads, PcStates
<1>6. PushersGone'
  <2>1. ASSUME NEW q \in Pushers, pc[q] = "idle" PROVE pc'[q] = "idle"
    <3>1. q # c /\ q \in Threads /\ c \in Threads
      BY QueueAssumption DEF Threads
    <3>2. [pc EXCEPT ![c] = "idle"][q] = "idle"
      BY <2>1, <3>1 DEF Inv, TypeOK
    <3> QED
      BY <1>5, <3>1, <3>2, SignalMoves DEF PopTake
  <2> QED
    BY <1>2, <2>1 DEF PushersGone, Inv
<1>7. DrainLosesNothing'
  <2>1. \A d \in Poppers : pc[d] # "exited"
    BY <1>1 DEF Inv, DrainLosesNothing
  <2>2. \A d \in Poppers : pc'[d] # "exited"
    BY <1>5, <2>1, SignalMoves DEF PopTake, Threads, Inv, TypeOK
  <2> QED
    BY <2>2 DEF DrainLosesNothing
<1>8. InsertIdsUnique'
  <2>1. queue' \cup popped' = queue \cup popped
    BY <1>1
  <2> QED
    BY <2>1 DEF Inv, InsertIdsUnique
<1> QED
  BY <1>3, <1>4, <1>6, <1>7, <1>8

\* Every step of Push, Pop and Drain keeps the invariant.
LEMMA NextInv == Inv /\ [Next]_vars => Inv'
<1> SUFFICES ASSUME Inv, [Next]_vars PROVE Inv'
  OBVIOUS
<1> USE QueueAssumption
<1>0. TypeOK'
  BY TypeInvariant DEF Inv
<1>1. ASSUME NEW p \in Pushers, PushCall(p) PROVE Inv'
  BY <1>0, <1>1, QueueUntouched
  DEF Inv, PushCall, Move, PushersGone, DrainLosesNothing, TypeOK, Threads
<1>2. ASSUME NEW p \in Pushers, PushWait(p) PROVE Inv'
  BY <1>0, <1>2, QueueUntouched
  DEF Inv, PushWait, Move, PushersGone, DrainLosesNothing, TypeOK, Threads
<1>3. ASSUME NEW p \in Pushers, PushInsert(p) PROVE Inv'
  BY <1>0, <1>3, PushInsertStep DEF Inv
<1>4. ASSUME NEW c \in Poppers, PopCall(c) PROVE Inv'
  BY <1>0, <1>4, QueueUntouched
  DEF Inv, PopCall, Move, PushersGone, DrainLosesNothing, TypeOK, Threads
<1>5. ASSUME NEW c \in Poppers, PopWait(c) PROVE Inv'
  BY <1>0, <1>5, QueueUntouched
  DEF Inv, PopWait, Move, PushersGone, DrainLosesNothing, TypeOK, Threads
<1>6. ASSUME NEW c \in Poppers, PopTake(c) PROVE Inv'
  BY <1>0, <1>6, PopTakeStep DEF Inv
<1>7. ASSUME NEW c \in Poppers, PopNil(c) PROVE Inv'
  BY <1>0, <1>7, QueueUntouched
  DEF Inv, PopNil, Move, PushersGone, DrainLosesNothing, TypeOK, Threads
<1>8. CASE Drain
  BY <1>0, <1>8, QueueUntouched
  DEF Inv, Drain, Broadcast, PushersGone, DrainLosesNothing, TypeOK, Threads
<1>9. CASE UNCHANGED vars
  BY <1>0, <1>9, QueueUntouched DEF Inv, vars, PushersGone, DrainLosesNothing
<1> QED
  BY <1>1, <1>2, <1>3, <1>4, <1>5, <1>6, <1>7, <1>8, <1>9 DEF Next, Push, Pop

\* Push, Pop and Drain keep the queue's types and the inductive invariant, for
\* any number of goroutines, any size and any priorities.
THEOREM Invariance == Spec => [](TypeOK /\ Inv)
<1>1. Inv => TypeOK
  BY DEF Inv
<1> QED
  BY <1>1, InitInv, NextInv, PTL DEF Spec

\* No frame is lost, duplicated or invented, and the heap never outgrows Size,
\* whatever the number of pushing and popping goroutines.
THEOREM FramesConserved == Spec => []Conservation
<1>1. Inv => Conservation
  BY DEF Inv
<1> QED
  BY <1>1, Invariance, PTL

\* Frames of one priority leave in the order Push put them in.
THEOREM PriorityIsFIFO == Spec => []NoOvertaking
<1>1. Inv => NoOvertaking
  BY DEF Inv
<1> QED
  BY <1>1, Invariance, PTL

\* A worker that was told nil by Pop leaves an empty, drained queue behind.
THEOREM DrainIsComplete == Spec => []DrainLosesNothing
<1>1. Inv => DrainLosesNothing
  BY DEF Inv
<1> QED
  BY <1>1, Invariance, PTL

-----------------------------------------------------------------------------
\* With one pusher and one popper, as Serve builds it, Signal always finds
\* the right waiter: a worker waits only while the queue is empty, a pusher
\* only while it is full, and it cannot be both.
LEMMA WakeupStep ==
    ASSUME NEW p, NEW c, Pushers = {p}, Poppers = {c},
           Inv, NoLostWakeup, [Next]_vars
    PROVE  NoLostWakeup'
<1>0. /\ pc \in [Threads -> PcStates] /\ Threads = {p, c} /\ p # c
      /\ Size \in Nat \ {0}
  BY QueueAssumption DEF Inv, TypeOK, Threads
<1>1. NoLostWakeup <=> /\ pc[c] = "waiting" => queue = {} /\ ~drain
                       /\ pc[p] = "waiting" => Full
  BY DEF NoLostWakeup
<1>2. NoLostWakeup' <=> /\ pc'[c] = "waiting" => queue' = {} /\ ~drain'
                        /\ pc'[p] = "waiting" => Full'
  BY DEF NoLostWakeup
<1>3. CASE PushCall(p) \/ PushWait(p)
  BY <1>0, <1>1, <1>2, <1>3 DEF PushCall, PushWait, Move, Full
<1>4. CASE PushInsert(p)
  <2> DEFINE at == [pc EXCEPT ![p] = "idle"]
  <2>1. at \in [Threads -> PcStates] /\ at[p] = "idle" /\ at[c] = pc[c]
    BY <1>0 DEF PcStates
  <2>2. pc'[p] = "idle" /\ pc'[c] # "waiting"
    <3>1. CASE at[c] = "waiting"
      BY <1>0, <1>4, <2>1, <3>1 DEF PushInsert, Signal
    <3>2. CASE at[c] # "waiting"
      BY <1>0, <1>4, <2>1, <3>2 DEF PushInsert, Signal
    <3> QED
      BY <3>1, <3>2
  <2> QED
    BY <1>2, <2>2
<1>5. CASE PopCall(c) \/ PopWait(c) \/ PopNil(c)
  BY <1>0, <1>1, <1>2, <1>5 DEF PopCall, PopWait, PopNil, Move, Full
<1>6. CASE PopTake(c)
  <2> DEFINE at == [pc EXCEPT ![c] = "idle"]
  <2>1. at \in [Threads -> PcStates] /\ at[c] = "idle" /\ at[p] = pc[p]
    BY <1>0 DEF PcStates
  <2>2. pc'[c] = "idle" /\ pc'[p] # "waiting"
    <3>1. CASE at[p] = "waiting"
      BY <1>0, <1>6, <2>1, <3>1 DEF PopTake, Signal
    <3>2. CASE at[p] # "waiting"
      BY <1>0, <1>6, <2>1, <3>2 DEF PopTake, Signal
    <3> QED
      BY <3>1, <3>2
  <2> QED
    BY <1>2, <2>2
<1>7. CASE Drain
  BY <1>0, <1>2, <1>7 DEF Drain, Broadcast
<1>8. CASE UNCHANGED vars
  BY <1>1, <1>2, <1>8 DEF vars, Full
<1> QED
  BY <1>3, <1>4, <1>5, <1>6, <1>7, <1>8 DEF Next, Push, Pop

\* No wake-up is lost between one pusher and one popper.
THEOREM WakeupsReachTheWaiter ==
    ASSUME NEW p, NEW c, Pushers = {p}, Poppers = {c}
    PROVE  Spec => []NoLostWakeup
<1>1. Init => NoLostWakeup
  BY QueueAssumption DEF Init, NoLostWakeup, Threads
<1>2. Inv /\ NoLostWakeup /\ [Next]_vars => NoLostWakeup'
  BY WakeupStep
<1> QED
  BY <1>1, <1>2, Invariance, PTL DEF Spec
-----------------------------------------------------------------------------
(***************************************************************************)
(* The lanes.  Every lane is a set of insertIds below nextInsertId, sorted;*)
(* Push adds the largest id there is to one of them, Pop removes the least *)
(* one of the most urgent lane that is not empty.                          *)
(***************************************************************************)

\* The ids of one lane are the insertIds of the queued frames of a priority.
LEMMA LaneFacts ==
    ASSUME Inv, NEW p \in Priorities
    PROVE  /\ LaneIds(p) \in SUBSET Nat
           /\ IsFiniteSet(LaneIds(p))
           /\ \A n \in LaneIds(p) : n < nextInsertId
           /\ Cardinality(LaneIds(p)) \in 0 .. nextInsertId
           /\ \A n : n \in LaneIds(p) <=> \E e \in queue : e.priority = p /\ e.insertId = n
<1>1. \A n : n \in LaneIds(p) <=> \E e \in queue : e.priority = p /\ e.insertId = n
  BY DEF LaneIds
<1>2. /\ \A e \in queue : e.insertId \in 0 .. nextInsertId - 1
      /\ nextInsertId \in Nat
  BY DEF Inv, TypeOK, Conservation
<1>3. LaneIds(p) \in SUBSET (0 .. nextInsertId - 1)
  BY <1>1, <1>2
<1>4. /\ IsFiniteSet(0 .. nextInsertId - 1)
      /\ Cardinality(0 .. nextInsertId - 1) = nextInsertId
  BY <1>2, FS_Interval
<1>5. /\ IsFiniteSet(LaneIds(p))
      /\ Cardinality(LaneIds(p)) <= nextInsertId
      /\ Cardinality(LaneIds(p)) \in Nat
  BY <1>3, <1>4, FS_Subset, FS_CardinalityType
<1> QED
  BY <1>1, <1>2, <1>3, <1>5

\* The lanes hold as many frames as the heap has entries.
LEMMA HeldIsQueue ==
    ASSUME Inv
    PROVE  Cardinality(Lanes!Held) = Cardinality(queue)
<1> DEFINE ids == {e.insertId : e \in queue}
           f == [e \in queue |-> e.insertId]
<1>1. Lanes!Held \in SUBSET ids
  <2> SUFFICES ASSUME NEW n \in Lanes!Held PROVE n \in ids
    OBVIOUS
  <2>1. PICK p \in Priorities : n \in {Lane(p)[i] : i \in DOMAIN Lane(p)}
    BY DEF Lanes!Held
  <2>2. n \in LaneIds(p)
    BY <2>1, LaneFacts, SortedAt DEF Lane
  <2> QED
    BY <2>2, LaneFacts
<1>2. ids \in SUBSET Lanes!Held
  <2> SUFFICES ASSUME NEW e \in queue PROVE e.insertId \in Lanes!Held
    OBVIOUS
  <2> DEFINE p == e.priority
             n == e.insertId
             i == Rank(LaneIds(p), n) + 1
  <2>1. p \in Priorities /\ n \in Nat
    BY DEF Inv, TypeOK, Entries
  <2>2. n \in LaneIds(p) /\ n < nextInsertId /\ nextInsertId \in Nat
    BY <2>1, LaneFacts DEF Inv, TypeOK
  <2>3. i \in DOMAIN Lane(p) /\ Lane(p)[i] = n /\ i \in 1 .. nextInsertId
    BY <2>1, <2>2, LaneFacts, SortedAt DEF Lane
  <2>4. n \in 0 .. nextInsertId
    BY <2>1, <2>2
  <2> HIDE DEF p, n, i
  <2> QED
    BY <2>1, <2>3, <2>4 DEF Lanes!Held, n
<1>3. ExistsBijection(queue, ids)
  <2>1. f \in [queue -> ids] /\ \A n \in ids : \E e \in queue : f[e] = n
    OBVIOUS
  <2>2. \A e, g \in queue : f[e] = f[g] => e = g
    BY DEF Inv, InsertIdsUnique
  <2>3. f \in Bijection(queue, ids)
    BY <2>1, <2>2 DEF Bijection, Injection, Surjection, IsInjective
  <2> QED
    BY <2>3 DEF ExistsBijection
<1>4. Cardinality(ids) = Cardinality(queue)
  BY <1>3, FS_Bijection DEF Inv, TypeOK
<1> QED
  BY <1>1, <1>2, <1>4

\* A Push that inserts puts its frame at the end of one lane.
LEMMA PutStep ==
    ASSUME Inv, NEW p \in Pushers, PushInsert(p)
    PROVE  arg[p] \in Priorities /\ Lanes!Put(arg[p])
<1>1. arg[p] \in Priorities /\ nextInsertId \in Nat
  BY DEF Inv, TypeOK
<1>2. /\ queue' = queue \cup {[priority |-> arg[p], insertId |-> nextInsertId]}
      /\ nextInsertId' = nextInsertId + 1 /\ ~Full /\ pc[p] = "running"
      /\ drain' = drain /\ popped' = popped
  BY DEF PushInsert
<1>3. ~drain
  BY <1>2 DEF Inv, PushersGone
<1>4. Cardinality(Lanes!Held) < Size
  <2>1. Cardinality(queue) \in Nat /\ Size \in Nat
    BY QueueAssumption, FS_CardinalityType DEF Inv, TypeOK
  <2> QED
    BY <1>2, <2>1, HeldIsQueue DEF Full
<1>5. ASSUME NEW q \in Priorities
      PROVE  Lane(q)' = IF q = arg[p] THEN Append(Lane(q), nextInsertId) ELSE Lane(q)
  <2>1. LaneIds(q)' = IF q = arg[p] THEN LaneIds(q) \cup {nextInsertId} ELSE LaneIds(q)
    <3>1. \A n : n \in LaneIds(q)' <=>
                 \E g \in queue' : g.priority = q /\ g.insertId = n
      BY DEF LaneIds
    <3>2. \A n : n \in LaneIds(q) <=>
                 \E g \in queue : g.priority = q /\ g.insertId = n
      BY LaneFacts
    <3>3. \A n : n \in LaneIds(q)' <=>
                 n \in LaneIds(q) \/ (q = arg[p] /\ n = nextInsertId)
      <4> DEFINE new == [priority |-> arg[p], insertId |-> nextInsertId]
      <4>1. new.priority = arg[p] /\ new.insertId = nextInsertId
        OBVIOUS
      <4>2. queue' = queue \cup {new}
        BY <1>2
      <4> HIDE DEF new
      <4> QED
        BY <3>1, <3>2, <4>1, <4>2
    <3> QED
      BY <3>3
  <2> QED
    BY <1>1, <2>1, LaneFacts, SortedAppend DEF Lane
<1>6. Exited' = Exited
  <2>1. [pc EXCEPT ![p] = "idle"] \in [Threads -> PcStates]
    BY DEF Inv, TypeOK, Threads, PcStates
  <2> QED
    BY <1>2, <2>1, SignalMoves, QueueAssumption
    DEF PushInsert, Exited, Threads, Inv, TypeOK
<1>7. [q \in Priorities |-> Lane(q)]'
        = [[q \in Priorities |-> Lane(q)] EXCEPT
              ![arg[p]] = Append(@, nextInsertId)]
  BY <1>1, <1>5
<1>8. {e.insertId : e \in popped'} = {e.insertId : e \in popped}
  BY <1>2
<1>9. Lanes!Cardinality(Lanes!Held) < Size
  BY <1>4 DEF Lanes!Cardinality, Cardinality
<1> QED
  BY <1>1, <1>2, <1>3, <1>6, <1>7, <1>8, <1>9 DEF Lanes!Put

\* A Pop that takes a frame takes the head of the most urgent lane in use.
LEMMA TakeStep ==
    ASSUME Inv, NEW c \in Poppers, PopTake(c)
    PROVE  \E p \in Priorities : Lanes!Take(p)
<1>1. PICK e \in queue : /\ IsFirst(e) /\ queue' = queue \ {e}
                         /\ popped' = popped \cup {e}
  BY DEF PopTake
<1> DEFINE p == e.priority
           n == e.insertId
<1>2. p \in Priorities /\ n \in Nat /\ Priorities \subseteq Nat
  BY QueueAssumption DEF Inv, TypeOK, Entries
<1>3. n \in LaneIds(p)
  BY <1>2, LaneFacts
<1>4. \A m \in LaneIds(p) \ {n} : n < m
  <2> SUFFICES ASSUME NEW m \in LaneIds(p) \ {n} PROVE n < m
    OBVIOUS
  <2>1. PICK g \in queue : g.priority = p /\ g.insertId = m
    BY <1>2, LaneFacts
  <2>2. g # e /\ Less(e, g)
    BY <1>1, <2>1 DEF IsFirst
  <2>3. p < p \/ n < m
    BY <2>1, <2>2 DEF Less
  <2>4. p \in Nat
    BY <1>2
  <2> HIDE DEF p, n
  <2> QED
    BY <2>3, <2>4
<1>5. \A q \in Priorities : q < p => Lane(q) = <<>>
  <2> SUFFICES ASSUME NEW q \in Priorities, q < p, LaneIds(q) # {} PROVE FALSE
    BY LaneFacts, SortedSeq DEF Lane
  <2>1. PICK g \in queue : g.priority = q
    BY LaneFacts
  <2>2. g # e /\ Less(e, g)
    BY <1>1, <1>2, <2>1 DEF IsFirst
  <2>3. p < q \/ p = q
    BY <2>1, <2>2 DEF Less
  <2>4. p \in Nat /\ q \in Nat
    BY <1>2
  <2> HIDE DEF p
  <2> QED
    BY <2>3, <2>4
<1>6. ASSUME NEW q \in Priorities
      PROVE  LaneIds(q)' = IF q = p THEN LaneIds(q) \ {n} ELSE LaneIds(q)
  <2>1. \A g \in queue : g.insertId = n => g = e
    BY DEF Inv, InsertIdsUnique
  <2>2. \A m : m \in LaneIds(q)' <=>
               \E g \in queue' : g.priority = q /\ g.insertId = m
    BY DEF LaneIds
  <2>3. \A m : m \in LaneIds(q) <=>
               \E g \in queue : g.priority = q /\ g.insertId = m
    BY LaneFacts
  <2>4. \A m : m \in LaneIds(q)' <=> m \in LaneIds(q) /\ (q = p => m # n)
    BY <1>1, <2>1, <2>2, <2>3
  <2> QED
    BY <2>4
<1>7. /\ Lane(p) # <<>> /\ Head(Lane(p)) = n
      /\ Tail(Lane(p)) = Sorted(LaneIds(p) \ {n})
  BY <1>2, <1>3, <1>4, LaneFacts, SortedTail DEF Lane
<1>8. \A q \in Priorities : Lane(q)' = IF q = p THEN Tail(Lane(q)) ELSE Lane(q)
  BY <1>6, <1>7 DEF Lane
<1>9. Exited' = Exited
  <2>1. [pc EXCEPT ![c] = "idle"] \in [Threads -> PcStates]
    BY DEF Inv, TypeOK, Threads, PcStates
  <2>2. \A d \in Poppers : pc[d] # "exited"
    BY <1>1 DEF Inv, DrainLosesNothing
  <2> QED
    BY <2>1, <2>2, SignalMoves DEF PopTake, Exited, Threads, Inv, TypeOK
<1>10. {g.insertId : g \in popped'} = {g.insertId : g \in popped} \cup {n}
  BY <1>1
<1>11. [q \in Priorities |-> Lane(q)]'
         = [[q \in Priorities |-> Lane(q)] EXCEPT ![p] = Tail(@)]
  BY <1>2, <1>8
<1>12. nextInsertId' = nextInsertId /\ drain' = drain
  BY DEF PopTake
<1> HIDE DEF p, n
<1>13. Lanes!Take(p)
  BY <1>2, <1>5, <1>7, <1>9, <1>10, <1>11, <1>12 DEF Lanes!Take
<1> QED
  BY <1>2, <1>13

\* A step that moves no frame, starts no drain and ends no worker changes
\* nothing that the lanes show.
LEMMA LanesStutter ==
    ASSUME UNCHANGED <<queue, nextInsertId, drain, popped>>, Exited' = Exited
    PROVE  UNCHANGED Lanes!vars
<1>1. \A q \in Priorities : Lane(q)' = Lane(q)
  BY DEF Lane, LaneIds
<1> QED
  BY <1>1 DEF Lanes!vars

\* Every step of the queue is a step of the lanes or leaves them as they are.
LEMMA LanesStep == Inv /\ [Next]_vars => [Lanes!Next]_(Lanes!vars)
<1> SUFFICES ASSUME Inv, [Next]_vars PROVE Lanes!Next \/ UNCHANGED Lanes!vars
  OBVIOUS
<1> USE QueueAssumption
<1>0. pc \in [Threads -> PcStates]
  BY DEF Inv, TypeOK
<1>1. ASSUME NEW p \in Pushers, PushCall(p) \/ PushWait(p)
      PROVE  UNCHANGED Lanes!vars
  <2>1. Exited' = Exited
    BY <1>0, <1>1 DEF PushCall, PushWait, Move, Exited, Threads
  <2> QED
    BY <1>1, <2>1, LanesStutter DEF PushCall, PushWait
<1>2. ASSUME NEW p \in Pushers, PushInsert(p) PROVE Lanes!Next
  BY <1>2, PutStep DEF Lanes!Next
<1>3. ASSUME NEW c \in Poppers, PopCall(c) \/ PopWait(c)
      PROVE  UNCHANGED Lanes!vars
  <2>1. Exited' = Exited
    BY <1>0, <1>3 DEF PopCall, PopWait, Move, Exited, Threads
  <2> QED
    BY <1>3, <2>1, LanesStutter DEF PopCall, PopWait
<1>4. ASSUME NEW c \in Poppers, PopTake(c) PROVE Lanes!Next
  BY <1>4, TakeStep DEF Lanes!Next
<1>5. ASSUME NEW c \in Poppers, PopNil(c) PROVE Lanes!Next
  <2>1. Exited' = Exited \cup {c}
    BY <1>0, <1>5 DEF PopNil, Move, Exited, Threads
  <2>2. \A q \in Priorities : Lane(q)' = Lane(q) /\ Lane(q) = <<>>
    <3> SUFFICES ASSUME NEW q \in Priorities PROVE Lane(q)' = Lane(q) /\ Lane(q) = <<>>
      OBVIOUS
    <3>1. LaneIds(q) = {} /\ LaneIds(q)' = LaneIds(q)
      BY <1>5 DEF PopNil, LaneIds
    <3> QED
      BY <3>1, LaneFacts, SortedSeq DEF Lane
  <2>3. Lanes!Stop(c)
    BY <1>5, <2>1, <2>2 DEF PopNil, Lanes!Stop
  <2> QED
    BY <2>3 DEF Lanes!Next
<1>6. CASE Drain
  <2>1. Exited' = Exited
    BY <1>0, <1>6 DEF Drain, Broadcast, Exited, Threads
  <2>2. \A q \in Priorities : Lane(q)' = Lane(q)
    BY <1>6 DEF Drain, Lane, LaneIds
  <2>3. Lanes!StartDrain
    BY <1>6, <2>1, <2>2 DEF Drain, Lanes!StartDrain
  <2> QED
    BY <2>3 DEF Lanes!Next
<1>7. CASE UNCHANGED vars
  <2>1. Exited' = Exited
    BY <1>7 DEF vars, Exited
  <2> QED
    BY <1>7, <2>1, LanesStutter DEF vars
<1> QED
  BY <1>1, <1>2, <1>3, <1>4, <1>5, <1>6, <1>7 DEF Next, Push, Pop

\* An empty queue shows empty lanes.
LEMMA LanesInit == Init => Lanes!Init
<1> SUFFICES ASSUME Init PROVE Lanes!Init
  OBVIOUS
<1>1. \A q \in Priorities : Lane(q) = <<>>
  <2>1. \A q \in Priorities : LaneIds(q) = {}
    BY DEF Init, LaneIds
  <2>2. Sorted({}) = <<>>
    BY SortedSeq, FS_EmptySet
  <2> QED
    BY <2>1, <2>2 DEF Lane
<1>2. Exited = {}
  BY QueueAssumption DEF Init, Exited, Threads
<1> QED
  BY <1>1, <1>2 DEF Init, Lanes!Init

\* The heap with its insertIds implements the per-priority FIFO lanes, for any
\* size, any priorities and any number of pushing and popping goroutines.
THEOREM QueueImplementsLanes == Spec => ImplementsLanes
<1>1. Inv /\ [Next]_vars => [Lanes!Next]_(Lanes!vars)
  BY LanesStep
<1> QED
  BY <1>1, LanesInit, Invariance, PTL DEF Spec, ImplementsLanes, Lanes!Spec
=============================================================================
