------------------------- MODULE PriorityFrameQueue -------------------------
(***************************************************************************)
(* priority.go: the bounded, blocking priority queue between the read loop *)
(* of Connection.Serve and one frame worker.  One sync.Cond serves the     *)
(* pushers that wait for room and the poppers that wait for a frame; Wait  *)
(* releases the mutex, a woken goroutine takes it again and tests again.   *)
(*                                                                         *)
(* A call's critical section is one step.  A frame is its priority and its *)
(* insertId; the heap is the set of its entries, and heap.Pop takes the    *)
(* least of them by frameQueue.Less.                                       *)
(***************************************************************************)
EXTENDS Naturals, FiniteSets, SortedSets

CONSTANTS
    Pushers,      \* goroutines that call Push: Serve's read loop
    Poppers,      \* goroutines that call Pop in a loop: frameHandler
    Priorities,   \* priorities of the frames pushed
    Size,         \* QUEUE_SIZE
    MaxInsertId   \* bound: no Push call begins once so many frames went in

ASSUME QueueAssumption ==
    /\ Size \in Nat \ {0}
    /\ MaxInsertId \in Nat
    /\ Priorities \subseteq Nat
    /\ Pushers \cap Poppers = {}

VARIABLES
    queue,         \* q.queue, the heap's entries
    nextInsertId,  \* q.nextInsertId
    drain,         \* q.drain
    pc,            \* where each goroutine is
    arg,           \* the priority argument of each pusher's last Push call
    popped         \* history: the entries Pop has returned

vars == <<queue, nextInsertId, drain, pc, arg, popped>>

Threads == Pushers \cup Poppers
Entries == [priority: Priorities, insertId: Nat]

\* idle: outside the queue; running: in a call, about to take the mutex;
\* waiting: in q.c.Wait(); exited: a worker whose Pop returned nil.
PcStates == {"idle", "running", "waiting", "exited"}

TypeOK ==
    /\ queue \subseteq Entries /\ IsFiniteSet(queue)
    /\ nextInsertId \in Nat
    /\ drain \in BOOLEAN
    /\ pc \in [Threads -> PcStates]
    /\ arg \in [Pushers -> Priorities]
    /\ popped \subseteq Entries

-----------------------------------------------------------------------------
\* Mutants of Less: the latest insert first; one lane for all priorities.
LessNewestFirst(e, f) ==
    \/ e.priority < f.priority
    \/ e.priority = f.priority /\ e.insertId > f.insertId
LessByInsertId(e, f) == e.insertId < f.insertId

Less(e, f) ==
    \/ e.priority < f.priority
    \/ e.priority = f.priority /\ e.insertId < f.insertId

\* The entry heap.Pop returns.
IsFirst(e) == e \in queue /\ \A f \in queue \ {e} : Less(e, f)

FullOffByOne == Cardinality(queue) > Size   \* mutant of Full
Full == Cardinality(queue) >= Size

\* q.c.Signal() by a goroutine after which the goroutines are at `at`: it
\* wakes one of those that wait, whichever, if there is one.
Signal(at) ==
    IF \E t \in Threads : at[t] = "waiting"
    THEN \E t \in Threads : /\ at[t] = "waiting"
                            /\ pc' = [at EXCEPT ![t] = "running"]
    ELSE pc' = at

Broadcast ==
    pc' = [t \in Threads |-> IF pc[t] = "waiting" THEN "running" ELSE pc[t]]

Move(t, to) == pc' = [pc EXCEPT ![t] = to]

-----------------------------------------------------------------------------
Init ==
    /\ queue = {} /\ popped = {}
    /\ nextInsertId = 0
    /\ drain = FALSE
    /\ pc = [t \in Threads |-> IF t \in Pushers THEN "idle" ELSE "running"]
    /\ arg \in [Pushers -> Priorities]

\* A Push call begins.  Serve pushes only before it closes closeChan, which
\* is what starts Drain.
PushCall(p) ==
    /\ pc[p] = "idle" /\ ~drain /\ nextInsertId < MaxInsertId
    /\ \E priority \in Priorities : arg' = [arg EXCEPT ![p] = priority]
    /\ Move(p, "running")
    /\ UNCHANGED <<queue, nextInsertId, drain, popped>>

PushWait(p) ==
    /\ pc[p] = "running" /\ Full
    /\ Move(p, "waiting")
    /\ UNCHANGED <<queue, nextInsertId, drain, arg, popped>>

PushInsertSwapped(p) ==   \* mutant of PushInsert: the fields change places
    /\ pc[p] = "running" /\ ~Full
    /\ queue' = queue \cup {[priority |-> nextInsertId, insertId |-> arg[p]]}
    /\ nextInsertId' = nextInsertId + 1
    /\ Signal([pc EXCEPT ![p] = "idle"])
    /\ UNCHANGED <<drain, arg, popped>>

PushInsert(p) ==
    /\ pc[p] = "running" /\ ~Full
    /\ queue' = queue \cup {[priority |-> arg[p], insertId |-> nextInsertId]}
    /\ nextInsertId' = nextInsertId + 1
    /\ Signal([pc EXCEPT ![p] = "idle"])
    /\ UNCHANGED <<drain, arg, popped>>

\* The worker has handled the frame it popped and calls Pop again.
PopCall(c) ==
    /\ pc[c] = "idle"
    /\ Move(c, "running")
    /\ UNCHANGED <<queue, nextInsertId, drain, arg, popped>>

PopWait(c) ==
    /\ pc[c] = "running" /\ queue = {} /\ ~drain
    /\ Move(c, "waiting")
    /\ UNCHANGED <<queue, nextInsertId, drain, arg, popped>>

PopTakeSilent(c) ==   \* mutant of PopTake: no Signal
    /\ pc[c] = "running"
    /\ \E e \in queue : /\ IsFirst(e)
                        /\ queue' = queue \ {e}
                        /\ popped' = popped \cup {e}
    /\ Move(c, "idle")
    /\ UNCHANGED <<nextInsertId, drain, arg>>

PopTake(c) ==
    /\ pc[c] = "running"
    /\ \E e \in queue : /\ IsFirst(e)
                        /\ queue' = queue \ {e}
                        /\ popped' = popped \cup {e}
    /\ Signal([pc EXCEPT ![c] = "idle"])
    /\ UNCHANGED <<nextInsertId, drain, arg>>

PopNilEarly(c) ==   \* mutant of PopNil: drain tested before the queue
    /\ pc[c] = "running" /\ drain
    /\ Move(c, "exited")
    /\ UNCHANGED <<queue, nextInsertId, drain, arg, popped>>

PopNil(c) ==
    /\ pc[c] = "running" /\ queue = {} /\ drain
    /\ Move(c, "exited")
    /\ UNCHANGED <<queue, nextInsertId, drain, arg, popped>>

DrainSilent ==   \* mutant of Drain: no Broadcast
    /\ ~drain /\ \A p \in Pushers : pc[p] = "idle"
    /\ drain' = TRUE
    /\ UNCHANGED <<queue, nextInsertId, pc, arg, popped>>

\* The goroutine Serve starts per queue runs Drain once closeChan is closed:
\* the read loop has left its last Push by then.
Drain ==
    /\ ~drain /\ \A p \in Pushers : pc[p] = "idle"
    /\ drain' = TRUE
    /\ Broadcast
    /\ UNCHANGED <<queue, nextInsertId, arg, popped>>

Push(p) == PushWait(p) \/ PushInsert(p)
Pop(c) == PopCall(c) \/ PopWait(c) \/ PopTake(c) \/ PopNil(c)

Next ==
    \/ \E p \in Pushers : PushCall(p) \/ Push(p)
    \/ \E c \in Poppers : Pop(c)
    \/ Drain

Spec == Init /\ [][Next]_vars

\* A goroutine inside a call gets the mutex (Go's mutex does not starve a
\* waiter), a worker comes back for its next frame.  Nobody has to push or
\* to drain.
FairSpec ==
    /\ Spec
    /\ \A p \in Pushers : WF_vars(Push(p))
    /\ \A c \in Poppers : WF_vars(Pop(c))

-----------------------------------------------------------------------------
\* A goroutine sleeps in Wait only while its condition holds: a worker while
\* there is no frame and no Drain, a pusher while the queue is full.  Push and
\* Pop signal one waiter of the shared Cond, so a wrong or missed wake-up
\* would leave the other side asleep beside a frame or a free slot.
NoLostWakeup ==
    /\ \A c \in Poppers : pc[c] = "waiting" => queue = {} /\ ~drain
    /\ \A p \in Pushers : pc[p] = "waiting" => Full

\* The heap never outgrows the size it was made with, and every frame pushed
\* is either still in it or was handed to a worker, once.
Conservation ==
    /\ Cardinality(queue) <= Size
    /\ queue \cap popped = {}
    /\ {e.insertId : e \in queue \cup popped} = 0 .. nextInsertId - 1

\* Pop never overtakes: no frame still queued is older than one of the same
\* priority that Pop has already returned.
NoOvertaking ==
    \A e \in popped, f \in queue :
        e.priority = f.priority => e.insertId < f.insertId

\* A worker whose Pop returned nil leaves no frame behind: Drain empties the
\* queue, it does not discard it (Serve counts on it before it handles GOAWAY).
DrainLosesNothing ==
    \A c \in Poppers : pc[c] = "exited" => drain /\ queue = {}

\* A blocked Push returns: the worker's next Pop makes room and wakes it.
PushReturns == \A p \in Pushers : pc[p] \in {"running", "waiting"} ~> pc[p] = "idle"

\* After Drain every worker empties the queue and ends, so that Serve's
\* wg.Wait() returns.
WorkersEnd == drain ~> \A c \in Poppers : pc[c] = "exited"
-----------------------------------------------------------------------------
\* The frames of priority p in the heap, by insertId, and the lane they form.
LaneIds(p) == {e.insertId : e \in {f \in queue : f.priority = p}}
Lane(p) == Sorted(LaneIds(p))

Exited == {c \in Poppers : pc[c] = "exited"}

Lanes == INSTANCE PriorityLanes WITH
    Takers   <- Poppers,
    lanes    <- [p \in Priorities |-> Lane(p)],
    accepted <- nextInsertId,
    taken    <- {e.insertId : e \in popped},
    draining <- drain,
    stopped  <- Exited

\* Push, Pop and Drain do what per-priority FIFO lanes of bounded total size
\* do: heap order and insertIds of priority.go implement the lanes.
ImplementsLanes == Lanes!Spec
=============================================================================
