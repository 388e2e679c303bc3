---------------------------- MODULE PriorityLanes ----------------------------
(***************************************************************************)
(* What a priority frame queue promises, without heap, insertIds compared  *)
(* or condition variable: one first-in first-out lane per priority, at     *)
(* most Size frames in all lanes, and a taker that always serves the most  *)
(* urgent lane that is not empty.  A taker may stop only after the queue   *)
(* was drained and every lane is empty.                                    *)
(***************************************************************************)
EXTENDS Naturals, Sequences, FiniteSets

CONSTANTS Priorities, Size, Takers

VARIABLES
    lanes,      \* lanes[p]: the frames of priority p, oldest first
    accepted,   \* how many frames were put in; the n-th frame put in is n - 1
    taken,      \* frames handed out
    draining,   \* no more frames are coming
    stopped     \* takers told that nothing is left

vars == <<lanes, accepted, taken, draining, stopped>>

\* The set of all frames in the lanes.
Held == {f \in 0 .. accepted : \E p \in Priorities, i \in 1 .. accepted :
                                  i \in DOMAIN lanes[p] /\ lanes[p][i] = f}

Init ==
    /\ lanes = [p \in Priorities |-> <<>>]
    /\ accepted = 0
    /\ taken = {}
    /\ draining = FALSE
    /\ stopped = {}

Put(p) ==
    /\ ~draining
    /\ Cardinality(Held) < Size
    /\ lanes' = [lanes EXCEPT ![p] = Append(@, accepted)]
    /\ accepted' = accepted + 1
    /\ UNCHANGED <<taken, draining, stopped>>

Take(p) ==
    /\ lanes[p] # <<>>
    /\ \A r \in Priorities : r < p => lanes[r] = <<>>
    /\ taken' = taken \cup {Head(lanes[p])}
    /\ lanes' = [lanes EXCEPT ![p] = Tail(@)]
    /\ UNCHANGED <<accepted, draining, stopped>>

StartDrain ==
    /\ ~draining
    /\ draining' = TRUE
    /\ UNCHANGED <<lanes, accepted, taken, stopped>>

Stop(t) ==
    /\ draining /\ \A p \in Priorities : lanes[p] = <<>>
    /\ stopped' = stopped \cup {t}
    /\ UNCHANGED <<lanes, accepted, taken, draining>>

Next ==
    \/ \E p \in Priorities : Put(p) \/ Take(p)
    \/ StartDrain
    \/ \E t \in Takers : Stop(t)

Spec == Init /\ [][Next]_vars
=============================================================================
