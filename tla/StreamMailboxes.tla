--------------------------- MODULE StreamMailboxes ---------------------------
(***************************************************************************)
(* What Serve promises the streams, without workers, queues, priorities,   *)
(* partition or table: every stream has a mailbox, first in first out; one *)
(* handler at a time takes the frames from it; frames of no stream are     *)
(* handled in any order; no frame for a handler is dropped; and the end    *)
(* begins when nothing more is read and all that was read is handled.      *)
(***************************************************************************)
EXTENDS Naturals, Sequences

CONSTANTS Streams, NoStream

VARIABLES
    arrived,   \* how many frames were read; the n-th is called n
    incoming,  \* whose the frame n is while it is not yet in its mailbox
    mailbox,   \* mailbox[s]: the frames of stream s no handler took, oldest first
    handling,  \* handling[s]: the frame in a handler of s, a set of at most one
    loose,     \* frames of no stream that are not handled yet
    closed,    \* nothing more is read
    ended      \* the end has begun

vars == <<arrived, incoming, mailbox, handling, loose, closed, ended>>

Init ==
    /\ arrived = 0 /\ incoming = {}
    /\ mailbox = [s \in Streams |-> <<>>]
    /\ handling = [s \in Streams |-> {}]
    /\ loose = {}
    /\ closed = FALSE /\ ended = FALSE

\* A frame for a handler is read.
Receive(s) ==
    /\ ~closed /\ incoming = {}
    /\ arrived' = arrived + 1
    /\ incoming' = {s}
    /\ UNCHANGED <<mailbox, handling, loose, closed, ended>>

\* A frame no handler gets: a stream that is refused, GOAWAY.
Ignore ==
    /\ ~closed /\ incoming = {}
    /\ arrived' = arrived + 1
    /\ UNCHANGED <<incoming, mailbox, handling, loose, closed, ended>>

Deliver(s) ==
    /\ incoming = {s}
    /\ mailbox' = [mailbox EXCEPT ![s] = Append(@, arrived)]
    /\ incoming' = {}
    /\ UNCHANGED <<arrived, handling, loose, closed, ended>>

DeliverLoose ==
    /\ incoming = {NoStream}
    /\ loose' = loose \cup {arrived}
    /\ incoming' = {}
    /\ UNCHANGED <<arrived, mailbox, handling, closed, ended>>

Begin(s) ==
    /\ handling[s] = {} /\ mailbox[s] # <<>>
    /\ handling' = [handling EXCEPT ![s] = {Head(mailbox[s])}]
    /\ mailbox' = [mailbox EXCEPT ![s] = Tail(@)]
    /\ UNCHANGED <<arrived, incoming, loose, closed, ended>>

Finish(s) ==
    /\ handling[s] # {}
    /\ handling' = [handling EXCEPT ![s] = {}]
    /\ UNCHANGED <<arrived, incoming, mailbox, loose, closed, ended>>

FinishLoose(n) ==
    /\ loose' = loose \ {n}
    /\ UNCHANGED <<arrived, incoming, mailbox, handling, closed, ended>>

Close ==
    /\ ~closed /\ incoming = {}
    /\ closed' = TRUE
    /\ UNCHANGED <<arrived, incoming, mailbox, handling, loose, ended>>

End ==
    /\ closed /\ loose = {}
    /\ \A s \in Streams : mailbox[s] = <<>> /\ handling[s] = {}
    /\ ended' = TRUE
    /\ UNCHANGED <<arrived, incoming, mailbox, handling, loose, closed>>

Next ==
    \/ \E s \in Streams \cup {NoStream} : Receive(s)
    \/ \E s \in Streams : Deliver(s) \/ Begin(s) \/ Finish(s)
    \/ \E n \in loose : FinishLoose(n)
    \/ Ignore \/ DeliverLoose \/ Close \/ End

Spec == Init /\ [][Next]_vars
=============================================================================
