--------------------------- MODULE MCFramedWriter ---------------------------
(***************************************************************************)
(* An instance of FramedWriter for TLC: the frames that are written, one   *)
(* of them with more headers than the other end accepts.                   *)
(***************************************************************************)
EXTENDS FramedWriter

Plain == [count |-> 1, field |-> 1, names |-> {}]
MCFrames ==
    {[kind |-> "synStream", id |-> 1, headers |-> Plain, size |-> 0],
     [kind |-> "headers", id |-> 2, headers |-> [Plain EXCEPT !.names = {"Host"}], size |-> 0],
     [kind |-> "synReply", id |-> 1, headers |-> [Plain EXCEPT !.count = 3], size |-> 0],
     [kind |-> "rst", id |-> 1, headers |-> Plain, size |-> 0]}
=============================================================================
