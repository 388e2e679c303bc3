------------------------------ MODULE MCStream ------------------------------
(***************************************************************************)
(* Instances of Stream for TLC: which goroutine may call which methods.    *)
(***************************************************************************)
EXTENDS Stream, TLC

CONSTANTS reader, writer, closer

\* One goroutine reads, one writes and finishes, one waits and aborts.
SafetyCalls ==
    reader :> {"Read", "ReadData", "ReceiveHeader"}
    @@ writer :> {"Write", "Close", "SendReply", "SendHeaderFin"}
    @@ closer :> {"Reset", "WriteFin", "Refuse", "WaitTimeout"}

\* One goroutine makes the calls that block, the other those that release it.
LivenessCalls ==
    reader :> {"Read", "ReceiveHeader", "Write"}
    @@ closer :> {"SendReply", "Reset", "Refuse"}

\* Single methods, for the runs about what a comment says of them.
CloseOnly == closer :> {"Close"}
WaitOnly  == reader :> {"Wait"} @@ closer :> {"Wait"}
=============================================================================
