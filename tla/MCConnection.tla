---------------------------- MODULE MCConnection ----------------------------
(***************************************************************************)
(* An instance of Connection for TLC: which goroutine makes which calls.   *)
(***************************************************************************)
EXTENDS Connection, TLC

CONSTANTS closer, other

\* One goroutine closes and waits, the other changes the settings meanwhile.
ConnectionCalls ==
    closer :> {"CreateStream", "CloseWait", "Ping"}
    @@ other :> {"CreateStream", "FindStream", "SetCloseTimeout", "NotifyClose", "Close", "Wait", "Ping"}
=============================================================================
