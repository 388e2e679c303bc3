----------------------------- MODULE IdleFramer -----------------------------
(***************************************************************************)
(* idleAwareFramer of connection.go: WriteFrame, ReadFrame and             *)
(* setIdleTimeout report to a monitor goroutine over two small buffered    *)
(* channels; the monitor keeps the idle timer and, once Serve has closed   *)
(* closeChan, takes the channels down (issue 49).                          *)
(*                                                                         *)
(* resetChan holds tokens, so it is their number.  A Go timer (go 1.13 in  *)
(* go.mod) has a channel of one tick that Stop and Reset do not empty.     *)
(***************************************************************************)
EXTENDS Naturals

CONSTANTS
    Writers,     \* goroutines that call WriteFrame
    Setters,     \* goroutines that call setIdleTimeout
    NoOne,       \* holder of a free mutex
    MaxCalls     \* bound: calls and frames in a behaviour

ASSUME IdleAssumption ==
    /\ MaxCalls \in Nat
    /\ Writers \cap Setters = {} /\ NoOne \notin Writers \cup Setters

VARIABLES
    reset,        \* tokens in the buffer of resetChan (capacity 2)
    set,          \* timeouts in the buffer of setTimeoutChan (capacity 1)
    resetClosed,  \* resetChan is closed, and i.resetChan is nil
    setClosed,    \* setTimeoutChan is closed, and i.setTimeoutChan is nil
    writeLock, setTimeoutLock,   \* who holds the mutexes
    timeout,      \* i.timeout is not zero
    timer,        \* none, running, fired, stopped
    tick,         \* a tick is in timer.C
    monitor,      \* where the monitor goroutine is
    drainers,     \* the two goroutines that empty the channels run
    pc,           \* where the writers and setters are
    reader,       \* where Serve's read loop is
    closeChan,    \* s.closeChan is closed
    expiries,     \* history: state of the timer when the monitor expired
    calls         \* counter for the bound

chans == <<reset, set, resetClosed, setClosed>>
locks == <<writeLock, setTimeoutLock>>
timers == <<timeout, timer, tick, expiries>>
vars == <<chans, locks, timers, monitor, drainers, pc, reader, closeChan, calls>>

Threads == Writers \cup Setters
ResetCapLarge == 3   \* mutant of ResetCap
ResetCap == 2
MonitorStates == {"select", "closeReset", "closeSet", "drain", "done"}

TypeOK ==
    /\ reset \in 0 .. 2
    /\ set \in {"empty", "zero", "positive"}
    /\ resetClosed \in BOOLEAN /\ setClosed \in BOOLEAN
    /\ writeLock \in Writers \cup {NoOne}
    /\ setTimeoutLock \in Setters \cup {NoOne}
    /\ timeout \in BOOLEAN /\ tick \in BOOLEAN
    /\ timer \in {"none", "running", "fired", "stopped"}
    /\ monitor \in MonitorStates
    /\ drainers \subseteq {"reset", "set"}
    /\ pc \in [Threads -> {"idle", "lock", "held", "send"}]
    /\ reader \in {"read", "send", "close", "done"}
    /\ closeChan \in BOOLEAN
    /\ expiries \subseteq {"running", "fired", "stopped"}
    /\ calls \in Nat

Init ==
    /\ reset = 0 /\ set = "empty"
    /\ resetClosed = FALSE /\ setClosed = FALSE
    /\ writeLock = NoOne /\ setTimeoutLock = NoOne
    /\ timeout = FALSE /\ timer = "none" /\ tick = FALSE /\ expiries = {}
    /\ monitor = "select" /\ drainers = {}
    /\ pc = [t \in Threads |-> "idle"]
    /\ reader = "read" /\ closeChan = FALSE /\ calls = 0

-----------------------------------------------------------------------------
(* WriteFrame and setIdleTimeout                                           *)

Goto(t, at) == pc' = [pc EXCEPT ![t] = at]

Call(t) ==
    /\ pc[t] = "idle" /\ calls < MaxCalls
    /\ Goto(t, "lock") /\ calls' = calls + 1
    /\ UNCHANGED <<chans, locks, timers, monitor, drainers, reader, closeChan>>

\* Mutant of WriteLock: the lock does not exclude anyone.
WriteLockShared(t) ==
    /\ pc[t] = "lock"
    /\ writeLock' = t
    /\ Goto(t, "held")
    /\ UNCHANGED <<chans, setTimeoutLock, timers, monitor, drainers, reader, closeChan, calls>>

WriteLock(t) ==
    /\ pc[t] = "lock" /\ writeLock = NoOne
    /\ writeLock' = t
    /\ Goto(t, "held")
    /\ UNCHANGED <<chans, setTimeoutLock, timers, monitor, drainers, reader, closeChan, calls>>

\* EOF if resetChan is nil; otherwise the frame is written, or that fails.
Write(t) ==
    /\ pc[t] = "held"
    /\ \/ ~resetClosed /\ Goto(t, "send") /\ UNCHANGED writeLock
       \/ Goto(t, "idle") /\ writeLock' = NoOne
    /\ UNCHANGED <<chans, setTimeoutLock, timers, monitor, drainers, reader, closeChan, calls>>

\* resetChan <- struct{}{}, with writeLock held.
WriteSend(t) ==
    /\ pc[t] = "send" /\ reset < ResetCap
    /\ reset' = reset + 1
    /\ writeLock' = NoOne
    /\ Goto(t, "idle")
    /\ UNCHANGED <<set, resetClosed, setClosed, setTimeoutLock, timers, monitor, drainers,
                   reader, closeChan, calls>>

SetLock(t) ==
    /\ pc[t] = "lock" /\ setTimeoutLock = NoOne
    /\ setTimeoutLock' = IF setClosed THEN NoOne ELSE t
    /\ Goto(t, IF setClosed THEN "idle" ELSE "send")
    /\ UNCHANGED <<chans, writeLock, timers, monitor, drainers, reader, closeChan, calls>>

SetSend(t) ==
    /\ pc[t] = "send" /\ set = "empty"
    /\ set' \in {"zero", "positive"}
    /\ setTimeoutLock' = NoOne
    /\ Goto(t, "idle")
    /\ UNCHANGED <<reset, resetClosed, setClosed, writeLock, timers, monitor, drainers,
                   reader, closeChan, calls>>

-----------------------------------------------------------------------------
(* ReadFrame, in Serve's read loop, which closes closeChan at its end      *)

ReadFrame ==
    /\ reader = "read" /\ calls < MaxCalls
    /\ reader' = "send" /\ calls' = calls + 1
    /\ UNCHANGED <<chans, locks, timers, monitor, drainers, pc, closeChan>>

ReadSend ==
    /\ reader = "send" /\ reset < ResetCap
    /\ reset' = reset + 1
    /\ reader' = "read"
    /\ UNCHANGED <<set, resetClosed, setClosed, locks, timers, monitor, drainers, pc,
                   closeChan, calls>>

\* A read fails, be it that the peer hung up or that Close has closed the
\* network connection.
ReadError ==
    /\ reader = "read"
    /\ reader' = "close"
    /\ UNCHANGED <<chans, locks, timers, monitor, drainers, pc, closeChan, calls>>

CloseChan ==
    /\ reader = "close"
    /\ closeChan' = TRUE /\ reader' = "done"
    /\ UNCHANGED <<chans, locks, timers, monitor, drainers, pc, calls>>

-----------------------------------------------------------------------------
(* The monitor                                                             *)

TimerFires ==
    /\ timer = "running"
    /\ timer' = "fired" /\ tick' = TRUE
    /\ UNCHANGED <<chans, locks, timeout, expiries, monitor, drainers, pc, reader,
                   closeChan, calls>>

MonitorSet ==
    /\ monitor = "select" /\ set # "empty"
    /\ set' = "empty"
    /\ timeout' = (set = "positive")
    /\ timer' = IF set = "positive" THEN "running"
                ELSE IF timer = "none" THEN "none" ELSE "stopped"
    /\ UNCHANGED <<reset, resetClosed, setClosed, locks, tick, expiries, monitor, drainers,
                   pc, reader, closeChan, calls>>

MonitorResetTimed ==   \* mutant of MonitorReset: tokens taken only with a timer
    /\ monitor = "select" /\ reset > 0 /\ timer # "none"
    /\ reset' = reset - 1
    /\ timer' = IF timeout THEN "running" ELSE timer
    /\ UNCHANGED <<set, resetClosed, setClosed, locks, timeout, tick, expiries, monitor,
                   drainers, pc, reader, closeChan, calls>>

MonitorReset ==
    /\ monitor = "select" /\ reset > 0
    /\ reset' = reset - 1
    /\ timer' = IF timer # "none" /\ timeout THEN "running" ELSE timer
    /\ UNCHANGED <<set, resetClosed, setClosed, locks, timeout, tick, expiries, monitor,
                   drainers, pc, reader, closeChan, calls>>

\* The streams are taken out of the table; a goroutine, one of the Writers
\* here, resets them and closes the connection.
MonitorExpired ==
    /\ monitor = "select" /\ tick
    /\ tick' = FALSE
    /\ expiries' = expiries \cup {timer}
    /\ UNCHANGED <<chans, locks, timeout, timer, monitor, drainers, pc, reader, closeChan, calls>>

MonitorClosingUndrained ==   \* mutant of MonitorClosing: before issue 49
    /\ monitor = "select" /\ closeChan
    /\ timer' = IF timer = "none" THEN "none" ELSE "stopped"
    /\ monitor' = "closeReset"
    /\ UNCHANGED <<chans, locks, timeout, tick, expiries, drainers, pc, reader, closeChan, calls>>

\* Stop the timer and start the goroutines that drain the two channels.
MonitorClosing ==
    /\ monitor = "select" /\ closeChan
    /\ timer' = IF timer = "none" THEN "none" ELSE "stopped"
    /\ drainers' = {"reset", "set"}
    /\ monitor' = "closeReset"
    /\ UNCHANGED <<chans, locks, timeout, tick, expiries, pc, reader, closeChan, calls>>

MonitorCloseUnlocked ==   \* mutant of MonitorCloseReset: writeLock is not taken
    /\ monitor = "closeReset"
    /\ resetClosed' = TRUE
    /\ monitor' = "closeSet"
    /\ UNCHANGED <<reset, set, setClosed, locks, timers, drainers, pc, reader, closeChan, calls>>

MonitorCloseReset ==
    /\ monitor = "closeReset" /\ writeLock = NoOne
    /\ resetClosed' = TRUE
    /\ monitor' = "closeSet"
    /\ UNCHANGED <<reset, set, setClosed, locks, timers, drainers, pc, reader, closeChan, calls>>

MonitorCloseSet ==
    /\ monitor = "closeSet" /\ setTimeoutLock = NoOne
    /\ setClosed' = TRUE
    /\ monitor' = "drain"
    /\ UNCHANGED <<reset, set, resetClosed, locks, timers, drainers, pc, reader, closeChan, calls>>

\* The monitor's last loop ranges over resetChan beside the drainer.
MonitorEnds ==
    /\ monitor = "drain" /\ reset = 0
    /\ monitor' = "done"
    /\ UNCHANGED <<chans, locks, timers, drainers, pc, reader, closeChan, calls>>

DrainReset ==
    /\ "reset" \in drainers \/ monitor = "drain"
    /\ reset > 0
    /\ reset' = reset - 1
    /\ UNCHANGED <<set, resetClosed, setClosed, locks, timers, monitor, drainers, pc,
                   reader, closeChan, calls>>

DrainSet ==
    /\ "set" \in drainers /\ set # "empty"
    /\ set' = "empty"
    /\ UNCHANGED <<reset, resetClosed, setClosed, locks, timers, monitor, drainers, pc,
                   reader, closeChan, calls>>

\* A drainer's range loop ends once its channel is closed and empty.
DrainerEnds ==
    /\ \/ resetClosed /\ reset = 0 /\ "reset" \in drainers /\ drainers' = drainers \ {"reset"}
       \/ setClosed /\ set = "empty" /\ "set" \in drainers /\ drainers' = drainers \ {"set"}
    /\ UNCHANGED <<chans, locks, timers, monitor, pc, reader, closeChan, calls>>

-----------------------------------------------------------------------------
WriterStep(t) == WriteLock(t) \/ Write(t) \/ WriteSend(t)
SetterStep(t) == SetLock(t) \/ SetSend(t)
ReaderStep == ReadSend \/ CloseChan
MonitorStep ==
    \/ MonitorSet \/ MonitorReset \/ MonitorExpired \/ MonitorClosing
    \/ MonitorCloseReset \/ MonitorCloseSet \/ MonitorEnds
Drainers == DrainReset \/ DrainSet \/ DrainerEnds

Next ==
    \/ \E t \in Threads : Call(t)
    \/ \E t \in Writers : WriterStep(t)
    \/ \E t \in Setters : SetterStep(t)
    \/ ReadFrame \/ ReadError \/ ReaderStep
    \/ MonitorStep \/ Drainers \/ TimerFires

Spec == Init /\ [][Next]_vars

\* Each goroutine that can run does.  The bound on calls stands for Go's
\* mutexes and select not passing over anyone for ever.
FairSpec ==
    /\ Spec
    /\ \A t \in Writers : WF_vars(WriterStep(t))
    /\ \A t \in Setters : WF_vars(SetterStep(t))
    /\ WF_vars(ReaderStep) /\ WF_vars(MonitorStep) /\ WF_vars(Drainers)

-----------------------------------------------------------------------------
(* Properties                                                              *)

\* connection.go:172: nobody sends on a channel the monitor has closed, which
\* would panic: writers and setters by their locks, the reader because
\* closeChan is closed only after its last ReadFrame.
NoSendOnClosed ==
    /\ \A t \in Writers : pc[t] = "send" => ~resetClosed
    /\ \A t \in Setters : pc[t] = "send" => ~setClosed
    /\ reader = "send" => ~resetClosed

\* Issue 49: who is blocked sending on a full channel, most of all with the lock
\* that the monitor waits for, has someone at its other end who waits for nobody;
\* and a lock is held by a goroutine that is on its way to release it.
NoCircularWait ==
    /\ reader = "send" \/ (\E t \in Writers : pc[t] = "send") =>
          monitor = "select" \/ "reset" \in drainers
    /\ (\E t \in Setters : pc[t] = "send") => monitor = "select" \/ "set" \in drainers
    /\ writeLock # NoOne => pc[writeLock] \in {"held", "send"}
    /\ setTimeoutLock # NoOne => pc[setTimeoutLock] = "send"

\* So WriteFrame, ReadFrame and setIdleTimeout always return, also while the
\* monitor goes down.
CallsReturn ==
    /\ \A t \in Threads : pc[t] # "idle" ~> pc[t] = "idle"
    /\ reader = "send" ~> reader = "read"

\* Once closeChan is closed the monitor and its drainers end: no goroutine
\* leaks from a connection.
MonitorGoesDown == closeChan ~> monitor = "done" /\ drainers = {}

\* spdy_test.go:527: a connection whose idle timeout was cleared is not closed
\* by the timer.  A tick left in timer.C by Stop is still received.
ClearedTimeoutNeverExpires == "stopped" \notin expiries
=============================================================================
