------------------------------- MODULE Stream -------------------------------
(***************************************************************************)
(* One stream at one end of a connection: the methods of stream.go, called *)
(* by concurrent goroutines, against the frames of the peer, handled by    *)
(* the stream's frame worker (handle*Frame and remoteStreamFinish of       *)
(* connection.go), and against the end of Serve.                           *)
(*                                                                         *)
(* A step is a critical section, a channel operation or a write to the     *)
(* connection.  startChan, dataChan and headerChan are unbuffered: a send  *)
(* and its receive are one joint step.  A frame the peer sent is chosen    *)
(* when the worker pops it, among those a peer that follows SPDY can send. *)
(***************************************************************************)
EXTENDS Naturals, Sequences

CONSTANTS
    Apps,       \* goroutines that use the stream
    Calls,      \* Calls[t]: the methods goroutine t may call
    Origins,    \* the sides to check: "created" here, "accepted" from the peer
    MaxCalls,   \* bound: method calls in a behaviour
    MaxFrames   \* bound: frames from the peer in a behaviour

VARIABLES
    origin,     \* "created" by CreateStream, "accepted" by addStreamFrame
    inTable,    \* the stream is in conn.streams
    finished,   \* s.finished
    replied,    \* s.replied
    closed,     \* s.closeChan is closed
    started,    \* s.startChan is closed
    unread,     \* s.unread # nil
    phase,      \* Serve: serving, closing (closeChan closed), done (cleaned up)
    worker,     \* the frame worker: where it is, in the handler of which frame
    app,        \* app[t]: where goroutine t is, the frame its call will write
    sent,       \* history: frames written to the connection, in order
    peer,       \* history: what the peer has sent so far
    resetCalled,\* history: Reset, or idle expiry, was called
    lost,       \* history: why data was dropped without reaching a reader
    waits,      \* history: what calls of Wait and WaitTimeout returned
    calls, frames   \* counters for the bounds

streamVars == <<origin, inTable, finished, replied, closed, started, unread>>
history == <<sent, peer, resetCalled, lost, waits>>
vars == <<streamVars, phase, worker, app, history, calls, frames>>

-----------------------------------------------------------------------------
(* The entry point of each method and the frame it writes. Idle expiry takes
   all streams out of the table and then calls resetStream on each: for one
   stream, what Reset does.                                                 *)
Entry == [
    Close         |-> [at |-> "closeCheck", frame |-> "FIN"],
    Write         |-> [at |-> "waitReply",  frame |-> "DATA"],
    WriteFin      |-> [at |-> "waitReply",  frame |-> "FIN"],
    Reset         |-> [at |-> "remove",     frame |-> "RST"],
    SendReply     |-> [at |-> "reply",      frame |-> "REPLY"],
    SendReplyFin  |-> [at |-> "reply",      frame |-> "REPLYFIN"],
    Refuse        |-> [at |-> "refuse",     frame |-> "REFUSED"],
    Cancel        |-> [at |-> "send",       frame |-> "CANCEL"],
    SendHeader    |-> [at |-> "send",       frame |-> "HEADERS"],
    SendHeaderFin |-> [at |-> "send",       frame |-> "HEADERSFIN"],
    Wait          |-> [at |-> "wait",       frame |-> "none"],
    WaitTimeout   |-> [at |-> "wait",       frame |-> "timer"],
    Read          |-> [at |-> "read",       frame |-> "none"],
    ReadData      |-> [at |-> "readData",   frame |-> "none"],
    ReceiveHeader |-> [at |-> "recvHeader", frame |-> "none"]]

Methods == DOMAIN Entry
Frames == {Entry[m].frame : m \in Methods}
AppStates == {Entry[m].at : m \in Methods} \cup
    {"idle", "parked", "finish", "sendReply", "closeRemote", "finishReset", "select"}

Kinds == {"REPLY", "DATA", "EMPTY", "HEADERS", "RST"}
WorkerStates == {"idle", "handler", "remove", "checkReplied", "deliver", "closeRemote",
                 "finishCheck", "sendStart", "closeStart", "setFinished"}

ASSUME StreamAssumption ==
    /\ Calls \in [Apps -> SUBSET Methods]
    /\ Origins \subseteq {"created", "accepted"}
    /\ MaxCalls \in Nat /\ MaxFrames \in Nat

TypeOK ==
    /\ origin \in {"created", "accepted"}
    /\ inTable \in BOOLEAN /\ finished \in BOOLEAN /\ replied \in BOOLEAN
    /\ closed \in BOOLEAN /\ started \in BOOLEAN /\ unread \in BOOLEAN
    /\ phase \in {"serving", "closing", "done"}
    /\ worker \in [at: WorkerStates, kind: Kinds, fin: BOOLEAN]
    /\ app \in [Apps -> [at: AppStates, frame: Frames]]
    /\ sent \in Seq(Frames)
    /\ peer \in [replied: BOOLEAN, fin: BOOLEAN, rst: BOOLEAN]
    /\ resetCalled \in BOOLEAN
    /\ lost \subseteq {"early", "closed", "gone", "overwritten"}
    /\ waits \subseteq {"nil", "reset", "timeout"}
    /\ calls \in Nat /\ frames \in Nat
    /\ \A t \in Apps : app[t].at = "parked" => origin = "accepted"

-----------------------------------------------------------------------------
\* CreateStream has returned, or addStreamFrame has added the stream and the
\* worker is about to call the stream handler.  fin and unidirectional are the
\* flags of the SYN_STREAM.
InitCreated(fin) ==
    /\ origin = "created" /\ finished = fin /\ closed = FALSE
    /\ worker = [at |-> "idle", kind |-> "REPLY", fin |-> FALSE]

InitAccepted(fin, unidirectional) ==
    /\ origin = "accepted" /\ finished = unidirectional /\ closed = fin
    /\ worker = [at |-> "handler", kind |-> "REPLY", fin |-> FALSE]

Init ==
    /\ \E fin, unidirectional \in BOOLEAN :
          /\ InitCreated(fin) \/ InitAccepted(fin, unidirectional)
          /\ peer = [replied |-> FALSE, fin |-> closed, rst |-> FALSE]
    /\ origin \in Origins
    /\ inTable = TRUE
    /\ replied = FALSE /\ started = FALSE /\ unread = FALSE
    /\ phase = "serving"
    /\ app = [t \in Apps |-> [at |-> "idle", frame |-> "none"]]
    /\ sent = <<>> /\ resetCalled = FALSE /\ lost = {} /\ waits = {}
    /\ calls = 0 /\ frames = 0

-----------------------------------------------------------------------------
(* Calls of the application                                                *)

At(t, at) == app[t].at = at
Goto(t, at) == app' = [app EXCEPT ![t].at = at]
Return(t) == Goto(t, "idle")

\* Nobody is inside SendReply: replyCond.L is free.
ReplyLockFree == \A t \in Apps : ~At(t, "sendReply")

\* Replies and refusals are for streams the peer created.
Call(t) ==
    /\ At(t, "idle") /\ calls < MaxCalls
    /\ \E m \in Calls[t] :
          /\ m \in {"SendReply", "SendReplyFin", "Refuse"} => origin = "accepted"
          /\ app' = [app EXCEPT ![t] = Entry[m]]
          /\ resetCalled' = (resetCalled \/ m = "Reset")
    /\ calls' = calls + 1
    /\ UNCHANGED <<streamVars, phase, worker, sent, peer, lost, waits, frames>>

CloseCheckRemoves(t) ==   \* mutant of CloseCheck: closeChan is not tested
    /\ At(t, "closeCheck")
    /\ inTable' = FALSE
    /\ Goto(t, "waitReply")
    /\ UNCHANGED <<origin, finished, replied, closed, started, unread, phase,
                   worker, history, calls, frames>>

\* Close removes a stream the peer has finished; then WriteData(empty, true).
CloseCheck(t) ==
    /\ At(t, "closeCheck")
    /\ inTable' = (inTable /\ ~closed)
    /\ Goto(t, "waitReply")
    /\ UNCHANGED <<origin, finished, replied, closed, started, unread, phase,
                   worker, history, calls, frames>>

WaitWriteReplyAlways(t) ==   \* mutant of WaitWriteReply: replyCond not tested for nil
    /\ At(t, "waitReply") /\ ReplyLockFree
    /\ Goto(t, IF ~replied THEN "parked"
               ELSE IF app[t].frame = "FIN" THEN "finish" ELSE "send")
    /\ UNCHANGED <<streamVars, phase, worker, history, calls, frames>>

\* waitWriteReply: only an accepted stream has a replyCond.
WaitWriteReply(t) ==
    /\ At(t, "waitReply")
    /\ origin = "accepted" => ReplyLockFree
    /\ Goto(t, IF origin = "accepted" /\ ~replied THEN "parked"
               ELSE IF app[t].frame = "FIN" THEN "finish" ELSE "send")
    /\ UNCHANGED <<streamVars, phase, worker, history, calls, frames>>

FinishUnchecked(t) ==   \* mutant of Finish: s.finished is set, never tested
    /\ At(t, "finish")
    /\ finished' = TRUE
    /\ Goto(t, "send")
    /\ UNCHANGED <<origin, inTable, replied, closed, started, unread, phase,
                   worker, history, calls, frames>>

\* WriteData with fin, under finishLock: ErrWriteClosedStream if finished.
Finish(t) ==
    /\ At(t, "finish")
    /\ finished' = TRUE
    /\ IF finished THEN Return(t) ELSE Goto(t, "send")
    /\ UNCHANGED <<origin, inTable, replied, closed, started, unread, phase,
                   worker, history, calls, frames>>

\* framer.WriteFrame, which may fail and write nothing.
Send(t) ==
    /\ At(t, "send")
    /\ sent' \in {sent, Append(sent, app[t].frame)}
    /\ Return(t)
    /\ UNCHANGED <<streamVars, phase, worker, peer, resetCalled, lost, waits, calls, frames>>

\* Reset: removeStream, then resetStream.
ResetRemove(t) ==
    /\ At(t, "remove")
    /\ inTable' = FALSE
    /\ Goto(t, "closeRemote")
    /\ UNCHANGED <<origin, finished, replied, closed, started, unread, phase,
                   worker, history, calls, frames>>

ResetCloseUnlessFinished(t) ==   \* mutant: a finished stream is left alone
    /\ At(t, "closeRemote")
    /\ closed' = (closed \/ ~finished)
    /\ Goto(t, "finishReset")
    /\ UNCHANGED <<origin, inTable, finished, replied, started, unread, phase,
                   worker, history, calls, frames>>

ResetClose(t) ==
    /\ At(t, "closeRemote")
    /\ closed' = TRUE
    /\ Goto(t, "finishReset")
    /\ UNCHANGED <<origin, inTable, finished, replied, started, unread, phase,
                   worker, history, calls, frames>>

ResetFinish(t) ==
    /\ At(t, "finishReset")
    /\ finished' = TRUE
    /\ IF finished THEN Return(t) ELSE Goto(t, "send")
    /\ UNCHANGED <<origin, inTable, replied, closed, started, unread, phase,
                   worker, history, calls, frames>>

\* SendReply takes replyCond.L and keeps it while it writes the reply.
ReplyCheck(t) ==
    /\ At(t, "reply") /\ ReplyLockFree
    /\ IF replied THEN Return(t) ELSE Goto(t, "sendReply")
    /\ UNCHANGED <<streamVars, phase, worker, history, calls, frames>>

SendReplySilent(t) ==   \* mutant of SendReply: no Broadcast
    /\ At(t, "sendReply")
    /\ sent' = Append(sent, app[t].frame)
    /\ replied' = TRUE
    /\ Return(t)
    /\ UNCHANGED <<origin, inTable, finished, closed, started, unread, phase,
                   worker, peer, resetCalled, lost, waits, calls, frames>>

SendReply(t) ==
    /\ At(t, "sendReply")
    /\ \/ /\ sent' = Append(sent, app[t].frame)
          /\ replied' = TRUE
          /\ app' = [u \in Apps |->
                       IF u = t THEN [app[u] EXCEPT !.at = "idle"]
                       ELSE IF At(u, "parked") THEN [app[u] EXCEPT !.at = "waitReply"]
                       ELSE app[u]]
       \/ /\ Return(t)
          /\ UNCHANGED <<sent, replied>>
    /\ UNCHANGED <<origin, inTable, finished, closed, started, unread, phase,
                   worker, peer, resetCalled, lost, waits, calls, frames>>

\* Refuse takes no lock.  Its test and set are one step, as are a handler's:
\* whoever writes replied writes TRUE.
Refuse(t) ==
    /\ At(t, "refuse")
    /\ replied' = TRUE
    /\ IF replied THEN Return(t) ELSE Goto(t, "send")
    /\ UNCHANGED <<origin, inTable, finished, closed, started, unread, phase,
                   worker, history, calls, frames>>

\* WaitTimeout: startChan is closed, the worker sends ErrReset on it
\* (WorkerSendStart), or the timer fires.
WaitReturns(t) ==
    /\ At(t, "wait")
    /\ \/ started /\ waits' = waits \cup {"nil"}
       \/ app[t].frame = "timer" /\ waits' = waits \cup {"timeout"}
    /\ Return(t)
    /\ UNCHANGED <<streamVars, phase, worker, sent, peer, resetCalled, lost, calls, frames>>

\* Read and ReadData test s.unread, which no lock guards.  A Read that finds
\* some takes all or part of it; ReadData refuses.
ReadCheck(t) ==
    /\ At(t, "read") \/ At(t, "readData")
    /\ \/ ~unread /\ Goto(t, "select") /\ UNCHANGED unread
       \/ unread /\ At(t, "read") /\ Return(t) /\ unread' \in BOOLEAN
       \/ unread /\ At(t, "readData") /\ Return(t) /\ UNCHANGED unread
    /\ UNCHANGED <<origin, inTable, finished, replied, closed, started, phase,
                   worker, history, calls, frames>>

ReadEOFDataOnly(t) ==   \* mutant of ReadEOF: ReceiveHeader ignores closeChan
    /\ At(t, "select")
    /\ closed
    /\ Return(t)
    /\ UNCHANGED <<streamVars, phase, worker, history, calls, frames>>

\* Read, ReadData and ReceiveHeader end once closeChan is closed.
ReadEOF(t) ==
    /\ At(t, "select") \/ At(t, "recvHeader")
    /\ closed
    /\ Return(t)
    /\ UNCHANGED <<streamVars, phase, worker, history, calls, frames>>

-----------------------------------------------------------------------------
(* The frame worker                                                        *)

WorkerGoto(at) == worker' = [worker EXCEPT !.at = at]

\* What a peer that follows SPDY may send: after its FIN only a reset, after a
\* reset nothing, on a stream we created no data before its reply.
Legal(kind, fin) ==
    /\ ~peer.rst
    /\ peer.fin => kind = "RST"
    /\ kind = "REPLY" => origin = "created" /\ ~peer.replied
    /\ kind \in {"DATA", "EMPTY"} => origin = "accepted" \/ peer.replied
    /\ kind = "RST" => ~fin

\* The stream handler of an accepted stream runs on the worker.
HandlerReturns ==
    /\ worker.at = "handler"
    /\ WorkerGoto("idle")
    /\ UNCHANGED <<streamVars, phase, app, history, calls, frames>>

\* Pop and getStream. A frame for a stream that is not in the table is dropped.
Receive(kind, fin) ==
    /\ worker.at = "idle" /\ phase # "done" /\ frames < MaxFrames
    /\ Legal(kind, fin)
    /\ peer' = [replied |-> peer.replied \/ kind = "REPLY",
                fin |-> peer.fin \/ fin, rst |-> peer.rst \/ kind = "RST"]
    /\ worker' = [kind |-> kind, fin |-> fin,
                  at |-> IF ~inTable THEN "idle"
                         ELSE IF kind = "RST" THEN "remove" ELSE "checkReplied"]
    /\ lost' = IF kind = "DATA" /\ ~inTable THEN lost \cup {"gone"} ELSE lost
    /\ frames' = frames + 1
    /\ UNCHANGED <<streamVars, phase, app, sent, resetCalled, waits, calls>>

\* handleResetFrame: removeStream and closeRemoteChannels come first.
WorkerRemove ==
    /\ worker.at = "remove"
    /\ inTable' = FALSE
    /\ WorkerGoto("closeRemote")
    /\ UNCHANGED <<origin, finished, replied, closed, started, unread, phase,
                   app, history, calls, frames>>

ResetUnchecked ==   \* mutant of AfterReplyCheck: a reset always reports ErrReset
    CASE worker.kind = "REPLY" -> IF replied THEN "idle"
                                  ELSE IF worker.fin THEN "closeRemote" ELSE "closeStart"
      [] worker.kind = "RST"   -> "sendStart"
      [] worker.kind = "EMPTY" -> IF replied /\ worker.fin THEN "closeRemote" ELSE "idle"
      [] OTHER                 -> IF replied THEN "deliver" ELSE "idle"

AfterReplyCheck ==
    CASE worker.kind = "REPLY" -> IF replied THEN "idle"
                                  ELSE IF worker.fin THEN "closeRemote" ELSE "closeStart"
      [] worker.kind = "RST"   -> IF replied THEN "setFinished" ELSE "sendStart"
      [] worker.kind = "EMPTY" -> IF replied /\ worker.fin THEN "closeRemote" ELSE "idle"
      [] OTHER                 -> IF replied THEN "deliver" ELSE "idle"

\* The handlers test stream.replied, without its lock; a reply and a reset set
\* it.  Data and headers on a stream without a reply are dropped.
CheckReplied ==
    /\ worker.at = "checkReplied"
    /\ replied' = (replied \/ worker.kind \in {"REPLY", "RST"})
    /\ lost' = IF worker.kind = "DATA" /\ ~replied THEN lost \cup {"early"} ELSE lost
    /\ WorkerGoto(AfterReplyCheck)
    /\ UNCHANGED <<origin, inTable, finished, closed, started, unread, phase,
                   app, sent, peer, resetCalled, waits, calls, frames>>

AfterDelivery == IF worker.fin THEN "closeRemote" ELSE "idle"

\* The select on dataChan: a blocked Read takes the frame, whole or in part.
DeliverData(t) ==
    /\ worker.at = "deliver" /\ worker.kind = "DATA" /\ At(t, "select")
    /\ unread' \in BOOLEAN
    /\ lost' = IF unread THEN lost \cup {"overwritten"} ELSE lost
    /\ Return(t)
    /\ WorkerGoto(AfterDelivery)
    /\ UNCHANGED <<origin, inTable, finished, replied, closed, started, phase,
                   sent, peer, resetCalled, waits, calls, frames>>

DeliverHeaders(t) ==
    /\ worker.at = "deliver" /\ worker.kind = "HEADERS" /\ At(t, "recvHeader")
    /\ Return(t)
    /\ WorkerGoto(AfterDelivery)
    /\ UNCHANGED <<streamVars, phase, history, calls, frames>>

\* The other branch of the select: handleHeaderFrame returns at once.
DeliverClosed ==
    /\ worker.at = "deliver" /\ closed
    /\ lost' = IF worker.kind = "DATA" THEN lost \cup {"closed"} ELSE lost
    /\ WorkerGoto(IF worker.kind = "DATA" THEN AfterDelivery ELSE "idle")
    /\ UNCHANGED <<streamVars, phase, app, sent, peer, resetCalled, waits, calls, frames>>

WorkerClose ==
    /\ worker.at = "closeRemote"
    /\ closed' = TRUE
    /\ WorkerGoto(IF worker.kind = "RST" THEN "checkReplied" ELSE "finishCheck")
    /\ UNCHANGED <<origin, inTable, finished, replied, started, unread, phase,
                   app, history, calls, frames>>

FinishCheckRemoves ==   \* mutant of FinishCheck: finished is not tested
    /\ worker.at = "finishCheck"
    /\ inTable' = FALSE
    /\ WorkerGoto(IF worker.kind = "REPLY" THEN "closeStart" ELSE "idle")
    /\ UNCHANGED <<origin, finished, replied, closed, started, unread, phase,
                   app, history, calls, frames>>

\* remoteStreamFinish, under finishLock: removes the stream if both sides are done.
FinishCheck ==
    /\ worker.at = "finishCheck"
    /\ inTable' = (inTable /\ ~finished)
    /\ WorkerGoto(IF worker.kind = "REPLY" THEN "closeStart" ELSE "idle")
    /\ UNCHANGED <<origin, finished, replied, closed, started, unread, phase,
                   app, history, calls, frames>>

\* stream.startChan <- ErrReset blocks until somebody waits for the reply.
WorkerSendStart(t) ==
    /\ worker.at = "sendStart" /\ At(t, "wait")
    /\ waits' = waits \cup {"reset"}
    /\ Return(t)
    /\ WorkerGoto("closeStart")
    /\ UNCHANGED <<streamVars, phase, sent, peer, resetCalled, lost, calls, frames>>

CloseStart ==
    /\ worker.at = "closeStart"
    /\ started' = TRUE
    /\ WorkerGoto(IF worker.kind = "RST" THEN "setFinished" ELSE "idle")
    /\ UNCHANGED <<origin, inTable, finished, replied, closed, unread, phase,
                   app, history, calls, frames>>

SetFinished ==
    /\ worker.at = "setFinished"
    /\ finished' = TRUE
    /\ WorkerGoto("idle")
    /\ UNCHANGED <<origin, inTable, replied, closed, started, unread, phase,
                   app, history, calls, frames>>

-----------------------------------------------------------------------------
(* The end of Serve                                                        *)

\* The read loop ends and closes closeChan; frames still queued are handled.
ReadLoopEnds ==
    /\ phase = "serving"
    /\ phase' = "closing"
    /\ UNCHANGED <<streamVars, worker, app, history, calls, frames>>

\* After wg.Wait(): close the remote side of all streams, empty the table.
Cleanup ==
    /\ phase = "closing" /\ worker.at = "idle"
    /\ phase' = "done"
    /\ closed' = (closed \/ inTable)
    /\ inTable' = FALSE
    /\ UNCHANGED <<origin, finished, replied, started, unread, worker, app,
                   history, calls, frames>>

-----------------------------------------------------------------------------
AppStep(t) ==
    \/ CloseCheck(t) \/ WaitWriteReply(t) \/ Finish(t) \/ Send(t)
    \/ ResetRemove(t) \/ ResetClose(t) \/ ResetFinish(t)
    \/ ReplyCheck(t) \/ SendReply(t) \/ Refuse(t)
    \/ WaitReturns(t) \/ ReadCheck(t) \/ ReadEOF(t)

WorkerStep ==
    \/ HandlerReturns \/ WorkerRemove \/ CheckReplied \/ DeliverClosed
    \/ WorkerClose \/ FinishCheck \/ CloseStart \/ SetFinished
    \/ \E t \in Apps : DeliverData(t) \/ DeliverHeaders(t) \/ WorkerSendStart(t)

Next ==
    \/ \E t \in Apps : Call(t) \/ AppStep(t)
    \/ WorkerStep
    \/ \E kind \in Kinds, fin \in BOOLEAN : Receive(kind, fin)
    \/ ReadLoopEnds \/ Cleanup

Spec == Init /\ [][Next]_vars

\* Goroutines that can run do run; the application need not call anything,
\* the peer need not send anything, the read loop need not end.
FairSpec ==
    /\ Spec
    /\ \A t \in Apps : WF_vars(AppStep(t))
    /\ WF_vars(WorkerStep) /\ WF_vars(Cleanup)

-----------------------------------------------------------------------------
(* Properties                                                              *)

Quiet == worker.at = "idle" /\ \A t \in Apps : At(t, "idle")

IsTerminal(frame) == frame \in {"FIN", "RST"}
IsReply(frame) == frame \in {"REPLY", "REPLYFIN"}

\* stream.go:63, 195: Close, WriteData(.., true), Reset and idle expiry claim
\* finished before they write.  However they race, at most one of them writes: one
\* FIN or one RST_STREAM(CANCEL).  Cancel (264) and the FIN of SendReply and
\* SendHeader (222-247) leave finished alone and are not counted.
TerminalOnce ==
    \A i, j \in DOMAIN sent : IsTerminal(sent[i]) /\ IsTerminal(sent[j]) => i = j

\* startChan is never closed twice and never sent on once closed (both panic),
\* whatever mix of replies, resets and local refusals sets replied.
StartChanOnce == worker.at \in {"sendStart", "closeStart"} => ~started

\* Once this side has reset the stream, or the peer's reset is handled and
\* nothing is under way, the stream is out of the table, closed for reading
\* and finished for writing.
ResetIsFinal ==
    ((\E i \in DOMAIN sent : sent[i] = "RST") \/ (peer.rst /\ Quiet))
    => ~inTable /\ closed /\ finished

\* The table forgets a stream only if it was reset by either side, the
\* connection ended, or both sides are done or this one is about to be.
TableKeepsLiveStreams ==
    ~inTable => \/ resetCalled \/ peer.rst \/ phase = "done"
                \/ /\ closed
                   /\ finished \/ \E t \in Apps : app[t].frame = "FIN" /\ ~At(t, "idle")

\* Data the peer sent before its FIN reaches the reader: it is dropped only
\* after a local reset, or before the reply to a stream the peer created.
NoDataLost ==
    /\ lost \subseteq {"early"} \/ resetCalled
    /\ "early" \in lost => origin = "accepted"

\* stream.go:138: SYN_REPLY goes out at most once, and no writer is parked beside
\* it: what waitWriteReply tested before it parked is still so when it sleeps.
ReplyOnce ==
    /\ \A i, j \in DOMAIN sent : IsReply(sent[i]) /\ IsReply(sent[j]) => i = j
    /\ (\E i \in DOMAIN sent : IsReply(sent[i])) => ~\E t \in Apps : At(t, "parked")

\* A local reset frees the worker from data nobody reads: once the read loop
\* has ended, Serve ends too, unless the worker is stuck reporting ErrReset.
ResetLetsServeEnd ==
    [](resetCalled /\ phase = "closing"
         => <>(phase = "done" \/ [](worker.at = "sendStart")))

\* A blocked Read or ReceiveHeader returns once closeChan is closed, be it by
\* a FIN, by a reset of either side or by the end of Serve; a writer blocked for
\* the reply returns once it has gone out.
BlockedCallsReturn == \A t \in Apps :
    /\ closed /\ app[t].at \in {"select", "recvHeader"} ~> At(t, "idle")
    /\ (\E i \in DOMAIN sent : IsReply(sent[i])) /\ app[t].at \in {"parked", "waitReply"}
          ~> At(t, "idle")

-----------------------------------------------------------------------------
(* What the comments of the code say, and the code does not do             *)

\* stream.go:174 and connection.go:671: a stream that is fully closed is
\* cleaned up.  Close tests closeChan before it sets finished, and
\* remoteStreamFinish can run in between.
FullyClosedIsRemoved == Quiet /\ finished /\ closed => ~inTable

\* stream.go:144: Wait waits for the stream to receive a reply.  After a
\* reset, whoever comes after the waiter that got ErrReset is told nil.
WaitMeansReply == "nil" \in waits => peer.replied
=============================================================================
