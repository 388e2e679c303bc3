---------------------------- MODULE StreamProofs ----------------------------
(***************************************************************************)
(* Proofs about Stream for any number of goroutines, calls and frames.     *)
(***************************************************************************)
EXTENDS Stream, SequenceTheorems, TLAPS

\* Every method starts somewhere, with the frame of its own.
LEMMA EntryType ==
    ASSUME NEW m \in Methods
    PROVE  Entry[m] \in [at: AppStates, frame: Frames]
<1>1. Entry[m].at \in AppStates /\ Entry[m].frame \in Frames
  BY DEF AppStates, Frames
<1>2. Entry[m] = [at |-> Entry[m].at, frame |-> Entry[m].frame]
  BY DEF Methods, Entry
<1> QED
  BY <1>1, <1>2

\* Goto moves one goroutine and leaves the others and all frames alone.
LEMMA GotoMoves ==
    ASSUME TypeOK, NEW t \in Apps, NEW at \in AppStates, Goto(t, at)
    PROVE  /\ app' \in [Apps -> [at: AppStates, frame: Frames]]
           /\ app'[t].at = at
           /\ \A u \in Apps : u # t => app'[u].at = app[u].at
           /\ \A u \in Apps : app'[u].frame = app[u].frame
           /\ origin' = origin /\ (at = "parked" => origin = "accepted")
              => \A u \in Apps : app'[u].at = "parked" => origin' = "accepted"
BY DEF TypeOK, Goto

\* The worker moves on with the frame it handles.
LEMMA WorkerMoves ==
    ASSUME TypeOK, NEW at \in WorkerStates, WorkerGoto(at)
    PROVE  /\ worker' \in [at: WorkerStates, kind: Kinds, fin: BOOLEAN]
           /\ worker'.at = at
           /\ worker'.kind = worker.kind /\ worker'.fin = worker.fin
BY DEF TypeOK, WorkerGoto

\* The places a goroutine can be, one by one.
LEMMA AppStatesAre ==
    AppStates = {"closeCheck", "waitReply", "remove", "reply", "refuse", "send", "wait",
                 "read", "readData", "recvHeader", "idle", "parked", "finish",
                 "sendReply", "closeRemote", "finishReset", "select"}
BY DEF AppStates, Methods, Entry

\* The frames a goroutine can write, one by one.
LEMMA FramesAre ==
    Frames = {"FIN", "DATA", "RST", "REPLY", "REPLYFIN", "REFUSED", "CANCEL",
              "HEADERS", "HEADERSFIN", "none", "timer"}
BY DEF Frames, Methods, Entry

\* A call enters one of the methods.
LEMMA CallEnters ==
    ASSUME NEW t \in Apps, Call(t)
    PROVE  \E m \in Methods : /\ app' = [app EXCEPT ![t] = Entry[m]]
                             /\ resetCalled' = (resetCalled \/ m = "Reset")
BY StreamAssumption DEF Call

-----------------------------------------------------------------------------
\* The steps of the application keep the types.
LEMMA AppType ==
    ASSUME TypeOK, NEW t \in Apps, Call(t) \/ AppStep(t)
    PROVE  TypeOK'
<1>1. CASE Call(t)
  <2>1. PICK m \in Calls[t] : app' = [app EXCEPT ![t] = Entry[m]]
                              /\ resetCalled' = (resetCalled \/ m = "Reset")
    BY <1>1 DEF Call
  <2>2. Entry[m] \in [at: AppStates, frame: Frames]
    BY EntryType, StreamAssumption
  <2>3. app' \in [Apps -> [at: AppStates, frame: Frames]]
    BY <2>1, <2>2 DEF TypeOK
  <2>4. \A u \in Apps : app'[u].at = "parked" => origin' = "accepted"
    <3>1. Entry[m].at # "parked"
      BY StreamAssumption DEF Entry, Methods
    <3> QED
      BY <1>1, <2>1, <3>1 DEF Call, TypeOK, streamVars
  <2> QED
    BY <1>1, <2>1, <2>3, <2>4 DEF Call, TypeOK, streamVars
<1>2. CASE CloseCheck(t)
  BY <1>2, GotoMoves, AppStatesAre DEF CloseCheck, TypeOK, history
<1>3. CASE WaitWriteReply(t)
  BY <1>3, GotoMoves, AppStatesAre DEF WaitWriteReply, TypeOK, history, streamVars
<1>4. CASE Finish(t)
  BY <1>4, GotoMoves, AppStatesAre DEF Finish, Return, TypeOK, history
<1>5. CASE Send(t)
  <2>1. /\ app' \in [Apps -> [at: AppStates, frame: Frames]]
        /\ \A u \in Apps : app'[u].at = "parked" => origin' = "accepted"
    BY <1>5, GotoMoves, AppStatesAre DEF Send, Return, streamVars
  <2>2. sent' \in Seq(Frames)
    BY <1>5 DEF Send, TypeOK
  <2> QED
    BY <1>5, <2>1, <2>2 DEF Send, TypeOK, streamVars
<1>6. CASE ResetRemove(t)
  <2>1. /\ app' \in [Apps -> [at: AppStates, frame: Frames]]
        /\ \A u \in Apps : app'[u].at = "parked" => origin' = "accepted"
    BY <1>6, GotoMoves, AppStatesAre DEF ResetRemove
  <2>2. inTable' \in BOOLEAN
    BY <1>6 DEF ResetRemove
  <2>3. UNCHANGED <<origin, finished, replied, closed, started, unread, phase, worker,
                    sent, peer, resetCalled, lost, waits, calls, frames>>
    BY <1>6 DEF ResetRemove, history
  <2> QED
    BY <2>1, <2>2, <2>3 DEF TypeOK
<1>7. CASE ResetClose(t)
  BY <1>7, GotoMoves, AppStatesAre DEF ResetClose, TypeOK, history
<1>8. CASE ResetFinish(t)
  BY <1>8, GotoMoves, AppStatesAre DEF ResetFinish, Return, TypeOK, history
<1>9. CASE ReplyCheck(t)
  BY <1>9, GotoMoves, AppStatesAre DEF ReplyCheck, Return, TypeOK, history, streamVars
<1>10. CASE SendReply(t)
  <2>1. app' \in [Apps -> [at: AppStates, frame: Frames]]
    BY <1>10, GotoMoves, AppStatesAre DEF SendReply, Return, TypeOK
  <2>2. sent' \in Seq(Frames)
    <3>1. sent' = sent \/ sent' = Append(sent, app[t].frame)
      BY <1>10 DEF SendReply
    <3> QED
      BY <3>1 DEF TypeOK
  <2>3. replied' \in BOOLEAN
    BY <1>10 DEF SendReply, TypeOK
  <2>4. \A u \in Apps : app'[u].at = "parked" => app[u].at = "parked"
    <3>1. CASE Return(t)
      BY <3>1, GotoMoves, AppStatesAre DEF Return
    <3>2. CASE ~Return(t)
      BY <1>10, <3>2 DEF SendReply, TypeOK, At
    <3> QED
      BY <3>1, <3>2
  <2> QED
    BY <1>10, <2>1, <2>2, <2>3, <2>4 DEF SendReply, TypeOK
<1>11. CASE Refuse(t)
  BY <1>11, GotoMoves, AppStatesAre DEF Refuse, Return, TypeOK, history
<1>12. CASE WaitReturns(t)
  <2>1. /\ app' \in [Apps -> [at: AppStates, frame: Frames]]
        /\ \A u \in Apps : app'[u].at = "parked" => origin' = "accepted"
    BY <1>12, GotoMoves, AppStatesAre DEF WaitReturns, Return, streamVars
  <2>2. waits' \subseteq {"nil", "reset", "timeout"}
    BY <1>12 DEF WaitReturns, TypeOK
  <2> QED
    BY <1>12, <2>1, <2>2 DEF WaitReturns, TypeOK, streamVars
<1>13. CASE ReadCheck(t)
  BY <1>13, GotoMoves, AppStatesAre DEF ReadCheck, Return, TypeOK, history
<1>14. CASE ReadEOF(t)
  BY <1>14, GotoMoves, AppStatesAre DEF ReadEOF, Return, TypeOK, history, streamVars
<1> QED
  BY <1>1, <1>2, <1>3, <1>4, <1>5, <1>6, <1>7, <1>8, <1>9, <1>10, <1>11,
     <1>12, <1>13, <1>14 DEF AppStep

-----------------------------------------------------------------------------
(* The inductive invariant                                                 *)

\* Where a goroutine is tells the frame its call will write.
FrameFits(t) ==
    /\ app[t].at \in {"closeCheck", "finish"} => app[t].frame = "FIN"
    /\ app[t].at \in {"waitReply", "parked"} => app[t].frame \in {"FIN", "DATA"}
    /\ app[t].at \in {"remove", "closeRemote", "finishReset"} => app[t].frame = "RST"
    /\ app[t].at \in {"reply", "sendReply"} => app[t].frame \in {"REPLY", "REPLYFIN"}
    /\ At(t, "refuse") => app[t].frame = "REFUSED"
    /\ app[t].at \in {"wait", "read", "readData", "recvHeader", "select"}
         => app[t].frame \in {"none", "timer"}

FrameInv == \A t \in Apps : FrameFits(t)

Pending(t) == At(t, "send") /\ IsTerminal(app[t].frame)

\* Whoever sets finished has the only right to write FIN or RST_STREAM.
TerminalInv ==
    /\ (\E i \in DOMAIN sent : IsTerminal(sent[i])) => finished /\ \A t \in Apps : ~Pending(t)
    /\ \A t \in Apps : Pending(t) => finished
    /\ \A t, u \in Apps : Pending(t) /\ Pending(u) => t = u
    /\ TerminalOnce

\* Whoever sets replied on the worker has the only right to use startChan.
StartInv ==
    /\ started => replied
    /\ worker.at \in {"sendStart", "closeStart"} => replied /\ ~started
    /\ worker.kind = "REPLY" /\ worker.at \in {"closeRemote", "finishCheck"}
         => replied /\ ~started

\* What a local reset, and the handler of the peer's, have done at each point.
ResetAt(t) ==
    /\ app[t].at \in {"remove", "closeRemote", "finishReset"} => resetCalled
    /\ At(t, "closeRemote") => ~inTable
    /\ At(t, "finishReset") => ~inTable /\ closed
    /\ At(t, "send") /\ app[t].frame = "RST" => ~inTable /\ closed /\ finished

ResetInv ==
    /\ \A t \in Apps : ResetAt(t)
    /\ (\E i \in DOMAIN sent : sent[i] = "RST") => ~inTable /\ closed /\ finished
    /\ worker.at = "remove" => worker.kind = "RST" /\ peer.rst
    /\ worker.at = "finishCheck" => closed
    /\ worker.kind = "RST" /\ worker.at \in {"checkReplied", "sendStart", "closeStart", "setFinished"}
         => closed

\* The stream has ended, or somebody is about to end it.
Ending ==
    \/ closed /\ finished
    \/ \E t \in Apps : app[t].at \in {"closeRemote", "finishReset"}
    \/ closed /\ \E t \in Apps : app[t].frame = "FIN" /\ app[t].at \in {"waitReply", "parked", "finish"}
    \/ /\ worker.kind = "RST"
       /\ worker.at \in {"closeRemote", "checkReplied", "sendStart", "closeStart", "setFinished"}

EndingInv ==
    /\ ~inTable /\ phase # "done" => Ending
    /\ peer.rst /\ worker.at # "remove" => ~inTable /\ Ending

Inv == TypeOK /\ FrameInv /\ TerminalInv /\ StartInv /\ ResetInv /\ EndingInv

\* The steps of the worker, and of Serve around it, keep the types.
LEMMA WorkerType ==
    ASSUME TypeOK, WorkerStep
    PROVE  TypeOK'
<1> USE WorkerMoves DEF WorkerStates
<1>1. CASE HandlerReturns
  BY <1>1 DEF HandlerReturns, TypeOK, history, streamVars
<1>2. CASE WorkerRemove
  <2>1. worker' \in [at: WorkerStates, kind: Kinds, fin: BOOLEAN]
    BY <1>2 DEF WorkerRemove
  <2>2. inTable' \in BOOLEAN
    BY <1>2 DEF WorkerRemove
  <2>3. UNCHANGED <<origin, finished, replied, closed, started, unread, phase, app,
                    sent, peer, resetCalled, lost, waits, calls, frames>>
    BY <1>2 DEF WorkerRemove, history
  <2> QED
    BY <2>1, <2>2, <2>3 DEF TypeOK
<1>3. CASE CheckReplied
  <2>1. AfterReplyCheck \in WorkerStates
    BY DEF AfterReplyCheck
  <2>2. lost' \subseteq {"early", "closed", "gone", "overwritten"}
    BY <1>3 DEF CheckReplied, TypeOK
  <2>3. worker' \in [at: WorkerStates, kind: Kinds, fin: BOOLEAN]
    BY <1>3, <2>1 DEF CheckReplied
  <2> QED
    BY <1>3, <2>2, <2>3 DEF CheckReplied, TypeOK
<1>4. CASE DeliverClosed
  BY <1>4 DEF DeliverClosed, TypeOK, streamVars, AfterDelivery
<1>5. CASE WorkerClose
  BY <1>5 DEF WorkerClose, TypeOK, history
<1>6. CASE FinishCheck
  BY <1>6 DEF FinishCheck, TypeOK, history
<1>7. CASE CloseStart
  BY <1>7 DEF CloseStart, TypeOK, history
<1>8. CASE SetFinished
  BY <1>8 DEF SetFinished, TypeOK, history
<1>9. CASE \E t \in Apps : DeliverData(t)
  BY <1>9, GotoMoves, AppStatesAre DEF DeliverData, Return, TypeOK, AfterDelivery
<1>10. CASE \E t \in Apps : DeliverHeaders(t)
  BY <1>10, GotoMoves, AppStatesAre DEF DeliverHeaders, Return, TypeOK, AfterDelivery, history, streamVars
<1>11. CASE \E t \in Apps : WorkerSendStart(t)
  BY <1>11, GotoMoves, AppStatesAre DEF WorkerSendStart, Return, TypeOK, streamVars
<1> QED
  BY <1>1, <1>2, <1>3, <1>4, <1>5, <1>6, <1>7, <1>8, <1>9, <1>10, <1>11 DEF WorkerStep

\* Every step keeps the types.
LEMMA TypeStep ==
    ASSUME TypeOK, [Next]_vars
    PROVE  TypeOK'
<1>1. CASE \E t \in Apps : Call(t) \/ AppStep(t)
  BY <1>1, AppType
<1>2. CASE WorkerStep
  BY <1>2, WorkerType
<1>3. CASE \E kind \in Kinds, fin \in BOOLEAN : Receive(kind, fin)
  BY SMTT(30), <1>3 DEF Receive, TypeOK, streamVars, WorkerStates
<1>4. CASE ReadLoopEnds
  BY <1>4 DEF ReadLoopEnds, TypeOK, streamVars, history
<1>5. CASE Cleanup
  BY <1>5 DEF Cleanup, TypeOK, history
<1>6. CASE UNCHANGED vars
  BY <1>6 DEF vars, TypeOK, streamVars, history
<1> QED
  BY <1>1, <1>2, <1>3, <1>4, <1>5, <1>6 DEF Next

\* Where a goroutine is keeps telling the frame of its call.
LEMMA FrameStep ==
    ASSUME Inv, [Next]_vars
    PROVE  FrameInv'
<1> USE GotoMoves, AppStatesAre DEF Inv, TypeOK
<1>1. ASSUME NEW t \in Apps, Call(t) \/ AppStep(t)
      PROVE  FrameInv'
  <2>1. CASE Call(t)
    <3>1. PICK m \in Methods : app' = [app EXCEPT ![t] = Entry[m]]
      BY <2>1, StreamAssumption DEF Call
    <3>2. app'[t] = Entry[m] /\ \A u \in Apps \ {t} : app'[u] = app[u]
      BY <3>1, EntryType
    <3>3. \A u \in Apps \ {t} : FrameFits(u)'
      BY <3>2 DEF FrameInv, FrameFits, At
    <3>4. FrameFits(t)'
      BY <3>2 DEF FrameFits, At, Entry, Methods
    <3> QED
      BY <3>3, <3>4 DEF FrameInv
  <2>2. CASE CloseCheck(t)
    <3>1. Goto(t, "waitReply") /\ app[t].frame = "FIN"
      BY <2>2 DEF CloseCheck, FrameInv, FrameFits, At
    <3> QED
      BY <3>1 DEF FrameInv, FrameFits, At
  <2>3. CASE WaitWriteReply(t)
    BY <2>3 DEF WaitWriteReply, history, streamVars, FrameInv, FrameFits, At
  <2>4. CASE Finish(t)
    BY <2>4 DEF Finish, Return, history, FrameInv, FrameFits, At
  <2>5. CASE Send(t)
    BY <2>5 DEF Send, Return, streamVars, FrameInv, FrameFits, At
  <2>6. CASE ResetRemove(t)
    BY <2>6 DEF ResetRemove, history, FrameInv, FrameFits, At
  <2>7. CASE ResetClose(t)
    BY <2>7 DEF ResetClose, history, FrameInv, FrameFits, At
  <2>8. CASE ResetFinish(t)
    BY <2>8 DEF ResetFinish, Return, history, FrameInv, FrameFits, At
  <2>9. CASE ReplyCheck(t)
    BY <2>9 DEF ReplyCheck, Return, history, streamVars, FrameInv, FrameFits, At
  <2>10. CASE SendReply(t)
    BY <2>10 DEF SendReply, Return, FrameInv, FrameFits, At
  <2>11. CASE Refuse(t)
    BY <2>11 DEF Refuse, Return, history, FrameInv, FrameFits, At
  <2>12. CASE WaitReturns(t)
    BY <2>12 DEF WaitReturns, Return, streamVars, FrameInv, FrameFits, At
  <2>13. CASE ReadCheck(t)
    BY <2>13 DEF ReadCheck, Return, history, FrameInv, FrameFits, At
  <2>14. CASE ReadEOF(t)
    BY <2>14 DEF ReadEOF, Return, history, streamVars, FrameInv, FrameFits, At
  <2> QED
    BY <1>1, <2>1, <2>2, <2>3, <2>4, <2>5, <2>6, <2>7, <2>8, <2>9, <2>10, <2>11, <2>12, <2>13, <2>14 DEF AppStep
<1>2. ASSUME WorkerStep
      PROVE  FrameInv'
  <2>1. CASE HandlerReturns
    BY <2>1 DEF HandlerReturns, history, streamVars, FrameInv, FrameFits, At
  <2>2. CASE WorkerRemove
    BY <2>2 DEF WorkerRemove, history, FrameInv, FrameFits, At
  <2>3. CASE CheckReplied
    BY <2>3 DEF CheckReplied, AfterReplyCheck, FrameInv, FrameFits, At
  <2>4. CASE DeliverClosed
    BY <2>4 DEF DeliverClosed, streamVars, AfterDelivery, FrameInv, FrameFits, At
  <2>5. CASE WorkerClose
    BY <2>5 DEF WorkerClose, history, FrameInv, FrameFits, At
  <2>6. CASE FinishCheck
    BY <2>6 DEF FinishCheck, history, FrameInv, FrameFits, At
  <2>7. CASE CloseStart
    BY <2>7 DEF CloseStart, history, FrameInv, FrameFits, At
  <2>8. CASE SetFinished
    BY <2>8 DEF SetFinished, history, FrameInv, FrameFits, At
  <2>9. CASE \E t \in Apps : DeliverData(t)
    BY <2>9 DEF DeliverData, Return, AfterDelivery, FrameInv, FrameFits, At
  <2>10. CASE \E t \in Apps : DeliverHeaders(t)
    BY <2>10 DEF DeliverHeaders, Return, history, streamVars, AfterDelivery, FrameInv, FrameFits, At
  <2>11. CASE \E t \in Apps : WorkerSendStart(t)
    BY <2>11 DEF WorkerSendStart, Return, streamVars, FrameInv, FrameFits, At
  <2> QED
    BY <1>2, <2>1, <2>2, <2>3, <2>4, <2>5, <2>6, <2>7, <2>8, <2>9, <2>10, <2>11 DEF WorkerStep
<1>3. CASE \E kind \in Kinds, fin \in BOOLEAN : Receive(kind, fin)
  BY <1>3 DEF Receive, streamVars, Legal, FrameInv, FrameFits, At
<1>4. CASE ReadLoopEnds
  BY <1>4 DEF ReadLoopEnds, streamVars, history, FrameInv, FrameFits, At
<1>5. CASE Cleanup
  BY <1>5 DEF Cleanup, history, FrameInv, FrameFits, At
<1>6. CASE UNCHANGED vars
  BY <1>6 DEF vars, streamVars, history, FrameInv, FrameFits, At
<1> QED
  BY <1>1, <1>2, <1>3, <1>4, <1>5, <1>6 DEF Next

\* The worker alone closes startChan, and only after it has set replied.
LEMMA StartStep ==
    ASSUME Inv, [Next]_vars
    PROVE  StartInv'
<1> USE WorkerMoves DEF Inv, TypeOK, WorkerStates
<1>1. ASSUME NEW t \in Apps, Call(t) \/ AppStep(t)
      PROVE  StartInv'
  <2>1. CASE Call(t)
    BY <2>1, EntryType, StreamAssumption DEF Call, Entry, Methods, streamVars, StartInv
  <2>2. CASE CloseCheck(t)
    BY <2>2 DEF CloseCheck, history, StartInv
  <2>3. CASE WaitWriteReply(t)
    BY <2>3 DEF WaitWriteReply, history, streamVars, StartInv
  <2>4. CASE Finish(t)
    BY <2>4 DEF Finish, Return, history, StartInv
  <2>5. CASE Send(t)
    BY <2>5 DEF Send, Return, streamVars, StartInv
  <2>6. CASE ResetRemove(t)
    BY <2>6 DEF ResetRemove, history, StartInv
  <2>7. CASE ResetClose(t)
    BY <2>7 DEF ResetClose, history, StartInv
  <2>8. CASE ResetFinish(t)
    BY <2>8 DEF ResetFinish, Return, history, StartInv
  <2>9. CASE ReplyCheck(t)
    BY <2>9 DEF ReplyCheck, Return, history, streamVars, StartInv
  <2>10. CASE SendReply(t)
    BY <2>10 DEF SendReply, Return, StartInv
  <2>11. CASE Refuse(t)
    BY <2>11 DEF Refuse, Return, history, StartInv
  <2>12. CASE WaitReturns(t)
    BY <2>12 DEF WaitReturns, Return, streamVars, StartInv
  <2>13. CASE ReadCheck(t)
    BY <2>13 DEF ReadCheck, Return, history, StartInv
  <2>14. CASE ReadEOF(t)
    BY <2>14 DEF ReadEOF, Return, history, streamVars, StartInv
  <2> QED
    BY <1>1, <2>1, <2>2, <2>3, <2>4, <2>5, <2>6, <2>7, <2>8, <2>9, <2>10, <2>11, <2>12, <2>13, <2>14 DEF AppStep
<1>2. ASSUME WorkerStep
      PROVE  StartInv'
  <2>1. CASE HandlerReturns
    BY <2>1 DEF HandlerReturns, history, streamVars, StartInv
  <2>2. CASE WorkerRemove
    <3>1. worker'.at = "closeRemote" /\ worker'.kind = worker.kind
      BY <2>2 DEF WorkerRemove
    <3> QED
      BY <2>2, <3>1 DEF WorkerRemove, StartInv, ResetInv
  <2>3. CASE CheckReplied
    BY <2>3 DEF CheckReplied, AfterReplyCheck, StartInv
  <2>4. CASE DeliverClosed
    BY <2>4 DEF DeliverClosed, streamVars, AfterDelivery, StartInv
  <2>5. CASE WorkerClose
    BY <2>5 DEF WorkerClose, history, StartInv
  <2>6. CASE FinishCheck
    BY <2>6 DEF FinishCheck, history, StartInv
  <2>7. CASE CloseStart
    BY <2>7 DEF CloseStart, history, StartInv
  <2>8. CASE SetFinished
    BY <2>8 DEF SetFinished, history, StartInv
  <2>9. CASE \E t \in Apps : DeliverData(t)
    BY <2>9 DEF DeliverData, Return, AfterDelivery, StartInv
  <2>10. CASE \E t \in Apps : DeliverHeaders(t)
    BY <2>10 DEF DeliverHeaders, Return, history, streamVars, AfterDelivery, StartInv
  <2>11. CASE \E t \in Apps : WorkerSendStart(t)
    BY <2>11 DEF WorkerSendStart, Return, streamVars, StartInv
  <2> QED
    BY <1>2, <2>1, <2>2, <2>3, <2>4, <2>5, <2>6, <2>7, <2>8, <2>9, <2>10, <2>11 DEF WorkerStep
<1>3. CASE \E kind \in Kinds, fin \in BOOLEAN : Receive(kind, fin)
  BY <1>3 DEF Receive, streamVars, Legal, StartInv
<1>4. CASE ReadLoopEnds
  BY <1>4 DEF ReadLoopEnds, streamVars, history, StartInv
<1>5. CASE Cleanup
  BY <1>5 DEF Cleanup, history, StartInv
<1>6. CASE UNCHANGED vars
  BY <1>6 DEF vars, streamVars, history, StartInv
<1> QED
  BY <1>1, <1>2, <1>3, <1>4, <1>5, <1>6 DEF Next

\* Where nobody comes to write a frame, the terminal frames stay in order.
LEMMA TerminalKept ==
    ASSUME Inv, sent' = sent, finished => finished',
           \A t \in Apps : Pending(t)' => Pending(t)
    PROVE  TerminalInv'
BY DEF Inv, TerminalInv, TerminalOnce

\* The goroutine that finds finished unset is the one that goes on to write.
LEMMA TerminalClaimed ==
    ASSUME Inv, ~finished, finished' = TRUE, sent' = sent, NEW t \in Apps, Goto(t, "send")
    PROVE  TerminalInv'
<1>1. \A u \in Apps : ~Pending(u)
  BY DEF Inv, TerminalInv
<1>2. \A u \in Apps : Pending(u)' => u = t
  BY <1>1, GotoMoves, AppStatesAre DEF Inv, Pending, At
<1>3. TerminalOnce' /\ ~ \E i \in DOMAIN sent : IsTerminal(sent[i])
  BY DEF Inv, TerminalInv, TerminalOnce
<1> QED
  BY <1>2, <1>3 DEF TerminalInv

\* A frame is written by the goroutine that had the right to.
LEMMA TerminalSent ==
    ASSUME Inv, NEW t \in Apps, finished' = finished,
           \A u \in Apps : Pending(u)' => Pending(u) /\ u # t,
           app[t].frame \in Frames, sent' = Append(sent, app[t].frame),
           IsTerminal(app[t].frame) => Pending(t)
    PROVE  TerminalInv'
<1> DEFINE f == app[t].frame
<1>1. /\ \A i \in DOMAIN sent : sent'[i] = sent[i] /\ i \in 1 .. Len(sent)
      /\ DOMAIN sent' = 1 .. Len(sent) + 1 /\ DOMAIN sent = 1 .. Len(sent)
      /\ sent'[Len(sent) + 1] = f /\ Len(sent) \in Nat
  BY DEF Inv, TypeOK
<1>2. CASE IsTerminal(f)
  <2>1. Pending(t) /\ finished /\ ~ \E i \in DOMAIN sent : IsTerminal(sent[i])
    BY <1>2 DEF Inv, TerminalInv
  <2>2. \A u \in Apps : ~Pending(u)'
    BY <2>1 DEF Inv, TerminalInv
  <2>3. TerminalOnce'
    BY <1>1, <2>1 DEF TerminalOnce
  <2> QED
    BY <2>1, <2>2, <2>3 DEF TerminalInv
<1>3. CASE ~IsTerminal(f)
  <2>1. \A i \in DOMAIN sent' : IsTerminal(sent'[i]) => i \in DOMAIN sent /\ IsTerminal(sent[i])
    BY <1>1, <1>3
  <2>2. TerminalOnce'
    BY <1>1, <2>1 DEF Inv, TerminalInv, TerminalOnce
  <2> QED
    BY <1>1, <2>1, <2>2 DEF Inv, TerminalInv
<1> QED
  BY <1>2, <1>3

\* This side goes on to end the stream on the wire at most once.
LEMMA TerminalStep ==
    ASSUME Inv, [Next]_vars
    PROVE  TerminalInv'
<1> USE GotoMoves, AppStatesAre DEF Inv, TypeOK, FrameInv, FrameFits, Pending, At, IsTerminal
<1>1. ASSUME NEW t \in Apps, Call(t) \/ AppStep(t)
      PROVE  TerminalInv'
  <2>1. CASE Call(t)
    <3>1. PICK m \in Methods : app' = [app EXCEPT ![t] = Entry[m]]
      BY <2>1, CallEnters
    <3>2. ~Pending(t)'
      <4>1. Entry[m].at = "send" => ~IsTerminal(Entry[m].frame)
        BY DEF Entry, Methods
      <4>2. app'[t] = Entry[m]
        BY <3>1, EntryType
      <4> QED
        BY <4>1, <4>2
    <3> QED
      BY <2>1, <3>1, <3>2, TerminalKept DEF Call, streamVars
  <2>2. CASE CloseCheck(t)
    BY <2>2, TerminalKept DEF CloseCheck, history
  <2>3. CASE WaitWriteReply(t)
    BY <2>3, TerminalKept DEF WaitWriteReply, history, streamVars
  <2>4. CASE Finish(t)
    BY <2>4, TerminalKept, TerminalClaimed DEF Finish, Return, history
  <2>5. CASE Send(t)
    <3>1. \A u \in Apps : Pending(u)' => Pending(u) /\ u # t
      BY <2>5 DEF Send, Return
    <3> QED
      BY <2>5, <3>1, TerminalKept, TerminalSent DEF Send, streamVars
  <2>6. CASE ResetRemove(t)
    BY <2>6, TerminalKept DEF ResetRemove, history
  <2>7. CASE ResetClose(t)
    BY <2>7, TerminalKept DEF ResetClose, history
  <2>8. CASE ResetFinish(t)
    BY <2>8, TerminalKept, TerminalClaimed DEF ResetFinish, Return, history
  <2>9. CASE ReplyCheck(t)
    BY <2>9, TerminalKept DEF ReplyCheck, Return, history, streamVars
  <2>10. CASE SendReply(t)
    <3>1. \A u \in Apps : Pending(u)' => Pending(u) /\ u # t
      BY <2>10 DEF SendReply, Return
    <3>2. ~IsTerminal(app[t].frame) /\ finished' = finished
      BY <2>10 DEF SendReply
    <3> QED
      BY <2>10, <3>1, <3>2, TerminalKept, TerminalSent DEF SendReply
  <2>11. CASE Refuse(t)
    BY <2>11, TerminalKept DEF Refuse, Return, history
  <2>12. CASE WaitReturns(t)
    BY <2>12, TerminalKept DEF WaitReturns, Return, streamVars
  <2>13. CASE ReadCheck(t)
    BY <2>13, TerminalKept DEF ReadCheck, Return, history
  <2>14. CASE ReadEOF(t)
    BY <2>14, TerminalKept DEF ReadEOF, Return, history, streamVars
  <2> QED
    BY <1>1, <2>1, <2>2, <2>3, <2>4, <2>5, <2>6, <2>7, <2>8, <2>9, <2>10, <2>11, <2>12, <2>13, <2>14 DEF AppStep
<1>2. ASSUME WorkerStep
      PROVE  TerminalInv'
  <2>1. CASE HandlerReturns
    BY <2>1, TerminalKept DEF HandlerReturns, history, streamVars
  <2>2. CASE WorkerRemove
    BY <2>2, TerminalKept DEF WorkerRemove, history
  <2>3. CASE CheckReplied
    BY <2>3, TerminalKept DEF CheckReplied, AfterReplyCheck
  <2>4. CASE DeliverClosed
    BY <2>4, TerminalKept DEF DeliverClosed, streamVars, AfterDelivery
  <2>5. CASE WorkerClose
    BY <2>5, TerminalKept DEF WorkerClose, history
  <2>6. CASE FinishCheck
    BY <2>6, TerminalKept DEF FinishCheck, history
  <2>7. CASE CloseStart
    BY <2>7, TerminalKept DEF CloseStart, history
  <2>8. CASE SetFinished
    BY <2>8, TerminalKept DEF SetFinished, history
  <2>9. CASE \E t \in Apps : DeliverData(t)
    BY <2>9, TerminalKept DEF DeliverData, Return, AfterDelivery
  <2>10. CASE \E t \in Apps : DeliverHeaders(t)
    BY <2>10, TerminalKept DEF DeliverHeaders, Return, history, streamVars, AfterDelivery
  <2>11. CASE \E t \in Apps : WorkerSendStart(t)
    BY <2>11, TerminalKept DEF WorkerSendStart, Return, streamVars
  <2> QED
    BY <1>2, <2>1, <2>2, <2>3, <2>4, <2>5, <2>6, <2>7, <2>8, <2>9, <2>10, <2>11 DEF WorkerStep
<1>3. CASE \E kind \in Kinds, fin \in BOOLEAN : Receive(kind, fin)
  BY <1>3, TerminalKept DEF Receive, streamVars, Legal
<1>4. CASE ReadLoopEnds
  BY <1>4, TerminalKept DEF ReadLoopEnds, streamVars, history
<1>5. CASE Cleanup
  BY <1>5, TerminalKept DEF Cleanup, history
<1>6. CASE UNCHANGED vars
  BY <1>6, TerminalKept DEF vars, streamVars, history
<1> QED
  BY <1>1, <1>2, <1>3, <1>4, <1>5, <1>6 DEF Next

\* A reset goes through its steps in order.
LEMMA ResetStep ==
    ASSUME Inv, [Next]_vars
    PROVE  ResetInv'
<1> USE GotoMoves, WorkerMoves, AppStatesAre DEF Inv, TypeOK, FrameInv, FrameFits, ResetInv, ResetAt, At, WorkerStates
<1>1. ASSUME NEW t \in Apps, Call(t) \/ AppStep(t)
      PROVE  ResetInv'
  <2>1. CASE Call(t)
    <3>1. PICK m \in Methods : /\ app' = [app EXCEPT ![t] = Entry[m]]
                            /\ resetCalled' = (resetCalled \/ m = "Reset")
      BY <2>1, CallEnters
    <3>2. Entry[m].at \notin {"closeRemote", "finishReset"}
      BY DEF Entry, Methods
    <3>3. Entry[m].at = "remove" => m = "Reset"
      BY DEF Entry, Methods
    <3>4. \A u \in Apps \ {t} : ResetAt(u)'
      BY SMTT(30), <2>1, <3>1 DEF Call, streamVars
    <3>5. ResetAt(t)'
      <4>1. app'[t] = Entry[m]
        BY <3>1, EntryType
      <4>2. Entry[m].at \in {"remove", "closeRemote", "finishReset"} => resetCalled'
        <5>1. CASE m = "Reset"
          BY <3>1, <5>1
        <5>2. CASE m # "Reset"
          BY <3>2, <3>3, <5>2
        <5> QED
          BY <5>1, <5>2
      <4>3. Entry[m].at \in {"closeRemote", "finishReset"} => FALSE
        BY DEF Entry, Methods
      <4>4. Entry[m].at = "send" => Entry[m].frame # "RST"
        BY DEF Entry, Methods
      <4> QED
        BY <4>1, <4>2, <4>3, <4>4
    <3> QED
      BY SMTT(30), <2>1, <3>4, <3>5 DEF Call, streamVars
  <2>2. CASE CloseCheck(t)
    <3>1. /\ Goto(t, "waitReply") /\ (inTable' => inTable)
          /\ UNCHANGED <<finished, closed, resetCalled, sent, worker, peer>>
      BY <2>2 DEF CloseCheck, history
    <3> QED
      BY <3>1
  <2>3. CASE WaitWriteReply(t)
    BY <2>3 DEF WaitWriteReply, history, streamVars
  <2>4. CASE Finish(t)
    <3>1. /\ finished' /\ app[t].frame = "FIN" /\ UNCHANGED <<inTable, closed, resetCalled, sent, worker, peer>>
          /\ Goto(t, "idle") \/ Goto(t, "send")
      BY <2>4 DEF Finish, Return, history
    <3> QED
      BY <3>1
  <2>5. CASE Send(t)
    <3>1. Goto(t, "idle") /\ UNCHANGED <<inTable, closed, finished, resetCalled, worker, peer>>
      BY <2>5 DEF Send, Return, streamVars
    <3>2. ASSUME NEW i \in DOMAIN sent', sent'[i] = "RST"
          PROVE  ~inTable /\ closed /\ finished
      BY <2>5, <3>2 DEF Send
    <3> QED
      BY SMTT(30), <3>1, <3>2
  <2>6. CASE ResetRemove(t)
    BY <2>6 DEF ResetRemove, history
  <2>7. CASE ResetClose(t)
    BY <2>7 DEF ResetClose, history
  <2>8. CASE ResetFinish(t)
    BY <2>8 DEF ResetFinish, Return, history
  <2>9. CASE ReplyCheck(t)
    BY <2>9 DEF ReplyCheck, Return, history, streamVars
  <2>10. CASE SendReply(t)
    <3>1. /\ UNCHANGED <<inTable, closed, finished, resetCalled, worker, peer>>
          /\ \A u \in Apps : app'[u].at = app[u].at \/ app'[u].at \in {"idle", "waitReply"}
          /\ \A u \in Apps : app'[u].frame = app[u].frame
      <4>1. UNCHANGED <<inTable, closed, finished, resetCalled, worker, peer>>
        BY <2>10 DEF SendReply
      <4>2. \A u \in Apps : app'[u].at = app[u].at \/ app'[u].at \in {"idle", "waitReply"}
        BY <2>10 DEF SendReply, Return
      <4>3. \A u \in Apps : app'[u].frame = app[u].frame
        BY <2>10 DEF SendReply, Return
      <4> QED
        BY <4>1, <4>2, <4>3
    <3>2. ASSUME NEW i \in DOMAIN sent', sent'[i] = "RST"
          PROVE  ~inTable /\ closed /\ finished
      BY SMTT(30), <2>10, <3>2 DEF SendReply
    <3> QED
      BY <3>1, <3>2
  <2>11. CASE Refuse(t)
    BY <2>11 DEF Refuse, Return, history
  <2>12. CASE WaitReturns(t)
    BY <2>12 DEF WaitReturns, Return, streamVars
  <2>13. CASE ReadCheck(t)
    BY SMTT(30), <2>13 DEF ReadCheck, Return, history
  <2>14. CASE ReadEOF(t)
    BY <2>14 DEF ReadEOF, Return, history, streamVars
  <2> QED
    BY <1>1, <2>1, <2>2, <2>3, <2>4, <2>5, <2>6, <2>7, <2>8, <2>9, <2>10, <2>11, <2>12, <2>13, <2>14 DEF AppStep
<1>2. ASSUME WorkerStep
      PROVE  ResetInv'
  <2>1. CASE HandlerReturns
    BY <2>1 DEF HandlerReturns, history, streamVars
  <2>2. CASE WorkerRemove
    BY <2>2 DEF WorkerRemove, history
  <2>3. CASE CheckReplied
    BY <2>3 DEF CheckReplied, AfterReplyCheck
  <2>4. CASE DeliverClosed
    BY <2>4 DEF DeliverClosed, streamVars, AfterDelivery
  <2>5. CASE WorkerClose
    BY <2>5 DEF WorkerClose, history
  <2>6. CASE FinishCheck
    BY <2>6 DEF FinishCheck, history
  <2>7. CASE CloseStart
    BY <2>7 DEF CloseStart, history
  <2>8. CASE SetFinished
    BY <2>8 DEF SetFinished, history
  <2>9. CASE \E t \in Apps : DeliverData(t)
    BY <2>9 DEF DeliverData, Return, AfterDelivery
  <2>10. CASE \E t \in Apps : DeliverHeaders(t)
    <3>1. /\ UNCHANGED <<inTable, closed, finished, resetCalled, sent, peer>>
          /\ worker'.at \in {"idle", "closeRemote"}
      BY <2>10 DEF DeliverHeaders, history, streamVars, AfterDelivery
    <3>2. \A u \in Apps : /\ app'[u].frame = app[u].frame
                          /\ app'[u].at = app[u].at \/ app'[u].at = "idle"
      BY <2>10 DEF DeliverHeaders, Return
    <3> QED
      BY <3>1, <3>2
  <2>11. CASE \E t \in Apps : WorkerSendStart(t)
    BY <2>11 DEF WorkerSendStart, Return, streamVars
  <2> QED
    BY <1>2, <2>1, <2>2, <2>3, <2>4, <2>5, <2>6, <2>7, <2>8, <2>9, <2>10, <2>11 DEF WorkerStep
<1>3. CASE \E kind \in Kinds, fin \in BOOLEAN : Receive(kind, fin)
  BY <1>3 DEF Receive, streamVars, Legal
<1>4. CASE ReadLoopEnds
  BY <1>4 DEF ReadLoopEnds, streamVars, history
<1>5. CASE Cleanup
  BY <1>5 DEF Cleanup, history
<1>6. CASE UNCHANGED vars
  BY <1>6 DEF vars, streamVars, history
<1> QED
  BY <1>1, <1>2, <1>3, <1>4, <1>5, <1>6 DEF Next

\* A call that moves on without leaving an ending half done.
LEMMA EndingKept ==
    ASSUME Inv, NEW t \in Apps, NEW at \in AppStates, Goto(t, at),
           UNCHANGED <<inTable, phase, peer, worker>>,
           closed => closed', finished => finished',
           app[t].at \notin {"closeRemote", "finishReset", "waitReply", "parked", "finish"}
    PROVE  EndingInv'
<1>1. Ending => Ending'
  BY GotoMoves DEF Inv, Ending
<1> QED
  BY <1>1 DEF Inv, EndingInv

\* The steps that neither end the stream nor go on to.
LEMMA EndingQuiet ==
    ASSUME Inv, NEW t \in Apps,
           \/ Send(t) \/ ReplyCheck(t) \/ Refuse(t)
           \/ WaitReturns(t) \/ ReadCheck(t) \/ ReadEOF(t)
    PROVE  EndingInv'
<1> USE EndingKept, AppStatesAre DEF Return, At
<1>1. CASE Send(t)
  BY <1>1 DEF Send, streamVars
<1>2. CASE ReplyCheck(t)
  BY <1>2 DEF ReplyCheck, history, streamVars
<1>3. CASE Refuse(t)
  BY <1>3 DEF Refuse, history
<1>4. CASE WaitReturns(t)
  BY <1>4 DEF WaitReturns, streamVars
<1>5. CASE ReadCheck(t)
  BY <1>5 DEF ReadCheck, history
<1>6. CASE ReadEOF(t)
  BY <1>6 DEF ReadEOF, history, streamVars
<1> QED
  BY <1>1, <1>2, <1>3, <1>4, <1>5, <1>6

\* A stream out of the table has ended or is about to.
LEMMA EndingStep ==
    ASSUME Inv, [Next]_vars
    PROVE  EndingInv'
<1> USE GotoMoves, WorkerMoves, AppStatesAre DEF Inv, TypeOK, FrameInv, FrameFits, ResetInv, EndingInv, Ending, At, WorkerStates
<1>1. ASSUME NEW t \in Apps, Call(t) \/ AppStep(t)
      PROVE  EndingInv'
  <2>1. CASE Call(t)
    <3>1. PICK m \in Methods : /\ app' = [app EXCEPT ![t] = Entry[m]]
                            /\ resetCalled' = (resetCalled \/ m = "Reset")
      BY <2>1, CallEnters
    <3>2. app[t].at = "idle" /\ \A u \in Apps \ {t} : app'[u] = app[u]
      BY <2>1, <3>1 DEF Call
    <3>3. UNCHANGED <<inTable, closed, finished, phase, peer, worker>>
      BY <2>1 DEF Call, streamVars
    <3>4. Ending => Ending'
      BY <3>1, <3>2, <3>3
    <3> QED
      BY <3>3, <3>4
  <2>2. CASE CloseCheck(t)
    <3>1. /\ UNCHANGED <<closed, finished, phase, peer, worker>>
          /\ ~inTable' /\ inTable => closed
          /\ ~inTable => ~inTable'
          /\ app[t].frame = "FIN" /\ Goto(t, "waitReply")
      BY <2>2 DEF CloseCheck, history
    <3>2. /\ app'[t].at = "waitReply" /\ app'[t].frame = "FIN"
          /\ \A u \in Apps \ {t} : app'[u].at = app[u].at /\ app'[u].frame = app[u].frame
      BY <3>1
    <3>3. Ending => Ending'
      BY <3>1, <3>2
    <3>4. closed => Ending'
      BY <3>1, <3>2
    <3> QED
      BY <3>1, <3>3, <3>4
  <2>3. CASE WaitWriteReply(t)
    BY <2>3 DEF WaitWriteReply, history, streamVars
  <2>4. CASE Finish(t)
    BY <2>4 DEF Finish, Return, history
  <2>5. CASE Send(t)
    BY <2>5, EndingQuiet
  <2>6. CASE ResetRemove(t)
    BY <2>6 DEF ResetRemove, history
  <2>7. CASE ResetClose(t)
    BY <2>7 DEF ResetClose, history
  <2>8. CASE ResetFinish(t)
    <3>1. /\ finished' /\ closed' /\ UNCHANGED <<inTable, phase, peer, worker>>
      <4>1. finished' /\ UNCHANGED <<closed, inTable, phase, peer, worker>>
        BY <2>8 DEF ResetFinish, history
      <4>2. closed
        BY <2>8 DEF ResetFinish, ResetAt
      <4> QED
        BY <4>1, <4>2
    <3> QED
      BY <3>1
  <2>9. CASE ReplyCheck(t)
    BY <2>9, EndingQuiet
  <2>10. CASE SendReply(t)
    BY <2>10 DEF SendReply, Return
  <2>11. CASE Refuse(t)
    BY <2>11, EndingQuiet
  <2>12. CASE WaitReturns(t)
    BY <2>12, EndingQuiet
  <2>13. CASE ReadCheck(t)
    BY <2>13, EndingQuiet
  <2>14. CASE ReadEOF(t)
    BY <2>14, EndingQuiet
  <2> QED
    BY SMTT(30), <1>1, <2>1, <2>2, <2>3, <2>4, <2>5, <2>6, <2>7, <2>8, <2>9, <2>10, <2>11, <2>12, <2>13, <2>14 DEF AppStep
<1>2. ASSUME WorkerStep
      PROVE  EndingInv'
  <2>1. CASE HandlerReturns
    BY <2>1 DEF HandlerReturns, history, streamVars
  <2>2. CASE WorkerRemove
    BY <2>2 DEF WorkerRemove, history
  <2>3. CASE CheckReplied
    <3>1. /\ UNCHANGED <<closed, finished, inTable, phase, peer, app>>
          /\ worker'.kind = worker.kind
          /\ worker.kind = "RST" => worker'.at \in {"sendStart", "setFinished"}
          /\ worker'.at # "remove" /\ worker.at = "checkReplied"
      <4>1. AfterReplyCheck \in WorkerStates \ {"remove"}
            /\ (worker.kind = "RST" => AfterReplyCheck \in {"sendStart", "setFinished"})
        BY DEF AfterReplyCheck
      <4> QED
        BY <2>3, <4>1 DEF CheckReplied
    <3>2. Ending => Ending'
      BY <3>1
    <3> QED
      BY <3>1, <3>2
  <2>4. CASE DeliverClosed
    BY <2>4 DEF DeliverClosed, streamVars, AfterDelivery
  <2>5. CASE WorkerClose
    BY <2>5 DEF WorkerClose, history
  <2>6. CASE FinishCheck
    BY <2>6 DEF FinishCheck, history
  <2>7. CASE CloseStart
    BY <2>7 DEF CloseStart, history
  <2>8. CASE SetFinished
    BY <2>8 DEF SetFinished, history
  <2>9. CASE \E t \in Apps : DeliverData(t)
    <3>1. /\ UNCHANGED <<inTable, closed, finished, phase, peer>>
          /\ worker.kind = "DATA" /\ worker'.at \in {"idle", "closeRemote"}
      BY <2>9 DEF DeliverData, AfterDelivery
    <3>2. \A u \in Apps : /\ app'[u].frame = app[u].frame
                          /\ app'[u].at # app[u].at => app[u].at \in {"select", "recvHeader"}
      BY <2>9 DEF DeliverData, Return
    <3>3. worker.at = "deliver" /\ (Ending => Ending')
      BY SMTT(30), <2>9, <3>1, <3>2 DEF DeliverData
    <3> QED
      BY <3>1, <3>3
  <2>10. CASE \E t \in Apps : DeliverHeaders(t)
    <3>1. /\ UNCHANGED <<inTable, closed, finished, phase, peer>>
          /\ worker.kind = "HEADERS" /\ worker'.at \in {"idle", "closeRemote"}
      BY <2>10 DEF DeliverHeaders, history, streamVars, AfterDelivery
    <3>2. \A u \in Apps : /\ app'[u].frame = app[u].frame
                          /\ app'[u].at # app[u].at => app[u].at \in {"select", "recvHeader"}
      BY <2>10 DEF DeliverHeaders, Return
    <3>3. worker.at = "deliver" /\ (Ending => Ending')
      BY <2>10, <3>1, <3>2 DEF DeliverHeaders
    <3> QED
      BY <3>1, <3>3
  <2>11. CASE \E t \in Apps : WorkerSendStart(t)
    <3>1. /\ worker'.kind = worker.kind /\ worker'.at = "closeStart" /\ worker.at = "sendStart"
          /\ UNCHANGED <<closed, finished, inTable, phase, peer>>
      BY <2>11 DEF WorkerSendStart, streamVars
    <3>2. \A u \in Apps : /\ app'[u].frame = app[u].frame
                          /\ app'[u].at # app[u].at => app[u].at = "wait"
      BY <2>11 DEF WorkerSendStart, Return
    <3>3. Ending => Ending'
      BY <3>1, <3>2
    <3> QED
      BY <3>1, <3>3
  <2> QED
    BY <1>2, <2>1, <2>2, <2>3, <2>4, <2>5, <2>6, <2>7, <2>8, <2>9, <2>10, <2>11 DEF WorkerStep
<1>3. CASE \E kind \in Kinds, fin \in BOOLEAN : Receive(kind, fin)
  BY <1>3 DEF Receive, streamVars, Legal
<1>4. CASE ReadLoopEnds
  BY <1>4 DEF ReadLoopEnds, streamVars, history
<1>5. CASE Cleanup
  BY <1>5 DEF Cleanup, history
<1>6. CASE UNCHANGED vars
  BY <1>6 DEF vars, streamVars, history
<1> QED
  BY <1>1, <1>2, <1>3, <1>4, <1>5, <1>6 DEF Next

\* While the table is not touched and no Close gives up, the reason stays.
LEMMA TableKept ==
    ASSUME TableKeepsLiveStreams, inTable' = inTable,
           resetCalled => resetCalled', peer.rst => peer'.rst,
           phase = "done" => phase' = "done", closed => closed', finished => finished',
           \A t \in Apps : app[t].frame = "FIN" /\ ~At(t, "idle")
                          => finished' \/ (app'[t].frame = "FIN" /\ app'[t].at # "idle")
    PROVE  TableKeepsLiveStreams'
BY DEF TableKeepsLiveStreams, At

\* Whoever takes the stream out of the table has a reason.
LEMMA TableStep ==
    ASSUME Inv, TableKeepsLiveStreams, [Next]_vars
    PROVE  TableKeepsLiveStreams'
<1> USE TableKept, GotoMoves, WorkerMoves, AppStatesAre DEF Inv, TypeOK, FrameInv, FrameFits, ResetInv, At, WorkerStates
<1>1. ASSUME NEW t \in Apps, Call(t) \/ AppStep(t)
      PROVE  TableKeepsLiveStreams'
  <2>1. CASE Call(t)
    <3>1. PICK m \in Methods : app' = [app EXCEPT ![t] = Entry[m]]
      BY <2>1, CallEnters
    <3> QED
      BY <2>1, <3>1 DEF Call, streamVars
  <2>2. CASE CloseCheck(t)
    BY <2>2 DEF CloseCheck, history, TableKeepsLiveStreams, ResetAt
  <2>3. CASE WaitWriteReply(t)
    BY <2>3 DEF WaitWriteReply, history, streamVars
  <2>4. CASE Finish(t)
    BY <2>4 DEF Finish, Return, history
  <2>5. CASE Send(t)
    <3>1. app[t].frame = "FIN" => finished
      BY <2>5 DEF Send, TerminalInv, Pending, IsTerminal
    <3> QED
      BY <2>5, <3>1 DEF Send, Return, streamVars
  <2>6. CASE ResetRemove(t)
    BY <2>6 DEF ResetRemove, history, TableKeepsLiveStreams, ResetAt
  <2>7. CASE ResetClose(t)
    BY <2>7 DEF ResetClose, history
  <2>8. CASE ResetFinish(t)
    BY <2>8 DEF ResetFinish, Return, history
  <2>9. CASE ReplyCheck(t)
    BY <2>9 DEF ReplyCheck, Return, history, streamVars
  <2>10. CASE SendReply(t)
    BY <2>10 DEF SendReply, Return
  <2>11. CASE Refuse(t)
    BY <2>11 DEF Refuse, Return, history
  <2>12. CASE WaitReturns(t)
    BY <2>12 DEF WaitReturns, Return, streamVars
  <2>13. CASE ReadCheck(t)
    BY <2>13 DEF ReadCheck, Return, history
  <2>14. CASE ReadEOF(t)
    BY <2>14 DEF ReadEOF, Return, history, streamVars
  <2> QED
    BY <1>1, <2>1, <2>2, <2>3, <2>4, <2>5, <2>6, <2>7, <2>8, <2>9, <2>10, <2>11, <2>12, <2>13, <2>14 DEF AppStep
<1>2. ASSUME WorkerStep
      PROVE  TableKeepsLiveStreams'
  <2>1. CASE HandlerReturns
    BY <2>1 DEF HandlerReturns, history, streamVars
  <2>2. CASE WorkerRemove
    BY <2>2 DEF WorkerRemove, history, TableKeepsLiveStreams, ResetAt
  <2>3. CASE CheckReplied
    BY <2>3 DEF CheckReplied, AfterReplyCheck
  <2>4. CASE DeliverClosed
    BY <2>4 DEF DeliverClosed, streamVars, AfterDelivery
  <2>5. CASE WorkerClose
    BY <2>5 DEF WorkerClose, history
  <2>6. CASE FinishCheck
    BY <2>6 DEF FinishCheck, history, TableKeepsLiveStreams, ResetAt
  <2>7. CASE CloseStart
    BY <2>7 DEF CloseStart, history
  <2>8. CASE SetFinished
    BY <2>8 DEF SetFinished, history
  <2>9. CASE \E t \in Apps : DeliverData(t)
    BY <2>9 DEF DeliverData, Return, AfterDelivery
  <2>10. CASE \E t \in Apps : DeliverHeaders(t)
    BY <2>10 DEF DeliverHeaders, Return, history, streamVars, AfterDelivery
  <2>11. CASE \E t \in Apps : WorkerSendStart(t)
    BY <2>11 DEF WorkerSendStart, Return, streamVars
  <2> QED
    BY <1>2, <2>1, <2>2, <2>3, <2>4, <2>5, <2>6, <2>7, <2>8, <2>9, <2>10, <2>11 DEF WorkerStep
<1>3. CASE \E kind \in Kinds, fin \in BOOLEAN : Receive(kind, fin)
  BY <1>3 DEF Receive, streamVars, Legal
<1>4. CASE ReadLoopEnds
  BY <1>4 DEF ReadLoopEnds, streamVars, history
<1>5. CASE Cleanup
  BY <1>5 DEF Cleanup, history, TableKeepsLiveStreams
<1>6. CASE UNCHANGED vars
  BY <1>6 DEF vars, streamVars, history
<1> QED
  BY <1>1, <1>2, <1>3, <1>4, <1>5, <1>6 DEF Next

-----------------------------------------------------------------------------
\* A new stream is in the table, and nobody has called a method.
LEMMA InitInv == Init => Inv /\ TableKeepsLiveStreams
<1> SUFFICES ASSUME Init PROVE Inv /\ TableKeepsLiveStreams
  OBVIOUS
<1>1. origin \in {"created", "accepted"} /\ closed \in BOOLEAN /\ finished \in BOOLEAN
  BY DEF Init, InitCreated, InitAccepted
<1>2. worker.at \in {"idle", "handler"} /\ worker \in [at: WorkerStates, kind: Kinds, fin: BOOLEAN]
  <2>1. \/ worker = [at |-> "idle", kind |-> "REPLY", fin |-> FALSE]
        \/ worker = [at |-> "handler", kind |-> "REPLY", fin |-> FALSE]
    BY DEF Init, InitCreated, InitAccepted
  <2>2. "REPLY" \in Kinds /\ {"idle", "handler"} \subseteq WorkerStates
    BY DEF WorkerStates, Kinds
  <2>3. \A at \in WorkerStates, kind \in Kinds :
          [at |-> at, kind |-> kind, fin |-> FALSE] \in [at: WorkerStates, kind: Kinds, fin: BOOLEAN]
    OBVIOUS
  <2>4. worker \in [at: WorkerStates, kind: Kinds, fin: BOOLEAN]
    BY <2>1, <2>2, <2>3, Zenon
  <2> QED
    BY <2>1, <2>4
<1>3. peer \in [replied: BOOLEAN, fin: BOOLEAN, rst: BOOLEAN] /\ peer.rst = FALSE
  BY <1>1 DEF Init
<1>4. app \in [Apps -> [at: AppStates, frame: Frames]] /\ \A t \in Apps : At(t, "idle")
  BY AppStatesAre, FramesAre DEF Init, At
<1>5. TypeOK
  <2>1. /\ sent = <<>> /\ lost = {} /\ waits = {} /\ calls = 0 /\ frames = 0
        /\ phase = "serving" /\ resetCalled = FALSE
        /\ inTable = TRUE /\ replied = FALSE /\ started = FALSE /\ unread = FALSE
    BY DEF Init
  <2> QED
    BY <1>1, <1>2, <1>3, <1>4, <2>1, EmptySeq DEF TypeOK, At
<1>6. sent = <<>> /\ inTable = TRUE
  BY DEF Init
<1>7. FrameInv /\ TerminalInv
  BY <1>4, <1>6 DEF FrameInv, FrameFits, TerminalInv, Pending, TerminalOnce, At
<1>8. StartInv
  BY <1>2 DEF Init, StartInv
<1>9. ResetInv /\ EndingInv /\ TableKeepsLiveStreams
  BY <1>2, <1>3, <1>4, <1>6 DEF ResetInv, ResetAt, EndingInv, TableKeepsLiveStreams, At
<1> QED
  BY <1>5, <1>7, <1>8, <1>9 DEF Inv

\* The inductive invariant, and with it the types, holds in every state of
\* stream.go and its handlers.
THEOREM Invariance == Spec => [](TypeOK /\ Inv)
<1>1. Inv /\ [Next]_vars => Inv'
  BY TypeStep, FrameStep, TerminalStep, StartStep, ResetStep, EndingStep DEF Inv
<1>2. Inv => TypeOK
  BY DEF Inv
<1> QED
  BY <1>1, <1>2, InitInv, PTL DEF Spec

\* Of Close, WriteData with fin, Reset and idle expiry, which claim finished before
\* they write, at most one writes its FIN or RST_STREAM(CANCEL).  Of Cancel, and of
\* the FIN of SendReply and SendHeader, which do not, it says nothing.
THEOREM EndsOnce == Spec => []TerminalOnce
<1>1. Inv => TerminalOnce
  BY DEF Inv, TerminalInv
<1> QED
  BY <1>1, Invariance, PTL

\* The two places that close startChan, and the one that sends on it, cannot
\* panic.
THEOREM StartChanIsSafe == Spec => []StartChanOnce
<1>1. Inv => StartChanOnce
  BY DEF Inv, StartInv, StartChanOnce
<1> QED
  BY <1>1, Invariance, PTL

\* Reset, and handleResetFrame, leave nothing of the stream behind.
THEOREM ResetLeavesNothing == Spec => []ResetIsFinal
<1>1. ASSUME Inv, peer.rst, Quiet
      PROVE  ~inTable /\ closed /\ finished
  <2>1. ~inTable /\ Ending
    BY <1>1 DEF Inv, EndingInv, Quiet
  <2> QED
    BY <1>1, <2>1 DEF Ending, Quiet, At
<1>2. Inv => ResetIsFinal
  BY <1>1 DEF Inv, ResetInv, ResetIsFinal
<1> QED
  BY <1>2, Invariance, PTL

\* removeStream is never called for a stream that is still in use.
THEOREM TableIsFaithful == Spec => []TableKeepsLiveStreams
<1>1. Inv /\ TableKeepsLiveStreams /\ [Next]_vars => TableKeepsLiveStreams'
  BY TableStep
<1> QED
  BY <1>1, Invariance, InitInv, PTL DEF Spec

-----------------------------------------------------------------------------
(* Data reaches the reader                                                 *)

Readers == {t \in Apps : Calls[t] \cap {"Read", "ReadData"} # {}}

\* The remote side is closed for a reason, and the frame in hand is part of it.
ClosedInv ==
    /\ closed => resetCalled \/ peer.fin \/ peer.rst \/ phase = "done"
    /\ worker.at \notin {"idle", "handler"} =>
          (worker.fin => peer.fin) /\ (worker.kind = "RST" => peer.rst)
    /\ worker.at = "closeRemote" => worker.fin \/ worker.kind = "RST"

\* Data in hand finds the stream open and, if we created it, replied.
InHandInv ==
    /\ worker.kind = "DATA" /\ worker.at \in {"checkReplied", "deliver"} =>
          (closed => resetCalled) /\ (origin = "created" => replied)
    /\ origin = "created" /\ peer.replied =>
          replied \/ ~inTable \/ (worker.at = "checkReplied" /\ worker.kind = "REPLY")

\* Whoever waits for data has read all there was.
SelectInv == \A t \in Apps :
    /\ app[t].at \in {"read", "readData", "select"} => t \in Readers
    /\ At(t, "select") => ~unread

DataInv == NoDataLost /\ ClosedInv /\ InHandInv /\ SelectInv

\* One goroutine reads.
OneReader == \A t, u \in Readers : t = u

\* What a step that moves one goroutine of the application has to respect.
LEMMA DataKept ==
    ASSUME Inv, DataInv, NEW t \in Apps, NEW at \in AppStates, Goto(t, at),
           UNCHANGED <<origin, phase, worker, peer, lost>>,
           inTable' => inTable, replied => replied', resetCalled => resetCalled',
           unread' => unread, closed' => closed \/ resetCalled,
           at \in {"read", "readData"} => app[t].at = at,
           at = "select" => t \in Readers /\ ~unread
    PROVE  DataInv'
<1> USE GotoMoves DEF Inv, DataInv
<1>1. NoDataLost'
  BY DEF NoDataLost
<1>2. ClosedInv'
  BY DEF ClosedInv
<1>3. InHandInv'
  BY DEF InHandInv
<1>4. SelectInv'
  BY DEF SelectInv, At, Readers
<1> QED
  BY <1>1, <1>2, <1>3, <1>4

\* Only Read and ReadData look for data.
LEMMA ReadEntries ==
    ASSUME NEW m \in Methods
    PROVE  Entry[m].at # "select" /\ (Entry[m].at \in {"read", "readData"} => m \in {"Read", "ReadData"})
BY DEF Entry, Methods

\* The steps of the application.
LEMMA AppData ==
    ASSUME Inv, DataInv, NEW t \in Apps, Call(t) \/ AppStep(t)
    PROVE  DataInv'
<1> USE DataKept, AppStatesAre DEF At
<1>1. CASE Call(t)
  <2>1. PICK m \in Calls[t] : /\ app' = [app EXCEPT ![t] = Entry[m]]
                             /\ resetCalled' = (resetCalled \/ m = "Reset")
    BY <1>1 DEF Call
  <2>2. /\ app'[t] = Entry[m] /\ Entry[m].at # "select"
        /\ Entry[m].at \in {"read", "readData"} => m \in {"Read", "ReadData"}
    BY <2>1, ReadEntries, StreamAssumption DEF Inv, TypeOK
  <2>3. \A u \in Apps \ {t} : app'[u] = app[u]
    BY <2>1 DEF Inv, TypeOK
  <2>4. UNCHANGED <<streamVars, phase, worker, peer, lost>> /\ (resetCalled => resetCalled')
    BY <1>1, <2>1 DEF Call
  <2>5. SelectInv'
    BY <2>1, <2>2, <2>3, <2>4 DEF DataInv, SelectInv, streamVars, Readers
  <2> QED
    BY <2>4, <2>5 DEF DataInv, NoDataLost, ClosedInv, InHandInv, streamVars
<1>2. CASE CloseCheck(t)
  BY <1>2 DEF CloseCheck, history
<1>3. CASE WaitWriteReply(t)
  BY <1>3 DEF WaitWriteReply, history, streamVars
<1>4. CASE Finish(t)
  BY <1>4 DEF Finish, Return, history
<1>5. CASE Send(t)
  BY <1>5 DEF Send, Return, streamVars
<1>6. CASE ResetRemove(t)
  BY <1>6 DEF ResetRemove, history
<1>7. CASE ResetClose(t)
  BY <1>7 DEF ResetClose, history, Inv, ResetInv, ResetAt
<1>8. CASE ResetFinish(t)
  BY <1>8 DEF ResetFinish, Return, history
<1>9. CASE ReplyCheck(t)
  BY <1>9 DEF ReplyCheck, Return, history, streamVars
<1>10. CASE SendReply(t)
  <2>1. /\ UNCHANGED <<origin, inTable, closed, unread, phase, worker, peer, resetCalled, lost>>
        /\ replied => replied'
    BY <1>10 DEF SendReply, Inv, TypeOK
  <2>2. \A u \in Apps : app'[u].at \in {"read", "readData", "select"} => app'[u].at = app[u].at
    BY <1>10, GotoMoves DEF SendReply, Return, Inv, TypeOK
  <2> QED
    BY <2>1, <2>2 DEF DataInv, NoDataLost, ClosedInv, InHandInv, SelectInv
<1>11. CASE Refuse(t)
  BY <1>11 DEF Refuse, Return, history
<1>12. CASE WaitReturns(t)
  BY <1>12 DEF WaitReturns, Return, streamVars
<1>13. CASE ReadCheck(t)
  BY <1>13 DEF ReadCheck, Return, history, Inv, DataInv, SelectInv
<1>14. CASE ReadEOF(t)
  BY <1>14 DEF ReadEOF, Return, history, streamVars
<1> QED
  BY <1>1, <1>2, <1>3, <1>4, <1>5, <1>6, <1>7, <1>8, <1>9, <1>10, <1>11, <1>12, <1>13, <1>14 DEF AppStep

\* The steps of the worker: only one goroutine can be waiting for the data.
LEMMA WorkerData ==
    ASSUME OneReader, Inv, DataInv, WorkerStep
    PROVE  DataInv'
<1> USE WorkerMoves, GotoMoves, AppStatesAre
        DEF Inv, DataInv, NoDataLost, ClosedInv, InHandInv, SelectInv, WorkerStates, At
<1>1. CASE HandlerReturns
  BY <1>1 DEF HandlerReturns, history, streamVars
<1>2. CASE WorkerRemove
  BY <1>2 DEF WorkerRemove, history, ResetInv
<1>3. CASE CheckReplied
  BY <1>3 DEF CheckReplied, AfterReplyCheck, TypeOK, Kinds
<1>4. CASE DeliverClosed
  BY <1>4 DEF DeliverClosed, streamVars, AfterDelivery
<1>5. CASE WorkerClose
  BY <1>5 DEF WorkerClose, history
<1>6. CASE FinishCheck
  BY <1>6 DEF FinishCheck, history
<1>7. CASE CloseStart
  BY <1>7 DEF CloseStart, history
<1>8. CASE SetFinished
  BY <1>8 DEF SetFinished, history
<1>9. ASSUME NEW t \in Apps, DeliverData(t) PROVE DataInv'
  BY <1>9 DEF DeliverData, Return, AfterDelivery, OneReader
<1>10. ASSUME NEW t \in Apps, DeliverHeaders(t) PROVE DataInv'
  BY <1>10 DEF DeliverHeaders, Return, AfterDelivery, history, streamVars
<1>11. ASSUME NEW t \in Apps, WorkerSendStart(t) PROVE DataInv'
  BY <1>11 DEF WorkerSendStart, Return, streamVars
<1> QED
  BY <1>1, <1>2, <1>3, <1>4, <1>5, <1>6, <1>7, <1>8, <1>9, <1>10, <1>11 DEF WorkerStep

\* Data reaches the stream as long as its peer has neither finished nor reset it.
LEMMA DataStep ==
    ASSUME OneReader, Inv, TableKeepsLiveStreams, DataInv, [Next]_vars
    PROVE  DataInv'
<1>1. CASE \E t \in Apps : Call(t) \/ AppStep(t)
  BY <1>1, AppData
<1>2. CASE WorkerStep
  BY <1>2, WorkerData
<1> USE DEF Inv, DataInv, NoDataLost, ClosedInv, InHandInv, SelectInv
<1>3. ASSUME NEW kind \in Kinds, NEW fin \in BOOLEAN, Receive(kind, fin) PROVE DataInv'
  BY <1>3 DEF Receive, Legal, TypeOK, streamVars, TableKeepsLiveStreams, At, Kinds
<1>4. CASE ReadLoopEnds
  BY <1>4 DEF ReadLoopEnds, streamVars, history, At
<1>5. CASE Cleanup
  BY <1>5 DEF Cleanup, history, At
<1>6. CASE UNCHANGED vars
  BY <1>6 DEF vars, streamVars, history, At
<1> QED
  BY <1>1, <1>2, <1>3, <1>4, <1>5, <1>6 DEF Next

\* A new stream has no data.
LEMMA InitData == Init => DataInv
BY DEF Init, InitCreated, InitAccepted, DataInv, NoDataLost, ClosedInv, InHandInv,
       SelectInv, At

\* connection.go:605, stream.go:103: if one goroutine reads, data the peer sent
\* before its FIN is dropped only after a local reset, or before the reply to a
\* stream the peer created.
THEOREM DataArrives ==
    ASSUME OneReader
    PROVE  Spec => []NoDataLost
<1>1. Inv /\ TableKeepsLiveStreams /\ DataInv /\ [Next]_vars => DataInv'
  BY DataStep
<1>2. DataInv => NoDataLost
  BY DEF DataInv
<1> QED
  BY <1>1, <1>2, InitData, Invariance, TableIsFaithful, PTL DEF Spec
-----------------------------------------------------------------------------
(* The reply                                                               *)

Replied == \E i \in DOMAIN sent : IsReply(sent[i])

\* Only SendReply writes a reply, one call at a time; once it has, it is written
\* no more and nobody parks.
ReplyInv ==
    /\ \A t \in Apps : At(t, "send") => ~IsReply(app[t].frame)
    /\ \A t, u \in Apps : At(t, "sendReply") /\ At(u, "sendReply") => t = u
    /\ Replied => replied /\ \A t \in Apps : ~At(t, "sendReply") /\ ~At(t, "parked")
    /\ ReplyOnce

\* What a step of a goroutine has to respect.
LEMMA ReplyKept ==
    ASSUME Inv, ReplyInv, NEW t \in Apps, NEW at \in AppStates, Goto(t, at),
           sent' = sent, replied => replied',
           at = "send" => ~IsReply(app[t].frame),
           at = "sendReply" => ReplyLockFree /\ ~replied,
           at = "parked" => ~replied
    PROVE  ReplyInv'
<1>1. /\ app'[t].at = at /\ \A u \in Apps : u # t => app'[u].at = app[u].at
      /\ \A u \in Apps : app'[u].frame = app[u].frame
  BY GotoMoves DEF Inv
<1>2. ASSUME NEW u \in Apps, At(u, "send")' PROVE ~IsReply(app'[u].frame)
  BY <1>1, <1>2 DEF ReplyInv, At
<1>3. ASSUME NEW u \in Apps, NEW v \in Apps, At(u, "sendReply")', At(v, "sendReply")'
      PROVE  u = v
  BY <1>1, <1>3 DEF ReplyInv, At, ReplyLockFree
<1>4. Replied => replied' /\ \A u \in Apps : ~At(u, "sendReply")' /\ ~At(u, "parked")'
  BY <1>1 DEF ReplyInv, At
<1>5. Replied' = Replied
  BY DEF Replied
<1>6. ReplyOnce'
  BY <1>4 DEF ReplyInv, ReplyOnce, Replied
<1> QED
  BY <1>2, <1>3, <1>4, <1>5, <1>6 DEF ReplyInv

\* Where nobody goes on to the reply.
LEMMA ReplyStays ==
    ASSUME ReplyInv, sent' = sent, replied => replied',
           \A t \in Apps : app'[t] = app[t] \/ app'[t].at \notin {"send", "sendReply", "parked"}
    PROVE  ReplyInv'
<1>1. ASSUME NEW u \in Apps PROVE At(u, "send")' => At(u, "send") /\ app'[u] = app[u]
  BY DEF At
<1>2. ASSUME NEW u \in Apps PROVE /\ At(u, "sendReply")' => At(u, "sendReply")
                                  /\ At(u, "parked")' => At(u, "parked")
  BY DEF At
<1>3. Replied' = Replied
  BY DEF Replied
<1>4. ReplyOnce'
  BY <1>2 DEF ReplyInv, ReplyOnce
<1> QED
  BY <1>1, <1>2, <1>3, <1>4 DEF ReplyInv

\* A frame is added to the wire.
LEMMA SentGrows ==
    ASSUME TypeOK, NEW f \in Frames, sent' = Append(sent, f)
    PROVE  /\ DOMAIN sent' = DOMAIN sent \cup {Len(sent) + 1} /\ Len(sent) + 1 \notin DOMAIN sent
           /\ sent'[Len(sent) + 1] = f
           /\ \A i \in DOMAIN sent : sent'[i] = sent[i]
BY DEF TypeOK

\* Send writes no reply.
LEMMA SendsNoReply ==
    ASSUME Inv, ReplyInv, NEW t \in Apps, Send(t)
    PROVE  ReplyInv'
<1>1. /\ app'[t].at = "idle" /\ \A u \in Apps : u # t => app'[u].at = app[u].at
      /\ \A u \in Apps : app'[u].frame = app[u].frame
  BY GotoMoves, AppStatesAre DEF Inv, Send, Return
<1>2. UNCHANGED replied
  BY DEF Send, streamVars
<1>3. CASE sent' = sent
  <2>1. Goto(t, "idle")
    BY DEF Send, Return
  <2> QED
    BY <1>2, <1>3, <2>1, ReplyKept, AppStatesAre
<1>4. CASE sent' = Append(sent, app[t].frame)
  <2>1. app[t].frame \in Frames /\ ~IsReply(app[t].frame)
    BY DEF Send, Inv, TypeOK, ReplyInv
  <2>2. /\ \A i \in DOMAIN sent' : IsReply(sent'[i]) => i \in DOMAIN sent /\ IsReply(sent[i])
        /\ \A i \in DOMAIN sent : i \in DOMAIN sent' /\ sent'[i] = sent[i]
    BY <1>4, <2>1, SentGrows DEF Inv
  <2>3. Replied' => Replied
    BY <2>2 DEF Replied
  <2>4. ASSUME NEW u \in Apps PROVE /\ At(u, "send")' => At(u, "send")
                                    /\ At(u, "sendReply")' => At(u, "sendReply")
                                    /\ At(u, "parked")' => At(u, "parked")
    BY <1>1 DEF At
  <2>5. ReplyOnce'
    <3>1. \A i, j \in DOMAIN sent' : IsReply(sent'[i]) /\ IsReply(sent'[j]) => i = j
      BY <2>2 DEF ReplyInv, ReplyOnce
    <3>2. Replied' => \A u \in Apps : ~At(u, "parked")'
      BY <2>3, <2>4 DEF ReplyInv
    <3> QED
      BY <3>1, <3>2 DEF ReplyOnce, Replied
  <2> QED
    BY <1>1, <1>2, <2>3, <2>4, <2>5 DEF ReplyInv
<1> QED
  BY <1>3, <1>4 DEF Send

\* SendReply writes one, and wakes who waits for it.
LEMMA SendsReply ==
    ASSUME Inv, ReplyInv, NEW t \in Apps, SendReply(t)
    PROVE  ReplyInv'
<1>1. CASE Return(t) /\ UNCHANGED <<sent, replied>>
  BY <1>1, ReplyKept, AppStatesAre DEF Return
<1>2. CASE /\ sent' = Append(sent, app[t].frame) /\ replied' = TRUE
           /\ app' = [u \in Apps |->
                        IF u = t THEN [app[u] EXCEPT !.at = "idle"]
                        ELSE IF At(u, "parked") THEN [app[u] EXCEPT !.at = "waitReply"]
                        ELSE app[u]]
  <2>1. app[t].frame \in Frames /\ app \in [Apps -> [at: AppStates, frame: Frames]]
    BY DEF Inv, TypeOK
  <2>2. /\ app'[t].at = "idle"
        /\ \A u \in Apps : u # t => /\ app'[u].frame = app[u].frame
                                    /\ app'[u].at = IF At(u, "parked") THEN "waitReply" ELSE app[u].at
    BY <1>2, <2>1
  <2>3. \A u \in Apps : u # t => ~At(u, "sendReply")
    BY DEF ReplyInv, SendReply
  <2>4. ~Replied
    BY DEF ReplyInv, SendReply
  <2>5. \A i \in DOMAIN sent' : IsReply(sent'[i]) => i = Len(sent) + 1
    BY <1>2, <2>1, <2>4, SentGrows DEF Inv, Replied
  <2>6. \A u \in Apps : /\ ~At(u, "sendReply")' /\ ~At(u, "parked")'
                        /\ At(u, "send")' => u # t /\ At(u, "send")
    BY <2>2, <2>3 DEF At
  <2>7. ReplyOnce'
    BY <2>5, <2>6 DEF ReplyOnce
  <2> QED
    BY <1>2, <2>2, <2>6, <2>7 DEF ReplyInv
<1> QED
  BY <1>1, <1>2 DEF SendReply

\* The steps of the application.
LEMMA AppReply ==
    ASSUME Inv, ReplyInv, NEW t \in Apps, Call(t) \/ AppStep(t)
    PROVE  ReplyInv'
<1> USE ReplyKept, AppStatesAre
        DEF Inv, TypeOK, FrameInv, FrameFits, At, IsReply, Return, history, streamVars
<1>1. CASE Call(t)
  <2>1. PICK m \in Methods : app' = [app EXCEPT ![t] = Entry[m]]
    BY <1>1, CallEnters
  <2>2. /\ Entry[m].at \notin {"sendReply", "parked"}
        /\ Entry[m].at = "send" => ~IsReply(Entry[m].frame)
    BY DEF Entry, Methods
  <2>3. app'[t] = Entry[m] /\ \A u \in Apps : u # t => app'[u] = app[u]
    BY <2>1, EntryType
  <2>4. UNCHANGED <<sent, replied>>
    BY <1>1 DEF Call
  <2>5. /\ \A u \in Apps : At(u, "send")' => ~IsReply(app'[u].frame)
        /\ \A u \in Apps : At(u, "sendReply")' => At(u, "sendReply")
        /\ \A u \in Apps : At(u, "parked")' => At(u, "parked")
    BY <2>2, <2>3 DEF ReplyInv
  <2>6. ReplyOnce' /\ Replied' = Replied
    BY <2>4, <2>5 DEF ReplyInv, ReplyOnce, Replied
  <2> QED
    BY <2>4, <2>5, <2>6 DEF ReplyInv
<1>2. CASE CloseCheck(t)
  BY <1>2 DEF CloseCheck
<1>3. CASE WaitWriteReply(t)
  BY <1>3 DEF WaitWriteReply
<1>4. CASE Finish(t)
  BY <1>4 DEF Finish
<1>5. CASE Send(t)
  BY <1>5, SendsNoReply
<1>6. CASE ResetRemove(t)
  BY <1>6 DEF ResetRemove
<1>7. CASE ResetClose(t)
  BY <1>7 DEF ResetClose
<1>8. CASE ResetFinish(t)
  BY <1>8 DEF ResetFinish
<1>9. CASE ReplyCheck(t)
  BY <1>9 DEF ReplyCheck
<1>10. CASE SendReply(t)
  BY <1>10, SendsReply
<1>11. CASE Refuse(t)
  BY <1>11 DEF Refuse
<1>12. CASE WaitReturns(t)
  BY <1>12 DEF WaitReturns
<1>13. CASE ReadCheck(t)
  BY <1>13 DEF ReadCheck
<1>14. CASE ReadEOF(t)
  BY <1>14 DEF ReadEOF
<1> QED
  BY <1>1, <1>2, <1>3, <1>4, <1>5, <1>6, <1>7, <1>8, <1>9, <1>10, <1>11, <1>12, <1>13, <1>14 DEF AppStep

\* The worker, the peer and the end of Serve send no reply and park nobody.
LEMMA ReplyStep ==
    ASSUME Inv, ReplyInv, [Next]_vars
    PROVE  ReplyInv'
<1>1. CASE \E t \in Apps : Call(t) \/ AppStep(t)
  BY <1>1, AppReply
<1> USE ReplyStays DEF history, streamVars
<1>2. CASE UNCHANGED <<app, sent>> /\ (replied => replied')
  BY <1>2
<1>3. ASSUME NEW t \in Apps, DeliverData(t) \/ DeliverHeaders(t) \/ WorkerSendStart(t)
      PROVE  ReplyInv'
  <2>1. Goto(t, "idle") /\ UNCHANGED <<sent, replied>>
    BY <1>3 DEF DeliverData, DeliverHeaders, WorkerSendStart, Return
  <2> QED
    BY <2>1, ReplyKept, AppStatesAre
<1>4. CASE \/ HandlerReturns \/ WorkerRemove \/ CheckReplied \/ DeliverClosed
           \/ WorkerClose \/ FinishCheck \/ CloseStart \/ SetFinished
  BY <1>2, <1>4 DEF HandlerReturns, WorkerRemove, CheckReplied, DeliverClosed, WorkerClose, FinishCheck,
     CloseStart, SetFinished
<1>5. ASSUME NEW kind \in Kinds, NEW fin \in BOOLEAN, Receive(kind, fin) PROVE ReplyInv'
  BY <1>2, <1>5 DEF Receive
<1>6. CASE ReadLoopEnds \/ Cleanup \/ UNCHANGED vars
  BY <1>2, <1>6 DEF ReadLoopEnds, Cleanup, vars
<1> QED
  BY <1>1, <1>3, <1>4, <1>5, <1>6 DEF Next, WorkerStep

\* A new stream has no reply.
LEMMA InitReply == Init => ReplyInv
BY DEF Init, ReplyInv, ReplyOnce, Replied, At

\* stream.go:138: SendReply writes its SYN_REPLY at most once, whoever else calls
\* it or Refuse, and no writer sleeps through it.
THEOREM ReplyIsHeard == Spec => []ReplyOnce
<1>1. Inv /\ ReplyInv /\ [Next]_vars => ReplyInv'
  BY ReplyStep
<1>2. ReplyInv => ReplyOnce
  BY DEF ReplyInv
<1> QED
  BY <1>1, <1>2, InitReply, Invariance, PTL DEF Spec
=============================================================================
