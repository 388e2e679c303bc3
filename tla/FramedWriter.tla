---------------------------- MODULE FramedWriter ----------------------------
(***************************************************************************)
(* idleAwareFramer around the SPDY framer: WriteFrame calls f.WriteFrame   *)
(* with writeLock held, which keeps the header blocks in order, and the    *)
(* other end reads what is written.                                        *)
(***************************************************************************)
EXTENDS IdleFramer, Integers

CONSTANTS MaxDataLength, maxFrameLength, maxHeaderFieldSize, maxHeaderCount,
          defaultMaxHeaderFieldSize, defaultMaxHeaderCount, Frames, BlockSizes

VARIABLES headerBuf, blocks, writing, wire, headerReader, decoded, err,
          written, read, lost, torn

F == INSTANCE SpdyFramer

ASSUME FramedWriterAssumption == F!FramerAssumption

framer == <<headerBuf, blocks, writing, wire, headerReader, decoded, err,
            written, read, lost, torn>>
framedVars == <<vars, framer>>

FramedTypeOK == TypeOK /\ F!FramerTypeOK

FramedInit == Init /\ F!FramerInit

-----------------------------------------------------------------------------
\* WriteFrame has writeLock; f.WriteFrame begins unless resetChan is nil.
FramedLock(t) ==
    /\ WriteLock(t)
    /\ IF resetClosed THEN UNCHANGED framer ELSE \E frame \in Frames : F!Marshal(t, frame)

\* f.WriteFrame returns; an error, or EOF, ends the call.
FramedWrite(t) ==
    /\ Write(t)
    /\ IF pc'[t] = "send" THEN F!Emit(t)
       ELSE IF writing[t].busy THEN F!EmitFails(t) \/ F!EmitTorn(t)
       ELSE UNCHANGED framer

FramedStep(t) == FramedLock(t) \/ FramedWrite(t) \/ (WriteSend(t) /\ UNCHANGED framer)

\* What does not touch the SPDY framer.
Besides ==
    /\ \/ \E t \in Threads : Call(t)
       \/ \E t \in Setters : SetterStep(t)
       \/ ReadFrame \/ ReadError \/ ReaderStep
       \/ MonitorStep \/ Drainers \/ TimerFires
    /\ UNCHANGED framer

PeerReads == F!Read /\ UNCHANGED vars

FramedNext == (\E t \in Writers : FramedStep(t)) \/ Besides \/ PeerReads

FramedSpec == FramedInit /\ [][FramedNext]_framedVars

\* As in IdleFramer.  Nothing is asked of the other end.
FramedFairSpec ==
    /\ FramedSpec
    /\ \A t \in Writers : WF_framedVars(FramedStep(t))
    /\ \A t \in Setters : WF_framedVars(SetterStep(t) /\ UNCHANGED framer)
    /\ WF_framedVars(ReaderStep /\ UNCHANGED framer)
    /\ WF_framedVars(MonitorStep /\ UNCHANGED framer)
    /\ WF_framedVars(Drainers /\ UNCHANGED framer)

-----------------------------------------------------------------------------
(* Properties of the frames, see SpdyFramer                                *)

\* spdy/write.go:225, connection.go:151: under writeLock frames arrive intact,
\* but for what a header frame that could not be written does to one later frame.
FramesIntact == F!FramesIntact

\* spdy/read.go:278: the compression contexts of the two ends agree, and a wrong
\* payload size is the work of a header frame that could not be written, or the
\* error of a frame over a limit of the reader.
ContextsAgree == F!ContextsAgree
=============================================================================
