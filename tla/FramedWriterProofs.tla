------------------------- MODULE FramedWriterProofs -------------------------
(***************************************************************************)
(* Proofs about FramedWriter and the IdleFramer in it, for any number of   *)
(* writers and setters, any frames, sizes and limits: nobody sends on a    *)
(* channel that the monitor has closed, frames arrive intact and the       *)
(* compression contexts agree.                                             *)
(***************************************************************************)
EXTENDS FramedWriter, Sequences, TLAPS

-----------------------------------------------------------------------------
(* The framer with its monitor, whatever the frames are (IdleFramer)       *)

\* The mutexes: whoever is between Lock and Unlock holds the lock.
LockInv ==
    /\ \A t \in Writers : pc[t] \in {"held", "send"} <=> writeLock = t
    /\ \A t \in Setters : pc[t] = "send" <=> setTimeoutLock = t

\* The order of the take-down: the read loop ends, closeChan is closed, the
\* monitor leaves its select, then closes the two channels one by one.  A tick
\* needs a timer.
DownInv ==
    /\ reader # "done" => ~closeChan
    /\ monitor # "select" => closeChan
    /\ resetClosed => monitor \notin {"select", "closeReset"}
    /\ setClosed => monitor \in {"drain", "done"}
    /\ tick => timer # "none"

\* From when the monitor leaves its select a channel has its drainer, until the
\* channel is closed.
DrainInv == monitor # "select" =>
    /\ resetClosed \/ "reset" \in drainers
    /\ setClosed \/ "set" \in drainers

Inv == TypeOK /\ LockInv /\ DownInv /\ DrainInv /\ NoSendOnClosed

\* A new framer has open channels and free locks.
LEMMA InitInv == Init => Inv
<1> SUFFICES ASSUME Init PROVE Inv
  OBVIOUS
<1>1. TypeOK
  <2>1. pc \in [Threads -> {"idle", "lock", "held", "send"}]
    BY DEF Init
  <2>2. /\ reset \in 0 .. 2 /\ set \in {"empty", "zero", "positive"} /\ calls \in Nat
        /\ drainers \subseteq {"reset", "set"} /\ expiries \subseteq {"running", "fired", "stopped"}
    BY DEF Init
  <2> QED
    BY <2>1, <2>2 DEF Init, TypeOK, MonitorStates
<1>2. LockInv /\ NoSendOnClosed
  BY IdleAssumption DEF Init, LockInv, NoSendOnClosed, Threads
<1>3. DownInv /\ DrainInv
  BY DEF Init, DownInv, DrainInv
<1> QED
  BY <1>1, <1>2, <1>3 DEF Inv

\* A call of a writer or a setter moves that one alone.
LEMMA GotoMoves ==
    ASSUME TypeOK, NEW t \in Threads, NEW at \in {"idle", "lock", "held", "send"}, Goto(t, at)
    PROVE  /\ pc' \in [Threads -> {"idle", "lock", "held", "send"}]
           /\ pc'[t] = at
           /\ \A u \in Threads \ {t} : pc'[u] = pc[u]
BY DEF TypeOK, Goto

\* Calls of WriteFrame and setIdleTimeout.
LEMMA CallStep ==
    ASSUME Inv, NEW t \in Threads,
           \/ Call(t)
           \/ t \in Writers /\ WriterStep(t)
           \/ t \in Setters /\ SetterStep(t)
    PROVE  Inv'
<1> USE GotoMoves, IdleAssumption
    DEF Inv, TypeOK, LockInv, DownInv, DrainInv, NoSendOnClosed, Threads, chans, locks, timers
<1>1. CASE Call(t)
  BY <1>1 DEF Call
<1>2. CASE t \in Writers /\ WriteLock(t)
  BY <1>2 DEF WriteLock
<1>3. CASE t \in Writers /\ Write(t)
  BY <1>3 DEF Write
<1>4. CASE t \in Writers /\ WriteSend(t)
  BY <1>4 DEF WriteSend, ResetCap
<1>5. CASE t \in Setters /\ SetLock(t)
  BY <1>5 DEF SetLock
<1>6. CASE t \in Setters /\ SetSend(t)
  BY <1>6 DEF SetSend
<1> QED
  BY <1>1, <1>2, <1>3, <1>4, <1>5, <1>6 DEF WriterStep, SetterStep

\* The read loop: ReadFrame and the end of Serve.
LEMMA ReaderKeepsInv ==
    ASSUME Inv, ReadFrame \/ ReadError \/ ReaderStep
    PROVE  Inv'
<1> USE DEF Inv, TypeOK, LockInv, DownInv, DrainInv, NoSendOnClosed, chans, locks, timers
<1>1. CASE ReadFrame
  BY <1>1 DEF ReadFrame
<1>2. CASE ReadError
  BY <1>2 DEF ReadError
<1>3. CASE ReadSend
  BY <1>3 DEF ReadSend, ResetCap
<1>4. CASE CloseChan
  BY <1>4 DEF CloseChan
<1> QED
  BY <1>1, <1>2, <1>3, <1>4 DEF ReaderStep

\* The monitor takes each lock before it closes the channel behind it.
LEMMA MonitorKeepsInv ==
    ASSUME Inv, MonitorStep
    PROVE  Inv'
<1> USE DEF Inv, TypeOK, LockInv, DownInv, DrainInv, NoSendOnClosed, chans, locks, timers, MonitorStates
<1>1. CASE MonitorSet
  BY <1>1 DEF MonitorSet
<1>2. CASE MonitorReset
  BY <1>2 DEF MonitorReset
<1>3. CASE MonitorExpired
  BY <1>3 DEF MonitorExpired
<1>4. CASE MonitorClosing
  BY <1>4 DEF MonitorClosing
<1>5. CASE MonitorCloseReset
  <2>1. \A t \in Writers : pc[t] # "send"
    BY <1>5, IdleAssumption DEF MonitorCloseReset
  <2>2. reader # "send"
    BY <1>5 DEF MonitorCloseReset
  <2> QED
    BY <1>5, <2>1, <2>2 DEF MonitorCloseReset
<1>6. CASE MonitorCloseSet
  <2>1. \A t \in Setters : pc[t] # "send"
    BY <1>6, IdleAssumption DEF MonitorCloseSet
  <2> QED
    BY <1>6, <2>1 DEF MonitorCloseSet
<1>7. CASE MonitorEnds
  BY <1>7 DEF MonitorEnds
<1> QED
  BY <1>1, <1>2, <1>3, <1>4, <1>5, <1>6, <1>7 DEF MonitorStep

\* The goroutines that empty the channels, and the timer, close nothing.
LEMMA DrainersKeepInv ==
    ASSUME Inv, Drainers \/ TimerFires
    PROVE  Inv'
<1> USE DEF Inv, TypeOK, LockInv, DownInv, DrainInv, NoSendOnClosed, chans, locks, timers
<1>1. CASE DrainReset
  BY <1>1 DEF DrainReset
<1>2. CASE DrainSet
  BY <1>2 DEF DrainSet
<1>3. CASE DrainerEnds
  <2>1. drainers' \subseteq drainers
    BY <1>3 DEF DrainerEnds
  <2>2. UNCHANGED <<chans, locks, timers, monitor, pc, reader, closeChan, calls>>
    BY <1>3 DEF DrainerEnds
  <2>3. /\ resetClosed \/ "reset" \in drainers => resetClosed' \/ "reset" \in drainers'
        /\ setClosed \/ "set" \in drainers => setClosed' \/ "set" \in drainers'
    BY <1>3 DEF DrainerEnds
  <2> QED
    BY <2>1, <2>2, <2>3
<1>4. CASE TimerFires
  BY <1>4 DEF TimerFires
<1> QED
  BY <1>1, <1>2, <1>3, <1>4 DEF Drainers

\* The inductive invariant, and with it the types, holds in every state of the
\* framer and its monitor.
THEOREM IdleInvariance == Spec => [](TypeOK /\ Inv)
<1>1. Inv /\ [Next]_vars => Inv'
  <2> SUFFICES ASSUME Inv, [Next]_vars PROVE Inv'
    OBVIOUS
  <2>1. CASE UNCHANGED vars
    BY <2>1 DEF vars, chans, locks, timers, Inv, TypeOK, LockInv, DownInv, DrainInv, NoSendOnClosed
  <2> QED
    BY <2>1, CallStep, ReaderKeepsInv, MonitorKeepsInv, DrainersKeepInv DEF Next, Threads
<1>2. Inv => TypeOK
  BY DEF Inv
<1> QED
  BY <1>1, <1>2, InitInv, PTL DEF Spec

\* WriteFrame, ReadFrame and setIdleTimeout never send on a closed channel,
\* which would panic, however the end of the connection falls between them.
THEOREM SendsAreSafe == Spec => []NoSendOnClosed
<1>1. Inv => NoSendOnClosed
  BY DEF Inv
<1> QED
  BY <1>1, IdleInvariance, PTL

\* Issue 49, connection.go:161: writers, setters, the read loop, the monitor and
\* its drainers never wait for each other in a circle, at no step of the
\* take-down.
THEOREM NoDeadlock == Spec => []NoCircularWait
<1>1. Inv => NoCircularWait
  <2> SUFFICES ASSUME Inv PROVE NoCircularWait
    OBVIOUS
  <2>1. /\ writeLock # NoOne => pc[writeLock] \in {"held", "send"}
        /\ setTimeoutLock # NoOne => pc[setTimeoutLock] = "send"
    BY DEF Inv, TypeOK, LockInv
  <2>2. /\ reader = "send" \/ (\E t \in Writers : pc[t] = "send") =>
              monitor = "select" \/ "reset" \in drainers
        /\ (\E t \in Setters : pc[t] = "send") => monitor = "select" \/ "set" \in drainers
    BY DEF Inv, DrainInv, NoSendOnClosed
  <2> QED
    BY <2>1, <2>2 DEF NoCircularWait
<1> QED
  BY <1>1, IdleInvariance, PTL

-----------------------------------------------------------------------------
(* The frames                                                              *)

HeaderKinds == F!HeaderKinds

\* n is the number of the first block after those of the first m frames of s.
Follows(n, m, s) ==
    /\ \A j \in 1 .. m : s[j].n < n
    /\ n = 1 \/ \E j \in 1 .. m : n = s[j].n + 1

\* Frame i of s, with this payload: its own block comes last, after blocks of l,
\* the lost ones.
Carries(payload, i, s, l) ==
    /\ s[i].frame.kind \notin HeaderKinds => s[i].n = 0
    /\ s[i].frame.kind \in HeaderKinds =>
          /\ payload # <<>> /\ payload[Len(payload)].n = s[i].n
          /\ payload[Len(payload)].headers = s[i].frame.headers
          /\ \A j \in 1 .. Len(payload) - 1 : payload[j].n \in l
          /\ Follows(payload[1].n, i - 1, s)
          /\ payload[1].n <= s[i].n

\* Up to where it is torn, the wire holds the frames written and not yet read.
WireInv == err = "none" =>
    \A k \in 1 .. Len(wire) : (\A j \in 1 .. k : ~wire[j].torn) =>
        /\ Len(read) + k <= Len(written)
        /\ wire[k].frame = written[Len(read) + k].frame
        /\ Carries(wire[k].payload, Len(read) + k, written, lost)

\* headerBuf: blocks that were lost, and the one of the frame being written.
BufferInv == ~torn =>
    /\ headerBuf = <<>> => Follows(blocks + 1, Len(written), written)
    /\ headerBuf # <<>> =>
          /\ Follows(headerBuf[1].n, Len(written), written)
          /\ headerBuf[1].n <= blocks
          /\ headerBuf[Len(headerBuf)].n = blocks
          /\ \A j \in 1 .. Len(headerBuf) - 1 : headerBuf[j].n \in lost
          /\ blocks \in lost \/ \E t \in Writers :
                writing[t].busy /\ writing[t].frame.kind \in HeaderKinds

\* A header frame that is being written carries the last block, with its headers.
BusyInv == \A t \in Writers : writing[t].busy =>
    IF writing[t].frame.kind \in HeaderKinds
    THEN /\ writing[t].n = blocks /\ headerBuf # <<>>
         /\ headerBuf[Len(headerBuf)].headers = writing[t].frame.headers
    ELSE writing[t].n = 0

\* Who writes a frame has writeLock.
HeldInv == \A t \in Writers : writing[t].busy => pc[t] = "held"

\* What was read ahead is the work of a lost block, and so is a frame with the
\* headers of another one.
ReadInv ==
    /\ \A i \in F!Wrong : headerReader # <<>>
    /\ headerReader # <<>> => lost # {}
    /\ err = "none" /\ headerReader = <<>> => Follows(decoded + 1, Len(read), written)

\* Frames are read and on their way, unless one was torn.
TornInv == err = "none" /\ (\A j \in 1 .. Len(wire) : ~wire[j].torn) =>
    ~torn /\ Len(written) = Len(read) + Len(wire)

FramerInv ==
    /\ F!FramerTypeOK /\ WireInv /\ BufferInv /\ BusyInv /\ ReadInv /\ TornInv
    /\ FramesIntact /\ ContextsAgree

FramedInv == Inv /\ FramerInv /\ HeldInv

-----------------------------------------------------------------------------
(* The order of blocks                                                     *)

Record == [frame: F!Frame, n: Nat]

\* The block number of a frame.
LEMMA BlockNumber ==
    ASSUME NEW s \in Seq(Record), NEW j \in 1 .. Len(s)
    PROVE  s[j] \in Record /\ s[j].n \in Nat
<1>1. s[j] \in Record
  OBVIOUS
<1> QED
  BY <1>1 DEF Record

\* There is one such number.
LEMMA FollowsOnce ==
    ASSUME NEW s \in Seq(Record), NEW m \in 0 .. Len(s), NEW a \in Nat, NEW b \in Nat,
           Follows(a, m, s), Follows(b, m, s)
    PROVE  a = b
<1>1. \A j \in 1 .. m : s[j].n \in Nat
  BY BlockNumber
<1> QED
  BY <1>1 DEF Follows

\* Blocks are counted from 1.
LEMMA FollowsPositive ==
    ASSUME NEW s \in Seq(Record), NEW m \in 0 .. Len(s), NEW a \in Nat, Follows(a, m, s)
    PROVE  a > 0
<1>1. \A j \in 1 .. m : s[j].n \in Nat
  BY BlockNumber
<1> QED
  BY <1>1 DEF Follows

\* It does not depend on the frames that follow.
LEMMA FollowsStays ==
    ASSUME NEW s \in Seq(Record), NEW r \in Record, NEW m \in 0 .. Len(s), NEW a \in Nat,
           Follows(a, m, s)
    PROVE  Follows(a, m, Append(s, r))
<1>1. \A j \in 1 .. m : Append(s, r)[j] = s[j]
  OBVIOUS
<1> QED
  BY <1>1 DEF Follows

\* A frame without headers does not change it, one with headers moves it on.
LEMMA FollowsNext ==
    ASSUME NEW s \in Seq(Record), NEW m \in 0 .. Len(s) - 1, NEW a \in Nat, Follows(a, m, s)
    PROVE  /\ s[m + 1].n = 0 /\ a > 0 => Follows(a, m + 1, s)
           /\ a <= s[m + 1].n => Follows(s[m + 1].n + 1, m + 1, s)
<1> DEFINE b == s[m + 1].n
<1>1. \A j \in 1 .. m + 1 : s[j].n \in Nat
  BY BlockNumber
<1>2. m \in Nat /\ m + 1 \in 1 .. m + 1 /\ b \in Nat
  BY <1>1
<1>3. \A j \in 1 .. m : j \in 1 .. m + 1
  BY <1>2
<1>4. \A j \in 1 .. m + 1 : j \in 1 .. m \/ j = m + 1
  BY <1>2
<1>5. /\ \A j \in 1 .. m : s[j].n < a
      /\ a = 1 \/ \E j \in 1 .. m : a = s[j].n + 1
  BY DEF Follows
<1>6. ASSUME b = 0, a > 0 PROVE Follows(a, m + 1, s)
  <2>1. \A j \in 1 .. m + 1 : s[j].n < a
    BY <1>4, <1>5, <1>6
  <2>2. a = 1 \/ \E j \in 1 .. m + 1 : a = s[j].n + 1
    BY <1>3, <1>5
  <2> QED
    BY <2>1, <2>2 DEF Follows
<1>7. ASSUME a <= b PROVE Follows(b + 1, m + 1, s)
  <2>1. ASSUME NEW j \in 1 .. m + 1 PROVE s[j].n < b + 1
    <3>1. CASE j \in 1 .. m
      <4>1. s[j].n < a /\ s[j].n \in Nat
        BY <1>1, <1>5, <3>1, <2>1
      <4> HIDE DEF b
      <4> QED
        BY <1>2, <1>7, <4>1
    <3>2. CASE j = m + 1
      <4>1. s[j].n = b
        BY <3>2
      <4> HIDE DEF b
      <4> QED
        BY <1>2, <4>1
    <3> QED
      BY <1>4, <3>1, <3>2
  <2>2. \E j \in 1 .. m + 1 : b + 1 = s[j].n + 1
    BY <1>2
  <2> QED
    BY <2>1, <2>2 DEF Follows
<1> QED
  BY <1>6, <1>7

-----------------------------------------------------------------------------
(* WriteFrame of the SPDY framer                                           *)

Sent == [torn: {FALSE}, frame: F!Frame, payload: Seq(F!Block)]
Busy == [busy: {TRUE}, frame: F!Frame, n: Nat]

\* A new frame: if it has headers, their block goes to the end of headerBuf.
LEMMA MarshalKeeps ==
    ASSUME FramerInv, NEW t \in Writers, NEW frame \in Frames,
           \A u \in Writers : ~writing[u].busy, F!Marshal(t, frame)
    PROVE  FramerInv'
<1> DEFINE headed == frame.kind \in HeaderKinds
           n == IF headed THEN blocks + 1 ELSE 0
           w == [busy |-> TRUE, frame |-> frame, n |-> n]
<1> USE DEF FramerInv
<1>1. /\ UNCHANGED <<wire, headerReader, decoded, err, read, written, lost, torn>>
      /\ writing' = [writing EXCEPT ![t] = w]
  BY DEF F!Marshal, F!decoder, HeaderKinds
<1>2. /\ frame \in F!Frame /\ BlockSizes \subseteq Nat
      /\ blocks \in Nat /\ headerBuf \in Seq(F!Block) /\ writing \in [Writers -> {F!NotWriting} \cup Busy]
  BY FramedWriterAssumption DEF F!FramerAssumption, F!FramerTypeOK, Busy
<1>3. headed => \E b \in F!Block :
         /\ b.n = blocks + 1 /\ b.headers = frame.headers
         /\ blocks' = blocks + 1 /\ headerBuf' = Append(headerBuf, b)
  <2> SUFFICES ASSUME headed
               PROVE  \E b \in F!Block :
                  /\ b.n = blocks + 1 /\ b.headers = frame.headers
                  /\ blocks' = blocks + 1 /\ headerBuf' = Append(headerBuf, b)
    OBVIOUS
  <2>1. PICK size \in BlockSizes :
           /\ blocks' = blocks + 1
           /\ headerBuf' = Append(headerBuf, [n |-> blocks + 1, size |-> size, headers |-> frame.headers])
    BY DEF F!Marshal, HeaderKinds
  <2>2. [n |-> blocks + 1, size |-> size, headers |-> frame.headers] \in F!Block
    BY <1>2 DEF F!Block, F!Frame
  <2> QED
    BY <2>1, <2>2
<1>4. ~headed => UNCHANGED <<blocks, headerBuf>>
  BY DEF F!Marshal, HeaderKinds
<1>5. blocks' \in Nat /\ headerBuf' \in Seq(F!Block)
  <2>1. CASE headed
    BY <1>2, <1>3, <2>1
  <2>2. CASE ~headed
    BY <1>2, <1>4, <2>2
  <2> QED
    BY <2>1, <2>2
<1>6. F!FramerTypeOK'
  <2>1. w \in Busy
    BY <1>2 DEF Busy
  <2>2. writing' \in [Writers -> {F!NotWriting} \cup Busy]
    BY <1>1, <1>2, <2>1
  <2> QED
    BY <1>1, <1>5, <2>2 DEF F!FramerTypeOK, Busy
<1>7. writing'[t] = w /\ \A u \in Writers : u # t => ~writing'[u].busy
  BY <1>1, <1>2
<1>8. BusyInv'
  <2>1. headed => /\ n = blocks' /\ headerBuf' # <<>>
                  /\ headerBuf'[Len(headerBuf')].headers = frame.headers
    <3> SUFFICES ASSUME headed
                 PROVE  /\ n = blocks' /\ headerBuf' # <<>>
                        /\ headerBuf'[Len(headerBuf')].headers = frame.headers
      OBVIOUS
    <3>1. PICK b \in F!Block :
             b.headers = frame.headers /\ blocks' = blocks + 1 /\ headerBuf' = Append(headerBuf, b)
      BY <1>3
    <3> QED
      BY <1>2, <3>1
  <2> QED
    BY <1>7, <2>1 DEF BusyInv
<1>9. BufferInv'
  <2>1. CASE ~headed
    BY <1>1, <1>4, <2>1 DEF BufferInv
  <2>2. CASE headed /\ ~torn
    <3>1. PICK b \in F!Block : headerBuf' = Append(headerBuf, b) /\ b.n = blocks + 1 /\ blocks' = blocks + 1
      BY <1>3, <2>2
    <3>2. headerBuf'[Len(headerBuf')].n = blocks' /\ headerBuf' # <<>>
      BY <1>2, <3>1
    <3>3. \A j \in 1 .. Len(headerBuf') - 1 : headerBuf'[j].n \in lost
      <4>1. \A j \in 1 .. Len(headerBuf) : headerBuf[j].n \in lost
        BY <1>2, <2>2 DEF BufferInv
      <4> QED
        BY <1>2, <3>1, <4>1
    <3>4. Follows(headerBuf'[1].n, Len(written), written) /\ headerBuf'[1].n <= blocks'
      <4>1. CASE headerBuf = <<>>
        BY <1>2, <2>2, <3>1, <4>1 DEF BufferInv
      <4>2. CASE headerBuf # <<>>
        <5>1. headerBuf'[1] = headerBuf[1] /\ headerBuf[1] \in F!Block
          BY <1>2, <3>1, <4>2
        <5> QED
          BY <1>2, <2>2, <3>1, <4>2, <5>1 DEF BufferInv, F!Block
      <4> QED
        BY <4>1, <4>2
    <3>5. writing'[t].busy /\ writing'[t].frame.kind \in HeaderKinds
      BY <1>7, <2>2
    <3> QED
      BY <1>1, <3>2, <3>3, <3>4, <3>5 DEF BufferInv
  <2> QED
    BY <1>1, <2>1, <2>2 DEF BufferInv
<1>10. WireInv' /\ ReadInv' /\ TornInv'
  BY <1>1 DEF WireInv, Carries, ReadInv, TornInv, F!Wrong
<1>11. FramesIntact' /\ ContextsAgree'
  BY <1>1 DEF FramesIntact, ContextsAgree, F!FramesIntact, F!ContextsAgree, F!Wrong
<1> QED
  BY <1>6, <1>8, <1>9, <1>10, <1>11

\* A frame that is written joins the wire with all of headerBuf.
LEMMA EmitKeeps ==
    ASSUME FramerInv, NEW t \in Writers,
           \A u \in Writers : writing[u].busy => u = t, F!Emit(t)
    PROVE  FramerInv'
<1> DEFINE frame == writing[t].frame
           rec == [frame |-> frame, n |-> writing[t].n]
           sent == [torn |-> FALSE, frame |-> frame, payload |-> F!Payload(frame)]
<1> USE DEF FramerInv
<1>1. /\ UNCHANGED <<blocks, headerReader, decoded, err, read, lost, torn>>
      /\ writing[t].busy /\ writing' = [writing EXCEPT ![t] = F!NotWriting]
      /\ wire' = Append(wire, sent) /\ written' = Append(written, rec)
      /\ headerBuf' = F!Emptied(frame)
  BY DEF F!Emit, F!decoder
<1>2. /\ blocks \in Nat /\ headerBuf \in Seq(F!Block) /\ writing \in [Writers -> {F!NotWriting} \cup Busy]
      /\ wire \in Seq({F!Torn} \cup Sent)
      /\ written \in Seq(Record) /\ read \in Seq(Record) /\ decoded \in Nat
  BY DEF F!FramerTypeOK, Busy, Record, Sent
<1>3. writing[t] \in Busy /\ frame \in F!Frame /\ rec \in Record
  <2>1. writing[t] \in Busy
    BY <1>1, <1>2 DEF F!NotWriting
  <2> QED
    BY <2>1 DEF Busy, Record
<1>4. F!Payload(frame) \in Seq(F!Block) /\ headerBuf' \in Seq(F!Block)
  BY <1>1, <1>2 DEF F!Payload, F!Emptied
<1>5. \A u \in Writers : ~writing'[u].busy
  BY <1>1, <1>2 DEF F!NotWriting
<1>6. F!FramerTypeOK'
  <2>1. sent \in Sent
    BY <1>3, <1>4 DEF Sent
  <2>2. wire' \in Seq({F!Torn} \cup Sent)
    BY <1>1, <1>2, <2>1
  <2>3. written' \in Seq(Record) /\ writing' \in [Writers -> {F!NotWriting} \cup Busy]
    BY <1>1, <1>2, <1>3
  <2> QED
    BY <1>1, <1>4, <2>2, <2>3 DEF F!FramerTypeOK, Busy, Record, Sent
<1>7. Len(read) \in 0 .. Len(written) /\ Len(written') = Len(written) + 1
  BY <1>1, <1>2, <1>3 DEF FramesIntact, F!FramesIntact
<1>8. /\ \A j \in 1 .. Len(written) : written'[j] = written[j]
      /\ written'[Len(written) + 1] = rec
      /\ \A m \in 0 .. Len(written), a \in Nat : Follows(a, m, written) => Follows(a, m, written')
  BY <1>1, <1>2, <1>3, FollowsStays
<1>9. /\ Len(wire') = Len(wire) + 1
      /\ \A j \in 1 .. Len(wire) : wire'[j] = wire[j]
      /\ wire'[Len(wire) + 1] = sent
  BY <1>1, <1>2
<1>10. TornInv'
  <2> SUFFICES ASSUME err = "none", \A j \in 1 .. Len(wire') : ~wire'[j].torn
               PROVE  ~torn /\ Len(written') = Len(read) + Len(wire')
    BY <1>1 DEF TornInv
  <2>1. Len(wire) \in Nat
    BY <1>2
  <2>2. \A j \in 1 .. Len(wire) : ~wire[j].torn
    <3>1. \A j \in 1 .. Len(wire) : j \in 1 .. Len(wire')
      BY <1>9, <2>1
    <3> QED
      BY <1>9, <3>1
  <2>3. ~torn /\ Len(written) = Len(read) + Len(wire)
    BY <2>2 DEF TornInv
  <2> QED
    BY <1>2, <1>7, <1>9, <2>3
<1>11. ~torn => Carries(F!Payload(frame), Len(written) + 1, written', lost)
  <2> SUFFICES ASSUME ~torn PROVE Carries(F!Payload(frame), Len(written) + 1, written', lost)
    OBVIOUS
  <2>1. CASE frame.kind \in HeaderKinds
    <3>0. headerBuf[Len(headerBuf)].headers = rec.frame.headers
      BY <1>1, <2>1 DEF BusyInv
    <3>1. rec.n = blocks /\ headerBuf # <<>>
      BY <1>1, <2>1 DEF BusyInv
    <3>2. headerBuf[1] \in F!Block
      BY <1>2, <3>1
    <3>3. Follows(headerBuf[1].n, Len(written), written')
      BY <1>2, <1>8, <3>1, <3>2 DEF BufferInv, F!Block
    <3>4. /\ headerBuf[Len(headerBuf)].n = blocks /\ headerBuf[1].n <= blocks
          /\ \A j \in 1 .. Len(headerBuf) - 1 : headerBuf[j].n \in lost
      BY <3>1 DEF BufferInv
    <3>5. F!Payload(frame) = headerBuf
      BY <2>1 DEF F!Payload, HeaderKinds
    <3>6. written'[Len(written) + 1] = rec /\ Len(written) + 1 - 1 = Len(written)
      BY <1>2, <1>8
    <3> HIDE DEF rec
    <3>7. rec.frame.kind \in HeaderKinds
      BY <2>1 DEF rec
    <3> QED
      BY ONLY <3>0, <3>1, <3>3, <3>4, <3>5, <3>6, <3>7 DEF Carries
  <2>2. CASE frame.kind \notin HeaderKinds
    BY <1>1, <1>8, <2>2 DEF BusyInv, Carries
  <2> QED
    BY <2>1, <2>2
<1>12. WireInv'
  <2> SUFFICES ASSUME err = "none", NEW k \in 1 .. Len(wire'), \A j \in 1 .. k : ~wire'[j].torn
               PROVE  /\ Len(read) + k <= Len(written')
                      /\ wire'[k].frame = written'[Len(read) + k].frame
                      /\ Carries(wire'[k].payload, Len(read) + k, written', lost)
    BY <1>1 DEF WireInv
  <2>1. CASE k \in 1 .. Len(wire)
    <3>1. \A j \in 1 .. k : ~wire[j].torn
      BY <1>9, <2>1
    <3>2. /\ Len(read) + k <= Len(written)
          /\ wire[k].frame = written[Len(read) + k].frame
          /\ Carries(wire[k].payload, Len(read) + k, written, lost)
      BY <2>1, <3>1 DEF WireInv
    <3> DEFINE i == Len(read) + k
    <3>3. i \in 1 .. Len(written) /\ written'[i] = written[i] /\ i - 1 \in 0 .. Len(written)
      BY <1>2, <1>8, <2>1, <3>2
    <3>4. Carries(wire[k].payload, i, written', lost)
      <4>1. CASE written[i].frame.kind \notin HeaderKinds
        BY <3>2, <3>3, <4>1 DEF Carries
      <4>2. CASE written[i].frame.kind \in HeaderKinds
        <5>1. wire[k].payload \in Seq(F!Block)
          <6>1. wire[k] \in {F!Torn} \cup Sent
            BY <1>2, <2>1
          <6>2. wire[k] # F!Torn
            BY <2>1, <3>1 DEF F!Torn
          <6> QED
            BY <6>1, <6>2 DEF Sent
        <5>2. wire[k].payload # <<>>
          BY <3>2, <4>2 DEF Carries
        <5>3. wire[k].payload[1] \in F!Block
          BY <5>1, <5>2
        <5>4. Follows(wire[k].payload[1].n, i - 1, written')
          BY <1>8, <3>2, <3>3, <4>2, <5>3 DEF Carries, F!Block
        <5> QED
          BY <3>2, <3>3, <4>2, <5>4 DEF Carries
      <4> QED
        BY <4>1, <4>2
    <3> QED
      BY <1>7, <1>9, <2>1, <3>2, <3>3, <3>4
  <2>2. CASE k = Len(wire) + 1
    <3>1. \A j \in 1 .. Len(wire) : ~wire[j].torn
      <4>1. \A j \in 1 .. Len(wire) : j \in 1 .. k
        BY <1>2, <2>2
      <4> QED
        BY <1>9, <4>1
    <3>2. ~torn /\ Len(written) = Len(read) + Len(wire)
      BY <3>1 DEF TornInv
    <3>3. Len(read) + k = Len(written) + 1
      BY <1>2, <2>2, <3>2
    <3> QED
      BY <1>7, <1>8, <1>9, <1>11, <2>2, <3>2, <3>3
  <2> QED
    BY <1>2, <1>9, <2>1, <2>2
<1>13. BufferInv'
  <2> SUFFICES ASSUME ~torn PROVE BufferInv'
    BY <1>1 DEF BufferInv
  <2>1. CASE frame.kind \in HeaderKinds
    <3>1. rec.n = blocks /\ headerBuf # <<>>
      BY <1>1, <2>1 DEF BusyInv
    <3>2. headerBuf[1].n \in Nat
      <4>1. headerBuf[1] \in F!Block
        BY <1>2, <3>1
      <4> QED
        BY <4>1 DEF F!Block
    <3>3. Follows(headerBuf[1].n, Len(written), written') /\ headerBuf[1].n <= blocks
      BY <1>8, <3>1, <3>2, <1>7 DEF BufferInv
    <3>4. written' \in Seq(Record) /\ Len(written) \in 0 .. Len(written') - 1
      BY <1>1, <1>2, <1>3, <1>7
    <3>5. Follows(blocks + 1, Len(written'), written')
      BY <1>7, <1>8, <3>1, <3>2, <3>3, <3>4, FollowsNext
    <3>6. headerBuf' = <<>>
      BY <1>1, <2>1 DEF F!Emptied, HeaderKinds
    <3> QED
      BY <1>1, <3>5, <3>6 DEF BufferInv
  <2>2. CASE frame.kind \notin HeaderKinds
    <3>1. headerBuf' = headerBuf /\ rec.n = 0
      BY <1>1, <2>2 DEF F!Emptied, HeaderKinds, BusyInv
    <3>2. written' \in Seq(Record) /\ Len(written) \in 0 .. Len(written') - 1
      BY <1>1, <1>2, <1>3, <1>7
    <3>3. \A a \in Nat : Follows(a, Len(written), written) => Follows(a, Len(written'), written')
      <4> SUFFICES ASSUME NEW a \in Nat, Follows(a, Len(written), written)
                   PROVE  Follows(a, Len(written'), written')
        OBVIOUS
      <4>1. a > 0
        BY <1>2, FollowsPositive
      <4>2. Follows(a, Len(written), written')
        BY <1>2, <1>8
      <4> QED
        BY <1>7, <1>8, <3>1, <3>2, <4>1, <4>2, FollowsNext
    <3>4. headerBuf # <<>> => headerBuf[1].n \in Nat
      <4> SUFFICES ASSUME headerBuf # <<>> PROVE headerBuf[1].n \in Nat
        OBVIOUS
      <4>1. headerBuf[1] \in F!Block
        BY <1>2
      <4> QED
        BY <4>1 DEF F!Block
    <3>5. headerBuf # <<>> => blocks \in lost
      BY <1>1, <2>2 DEF BufferInv
    <3>6. blocks + 1 \in Nat
      BY <1>2
    <3> QED
      BY <1>1, <3>1, <3>3, <3>4, <3>5, <3>6 DEF BufferInv
  <2> QED
    BY <2>1, <2>2
<1>14. F!Wrong' = F!Wrong
  BY <1>1, <1>7, <1>8 DEF F!Wrong
<1>15. ReadInv'
  BY <1>1, <1>2, <1>7, <1>8, <1>14 DEF ReadInv
<1>16. FramesIntact' /\ ContextsAgree'
  <2>1. ContextsAgree'
    <3>1. Len(read) < Len(written) =>
             Len(read) < Len(written') /\ written'[Len(read) + 1] = written[Len(read) + 1]
      <4> SUFFICES ASSUME Len(read) < Len(written)
                   PROVE  Len(read) < Len(written') /\ written'[Len(read) + 1] = written[Len(read) + 1]
        OBVIOUS
      <4>1. Len(read) + 1 \in 1 .. Len(written) /\ Len(written) \in Nat
        BY <1>2, <1>7
      <4> QED
        BY <1>7, <1>8, <4>1
    <3>2. CASE err = "WrongCompressedPayloadSize" /\ lost = {}
      BY <1>1, <3>1, <3>2 DEF ContextsAgree, F!ContextsAgree, F!OverLimit
    <3>3. CASE err # "WrongCompressedPayloadSize" \/ lost # {}
      BY <1>1, <3>3 DEF ContextsAgree, F!ContextsAgree
    <3> QED
      BY <3>2, <3>3
  <2>2. Len(read) <= Len(written') /\ \A i \in 1 .. Len(read) : read[i].frame = written'[i].frame
    BY <1>7, <1>8 DEF FramesIntact, F!FramesIntact
  <2>3. \A i \in F!Wrong :
           /\ read[i].n \in lost
           /\ \A j \in i + 1 .. Len(read) : read[j].frame.kind \notin F!HeaderKinds
    BY DEF FramesIntact, F!FramesIntact
  <2> QED
    BY <1>1, <1>14, <2>1, <2>2, <2>3 DEF FramesIntact, F!FramesIntact
<1>17. BusyInv'
  BY <1>5 DEF BusyInv
<1> QED
  BY <1>6, <1>10, <1>12, <1>13, <1>15, <1>16, <1>17

\* A frame that is not written leaves its block in headerBuf, as lost.
LEMMA EmitFailsKeeps ==
    ASSUME FramerInv, NEW t \in Writers,
           \A u \in Writers : writing[u].busy => u = t, F!EmitFails(t)
    PROVE  FramerInv'
<1> USE DEF FramerInv
<1>1. /\ UNCHANGED <<headerBuf, blocks, wire, headerReader, decoded, err, read, written, torn>>
      /\ writing[t].busy /\ writing' = [writing EXCEPT ![t] = F!NotWriting]
      /\ lost' = IF writing[t].frame.kind \in HeaderKinds THEN lost \cup {writing[t].n} ELSE lost
  BY DEF F!EmitFails, F!decoder, HeaderKinds
<1>2. writing \in [Writers -> {F!NotWriting} \cup Busy] /\ lost \subseteq Nat
  BY DEF F!FramerTypeOK, Busy
<1>3. writing[t].n \in Nat
  <2>1. writing[t] \in Busy
    BY <1>1, <1>2 DEF F!NotWriting
  <2> QED
    BY <2>1 DEF Busy
<1>4. \A u \in Writers : ~writing'[u].busy
  BY <1>1, <1>2 DEF F!NotWriting
<1>5. lost \subseteq lost' /\ lost' \subseteq Nat
  BY <1>1, <1>2, <1>3
<1>6. F!FramerTypeOK'
  <2>1. writing' \in [Writers -> {F!NotWriting} \cup Busy]
    BY <1>1, <1>2
  <2> QED
    BY <1>1, <1>5, <2>1 DEF F!FramerTypeOK, Busy
<1>7. WireInv' /\ TornInv'
  BY <1>1, <1>5 DEF WireInv, Carries, TornInv
<1>8. BufferInv'
  <2>1. headerBuf # <<>> /\ ~torn => blocks \in lost'
    BY <1>1, <1>5 DEF BufferInv, BusyInv
  <2> QED
    BY <1>1, <1>5, <2>1 DEF BufferInv
<1>9. BusyInv'
  BY <1>4 DEF BusyInv
<1>10. ReadInv' /\ FramesIntact' /\ ContextsAgree'
  BY <1>1, <1>5 DEF ReadInv, FramesIntact, ContextsAgree, F!FramesIntact, F!ContextsAgree, F!Wrong
<1> QED
  BY <1>6, <1>7, <1>8, <1>9, <1>10

\* Nothing is read after a frame that is torn.
LEMMA EmitTornKeeps ==
    ASSUME FramerInv, NEW t \in Writers,
           \A u \in Writers : writing[u].busy => u = t, F!EmitTorn(t)
    PROVE  FramerInv'
<1> USE DEF FramerInv
<1>1. /\ UNCHANGED <<headerBuf, blocks, headerReader, decoded, err, read, written, lost>>
      /\ writing[t].busy /\ writing' = [writing EXCEPT ![t] = F!NotWriting]
      /\ wire' = Append(wire, F!Torn) /\ torn'
  BY DEF F!EmitTorn, F!decoder
<1>2. /\ writing \in [Writers -> {F!NotWriting} \cup Busy]
      /\ wire \in Seq({F!Torn} \cup Sent)
  BY DEF F!FramerTypeOK, Busy, Sent
<1>3. \A u \in Writers : ~writing'[u].busy
  BY <1>1, <1>2 DEF F!NotWriting
<1>4. /\ Len(wire') = Len(wire) + 1 /\ Len(wire) \in Nat
      /\ \A j \in 1 .. Len(wire) : wire'[j] = wire[j]
      /\ wire'[Len(wire) + 1].torn
  BY <1>1, <1>2 DEF F!Torn
<1>5. F!FramerTypeOK'
  <2>1. writing' \in [Writers -> {F!NotWriting} \cup Busy] /\ wire' \in Seq({F!Torn} \cup Sent)
    BY <1>1, <1>2
  <2>2. torn' \in BOOLEAN
    BY DEF F!EmitTorn
  <2> QED
    BY <1>1, <2>1, <2>2 DEF F!FramerTypeOK, Busy, Sent
<1>6. WireInv'
  <2> SUFFICES ASSUME err = "none", NEW k \in 1 .. Len(wire'), \A j \in 1 .. k : ~wire'[j].torn
               PROVE  /\ Len(read) + k <= Len(written)
                      /\ wire'[k].frame = written[Len(read) + k].frame
                      /\ Carries(wire'[k].payload, Len(read) + k, written, lost)
    BY <1>1 DEF WireInv
  <2>1. k \in 1 .. Len(wire)
    BY <1>4
  <2>2. \A j \in 1 .. k : ~wire[j].torn
    BY <1>4, <2>1
  <2> QED
    BY <1>4, <2>1, <2>2 DEF WireInv
<1>7. TornInv'
  <2>1. Len(wire) + 1 \in 1 .. Len(wire')
    BY <1>4
  <2> QED
    BY <1>4, <2>1 DEF TornInv
<1>8. BufferInv' /\ BusyInv'
  BY <1>1, <1>3 DEF BufferInv, BusyInv
<1>9. ReadInv' /\ FramesIntact' /\ ContextsAgree'
  BY <1>1 DEF ReadInv, FramesIntact, ContextsAgree, F!FramesIntact, F!ContextsAgree, F!Wrong
<1> QED
  BY <1>5, <1>6, <1>7, <1>8, <1>9

-----------------------------------------------------------------------------
(* ReadFrame of the other end                                              *)

\* Intervals that grow by one.
LEMMA OneMore ==
    ASSUME NEW n \in Nat, NEW k \in 1 .. n, NEW j \in k + 1 .. n + 1
    PROVE  (j \in k + 1 .. n /\ j \in 1 .. n) \/ j = n + 1
OBVIOUS

\* The first of several blocks is not the last one.
LEMMA MoreThanOne ==
    ASSUME NEW n \in Nat \ {0}, n # 1
    PROVE  1 \in 1 .. n - 1
OBVIOUS

\* What is left of a payload when its first block is taken.
LEMMA TailOf ==
    ASSUME NEW S, NEW s \in Seq(S), s # <<>>
    PROVE  Tail(s) \in Seq(S) /\ (Tail(s) = <<>> <=> Len(s) = 1)
<1>1. Tail(s) \in Seq(S) /\ Len(Tail(s)) = Len(s) - 1 /\ Len(s) \in Nat
  OBVIOUS
<1>2. \A e \in Seq(S) : e = <<>> <=> Len(e) = 0
  OBVIOUS
<1>3. Tail(s) = <<>> <=> Len(Tail(s)) = 0
  BY ONLY <1>1, <1>2
<1> QED
  BY ONLY <1>1, <1>3

\* Of two blocks one is not the only one.
LEMMA NotOne ==
    ASSUME NEW n \in Nat, n > 1
    PROVE  n # 1
OBVIOUS

\* The head of the wire, untorn, is the next frame.
LEMMA NextFrame ==
    ASSUME FramerInv, err = "none", wire # <<>>, ~Head(wire).torn
    PROVE  /\ Head(wire) \in Sent
           /\ Len(read) + 1 \in 1 .. Len(written)
           /\ Head(wire).frame = written[Len(read) + 1].frame
           /\ Carries(Head(wire).payload, Len(read) + 1, written, lost)
<1> USE DEF FramerInv
<1>1. /\ wire \in Seq({F!Torn} \cup Sent)
      /\ read \in Seq(Record) /\ written \in Seq(Record)
  BY DEF F!FramerTypeOK, Sent, Record
<1>2. 1 \in 1 .. Len(wire) /\ wire[1] = Head(wire)
  BY <1>1
<1>3. \A j \in 1 .. 1 : ~wire[j].torn
  BY <1>2
<1>4. wire[1] \in {F!Torn} \cup Sent
  BY <1>1, <1>2
<1> QED
  BY <1>1, <1>2, <1>3, <1>4 DEF WireInv, F!Torn

\* The next frame is over a limit.
Refused == Len(read) < Len(written) /\ F!OverLimit(written[Len(read) + 1].frame.headers)

\* An error ends the read loop: nothing is asked of what follows.
LEMMA ReadFailsKeeps ==
    ASSUME FramerInv, wire' = Tail(wire), wire # <<>>, UNCHANGED F!encoder, UNCHANGED <<read>>,
           err' \in F!Errors \ {"none", "corrupt"},
           err' = "WrongCompressedPayloadSize" => lost # {} \/ Refused,
           headerReader' \in Seq(F!Block), decoded' \in Nat,
           headerReader' = headerReader \/ (headerReader = <<>> /\ (headerReader' # <<>> => lost # {}))
    PROVE  FramerInv'
<1> USE DEF FramerInv, F!encoder
<1>1. wire \in Seq({F!Torn} \cup Sent)
  BY DEF F!FramerTypeOK, Sent
<1>2. wire' \in Seq({F!Torn} \cup Sent)
  BY <1>1
<1>3. F!FramerTypeOK'
  BY <1>2 DEF F!FramerTypeOK, Sent
<1>4. WireInv' /\ TornInv'
  BY DEF WireInv, TornInv
<1>5. BufferInv' /\ BusyInv'
  BY DEF BufferInv, BusyInv
<1>6. ReadInv'
  BY DEF ReadInv, F!Wrong
<1>7. FramesIntact'
  BY DEF FramesIntact, F!FramesIntact, F!Wrong
<1>8. ContextsAgree'
  BY DEF ContextsAgree, F!ContextsAgree, Refused
<1> QED
  BY <1>3, <1>4, <1>5, <1>6, <1>7, <1>8

\* A frame is returned: the wire moves on.
LEMMA ReturnsKeepsWire ==
    ASSUME FramerInv, err = "none", wire # <<>>, ~Head(wire).torn,
           wire' = Tail(wire), UNCHANGED F!encoder, UNCHANGED err,
           NEW r \in Record, read' = Append(read, r)
    PROVE  WireInv' /\ TornInv'
<1> USE DEF FramerInv, F!encoder
<1>1. wire \in Seq({F!Torn} \cup Sent) /\ read \in Seq(Record) /\ written \in Seq(Record)
  BY DEF F!FramerTypeOK, Sent, Record
<1>2. /\ Len(wire) \in Nat \ {0} /\ Len(wire') = Len(wire) - 1 /\ ~wire[1].torn
      /\ \A j \in 1 .. Len(wire') : wire'[j] = wire[j + 1]
      /\ Len(read) \in Nat /\ Len(read') = Len(read) + 1
  BY <1>1
<1>3. ASSUME NEW k \in 1 .. Len(wire'), \A j \in 1 .. k : ~wire'[j].torn
      PROVE  k + 1 \in 1 .. Len(wire) /\ \A j \in 1 .. k + 1 : ~wire[j].torn
  <2>1. k + 1 \in 1 .. Len(wire)
    BY <1>2
  <2>2. ASSUME NEW j \in 1 .. k + 1 PROVE ~wire[j].torn
    <3>1. CASE j = 1
      BY <1>2, <3>1
    <3>2. CASE j # 1
      <4>1. j - 1 \in 1 .. k /\ j - 1 \in 1 .. Len(wire') /\ j - 1 + 1 = j
        BY <3>2
      <4>2. wire'[j - 1] = wire[j]
        BY <1>2, <4>1
      <4> QED
        BY <1>3, <4>1, <4>2
    <3> QED
      BY <3>1, <3>2
  <2> QED
    BY <2>1, <2>2
<1>4. WireInv'
  <2> SUFFICES ASSUME NEW k \in 1 .. Len(wire'), \A j \in 1 .. k : ~wire'[j].torn
               PROVE  /\ Len(read') + k <= Len(written)
                      /\ wire'[k].frame = written[Len(read') + k].frame
                      /\ Carries(wire'[k].payload, Len(read') + k, written, lost)
    BY DEF WireInv
  <2>1. k + 1 \in 1 .. Len(wire) /\ \A j \in 1 .. k + 1 : ~wire[j].torn
    BY <1>3
  <2>2. /\ Len(read) + (k + 1) <= Len(written)
        /\ wire[k + 1].frame = written[Len(read) + (k + 1)].frame
        /\ Carries(wire[k + 1].payload, Len(read) + (k + 1), written, lost)
    BY <2>1 DEF WireInv
  <2>3. Len(read') + k = Len(read) + (k + 1) /\ wire'[k] = wire[k + 1]
    BY <1>2
  <2> QED
    BY <2>2, <2>3
<1>5. TornInv'
  <2> SUFFICES ASSUME \A j \in 1 .. Len(wire') : ~wire'[j].torn
               PROVE  ~torn /\ Len(written) = Len(read') + Len(wire')
    BY DEF TornInv
  <2>1. ASSUME NEW j \in 1 .. Len(wire) PROVE ~wire[j].torn
    <3>1. CASE j = 1
      BY <1>2, <3>1
    <3>2. CASE j # 1
      <4>1. j - 1 \in 1 .. Len(wire') /\ j - 1 + 1 = j
        BY <1>2, <3>2
      <4> QED
        BY <1>2, <4>1
    <3> QED
      BY <3>1, <3>2
  <2>2. ~torn /\ Len(written) = Len(read) + Len(wire)
    BY <2>1 DEF TornInv
  <2> QED
    BY <1>2, <2>2
<1> QED
  BY <1>4, <1>5

\* A frame without headers is returned as it was written.
LEMMA PlainReturned ==
    ASSUME FramerInv, err = "none", wire # <<>>, ~Head(wire).torn,
           Head(wire).frame.kind \notin HeaderKinds,
           wire' = Tail(wire), UNCHANGED F!encoder, UNCHANGED <<headerReader, decoded, err>>,
           read' = Append(read, [frame |-> Head(wire).frame, n |-> 0])
    PROVE  FramerInv'
<1> DEFINE i == Len(read) + 1
           r == [frame |-> Head(wire).frame, n |-> 0]
<1> USE DEF FramerInv
<1>1. /\ wire \in Seq({F!Torn} \cup Sent) /\ read \in Seq(Record) /\ written \in Seq(Record)
      /\ decoded \in Nat
  BY DEF F!FramerTypeOK, Sent, Record
<1>2. /\ r \in Record /\ i \in 1 .. Len(written)
      /\ r.frame = written[i].frame /\ written[i].n = 0
  BY NextFrame DEF Carries, Sent, Record
<1>3. UNCHANGED <<headerBuf, blocks, writing, written, lost, torn>>
  BY DEF F!encoder
<1>4. /\ Len(read') = i /\ read'[i] = r /\ \A j \in 1 .. Len(read) : read'[j] = read[j]
      /\ wire' \in Seq({F!Torn} \cup Sent) /\ read' \in Seq(Record)
  BY <1>1, <1>2
<1>5. F!FramerTypeOK'
  BY <1>3, <1>4 DEF F!FramerTypeOK, Sent, Record
<1>6. WireInv' /\ TornInv'
  BY <1>2, ReturnsKeepsWire
<1>7. BufferInv' /\ BusyInv'
  BY <1>3 DEF BufferInv, BusyInv
<1>8. F!Wrong' = F!Wrong
  <2>1. \A j \in 1 .. Len(read') : j \in 1 .. Len(read) \/ j = i
    BY <1>1, <1>4
  <2>2. \A j \in 1 .. Len(read) : j \in 1 .. Len(read') /\ j # i
    BY <1>1, <1>4
  <2> QED
    BY <1>2, <1>3, <1>4, <2>1, <2>2 DEF F!Wrong
<1>9. ReadInv'
  <2>1. headerReader = <<>> => Follows(decoded + 1, i, written)
    <3> SUFFICES ASSUME headerReader = <<>> PROVE Follows(decoded + 1, i, written)
      OBVIOUS
    <3>1. Follows(decoded + 1, Len(read), written) /\ Len(read) \in 0 .. Len(written) - 1
      BY <1>1, <1>2 DEF ReadInv
    <3> QED
      BY <1>1, <1>2, <3>1, FollowsNext
  <2> QED
    BY <1>3, <1>4, <1>8, <2>1 DEF ReadInv
<1>10. FramesIntact'
  <2>1. \A j \in 1 .. Len(read') : j \in 1 .. Len(read) \/ j = i
    BY <1>1, <1>4
  <2>2. Len(read') <= Len(written) /\ \A j \in 1 .. Len(read') : read'[j].frame = written[j].frame
    BY <1>2, <1>4, <2>1 DEF FramesIntact, F!FramesIntact
  <2>3. ASSUME NEW k \in F!Wrong
        PROVE  /\ read'[k].n \in lost
               /\ \A j \in k + 1 .. Len(read') : read'[j].frame.kind \notin F!HeaderKinds
    <3>1. k \in 1 .. Len(read)
      BY DEF F!Wrong
    <3>2. /\ read[k].n \in lost
          /\ \A j \in k + 1 .. Len(read) : read[j].frame.kind \notin F!HeaderKinds
      BY DEF FramesIntact, F!FramesIntact
    <3>3. \A j \in k + 1 .. Len(read') : (j \in k + 1 .. Len(read) /\ j \in 1 .. Len(read)) \/ j = i
      <4>1. Len(read) \in Nat
        BY <1>1
      <4> QED
        BY <1>4, <3>1, <4>1, OneMore
    <3> QED
      BY <1>4, <3>1, <3>2, <3>3 DEF HeaderKinds
  <2> QED
    BY <1>3, <1>8, <2>2, <2>3 DEF FramesIntact, F!FramesIntact
<1>11. ContextsAgree'
  BY DEF ContextsAgree, F!ContextsAgree
<1> QED
  BY <1>5, <1>6, <1>7, <1>9, <1>10, <1>11

\* The block decoded is the next one, and the frame's own unless one was lost.
LEMMA NextBlock ==
    ASSUME FramerInv, err = "none", wire # <<>>, ~Head(wire).torn,
           Head(wire).frame.kind \in HeaderKinds, headerReader = <<>>
    PROVE  /\ Head(wire).payload \in Seq(F!Block) /\ Head(wire).payload # <<>>
           /\ Head(Head(wire).payload) \in F!Block
           /\ Head(Head(wire).payload).n = decoded + 1
           /\ IF Len(Head(wire).payload) = 1
              THEN /\ decoded + 1 = written[Len(read) + 1].n
                   /\ Head(Head(wire).payload).headers = Head(wire).frame.headers
              ELSE decoded + 1 \in lost
<1> DEFINE p == Head(wire).payload
           i == Len(read) + 1
<1> USE DEF FramerInv
<1>1. read \in Seq(Record) /\ written \in Seq(Record) /\ decoded \in Nat
  BY DEF F!FramerTypeOK, Record
<1>2. /\ Head(wire) \in Sent /\ i \in 1 .. Len(written)
      /\ Head(wire).frame = written[i].frame /\ Carries(p, i, written, lost)
  BY NextFrame
<1>3. p \in Seq(F!Block)
  BY <1>2 DEF Sent
<1>4. /\ p # <<>> /\ p[Len(p)].n = written[i].n
      /\ p[Len(p)].headers = Head(wire).frame.headers
      /\ \A j \in 1 .. Len(p) - 1 : p[j].n \in lost
      /\ Follows(p[1].n, i - 1, written)
  BY <1>2 DEF Carries
<1>5. Len(p) \in Nat \ {0} /\ Head(p) = p[1] /\ p[1] \in F!Block
  BY <1>3, <1>4
<1>6. p[1].n \in Nat
  BY <1>5 DEF F!Block
<1>7. Follows(decoded + 1, i - 1, written) /\ i - 1 \in 0 .. Len(written)
  BY <1>1, <1>2 DEF ReadInv
<1>8. p[1].n = decoded + 1
  <2>1. decoded + 1 \in Nat
    BY <1>1
  <2> QED
    BY <1>1, <1>4, <1>6, <1>7, <2>1, FollowsOnce
<1>9. Len(p) # 1 => 1 \in 1 .. Len(p) - 1
  BY <1>5, MoreThanOne
<1> QED
  BY <1>3, <1>4, <1>5, <1>8, <1>9

\* A frame with headers is returned with the block that was decoded.
LEMMA HeadersReturned ==
    ASSUME FramerInv, err = "none", wire # <<>>, ~Head(wire).torn,
           Head(wire).frame.kind \in HeaderKinds, headerReader = <<>>,
           wire' = Tail(wire), UNCHANGED F!encoder, UNCHANGED err,
           headerReader' = Tail(Head(wire).payload), decoded' = decoded + 1,
           read' = Append(read, [frame |-> Head(wire).frame, n |-> decoded + 1])
    PROVE  FramerInv'
<1> DEFINE i == Len(read) + 1
           p == Head(wire).payload
           r == [frame |-> Head(wire).frame, n |-> decoded + 1]
<1>0. /\ p \in Seq(F!Block) /\ p # <<>>
      /\ IF Len(p) = 1 THEN decoded + 1 = written[i].n ELSE decoded + 1 \in lost
  BY NextBlock
<1>2. Head(wire) \in Sent /\ i \in 1 .. Len(written) /\ r.frame = written[i].frame
  BY NextFrame
<1> HIDE DEF p
<1> USE DEF FramerInv
<1>1. /\ wire \in Seq({F!Torn} \cup Sent) /\ read \in Seq(Record) /\ written \in Seq(Record)
      /\ decoded \in Nat
  BY DEF F!FramerTypeOK, Sent, Record
<1>5. r \in Record
  BY <1>1, <1>2 DEF Sent, Record
<1>3. UNCHANGED <<headerBuf, blocks, writing, written, lost, torn>>
  BY DEF F!encoder
<1>4. /\ Len(read') = i /\ read'[i] = r /\ \A j \in 1 .. Len(read) : read'[j] = read[j]
      /\ wire' \in Seq({F!Torn} \cup Sent) /\ read' \in Seq(Record)
  BY <1>1, <1>5
<1>6. headerReader' \in Seq(F!Block) /\ (headerReader' = <<>> <=> Len(p) = 1)
  <2>1. headerReader' = Tail(p)
    BY DEF p
  <2>2. Tail(p) \in Seq(F!Block) /\ (Tail(p) = <<>> <=> Len(p) = 1)
    BY <1>0, TailOf
  <2> QED
    BY ONLY <2>1, <2>2
<1>7. F!FramerTypeOK'
  <2>1. decoded' \in Nat
    BY <1>1
  <2>2. UNCHANGED err
    OBVIOUS
  <2> QED
    BY ONLY F!FramerTypeOK, <1>3, <1>4, <1>6, <2>1, <2>2 DEF F!FramerTypeOK, Sent, Record
<1>8. WireInv' /\ TornInv'
  BY <1>5, ReturnsKeepsWire
<1>9. BufferInv' /\ BusyInv'
  BY <1>3 DEF BufferInv, BusyInv
<1>10. F!Wrong = {}
  BY DEF ReadInv
<1>11. \A j \in F!Wrong' : j = i /\ Len(p) # 1
  <2>1. \A j \in 1 .. Len(read') : j \in 1 .. Len(read) \/ j = i
    BY <1>1, <1>4
  <2>2. \A j \in 1 .. Len(read) : read[j].n = written[j].n
    BY <1>10 DEF F!Wrong
  <2>3. \A j \in F!Wrong' : j \in 1 .. Len(read') /\ read'[j].n # written[j].n
    BY <1>3 DEF F!Wrong
  <2>4. \A j \in F!Wrong' : j = i
    BY <1>4, <2>1, <2>2, <2>3
  <2>5. i \in F!Wrong' => decoded + 1 # written[i].n
    BY <1>4, <2>3
  <2> QED
    BY <1>0, <2>4, <2>5
<1>12. ReadInv'
  <2>1. \A j \in F!Wrong' : headerReader' # <<>>
    BY <1>6, <1>11
  <2>2. headerReader' # <<>> => lost # {}
    BY <1>0, <1>6
  <2>3. headerReader' = <<>> => Follows(decoded' + 1, Len(read'), written)
    <3> SUFFICES ASSUME headerReader' = <<>> PROVE Follows(decoded + 1 + 1, i, written)
      BY <1>4
    <3>1. Follows(decoded + 1, Len(read), written) /\ Len(read) \in 0 .. Len(written) - 1
      BY <1>1, <1>2 DEF ReadInv
    <3>2. decoded + 1 = written[i].n /\ decoded + 1 \in Nat
      BY <1>0, <1>1, <1>6
    <3>3. decoded + 1 <= written[Len(read) + 1].n
      BY <3>2
    <3>4. Follows(written[Len(read) + 1].n + 1, Len(read) + 1, written)
      BY <1>1, <3>1, <3>2, <3>3, FollowsNext
    <3> QED
      BY <3>2, <3>4
  <2> QED
    BY <1>3, <2>1, <2>2, <2>3 DEF ReadInv
<1>13. FramesIntact'
  <2>1. \A j \in 1 .. Len(read') : j \in 1 .. Len(read) \/ j = i
    BY <1>1, <1>4
  <2>2. Len(read') <= Len(written) /\ \A j \in 1 .. Len(read') : read'[j].frame = written[j].frame
    BY <1>2, <1>4, <2>1 DEF FramesIntact, F!FramesIntact
  <2>3. \A k \in F!Wrong' : read'[k].n \in lost /\ k + 1 .. Len(read') = {}
    BY <1>0, <1>1, <1>4, <1>11
  <2> QED
    BY <1>3, <2>2, <2>3 DEF FramesIntact, F!FramesIntact
<1>14. ContextsAgree'
  BY DEF ContextsAgree, F!ContextsAgree
<1> QED
  BY <1>7, <1>8, <1>9, <1>12, <1>13, <1>14

\* A block is decompressed, or what was read ahead stands in its way.
LEMMA ReadHeadersKeeps ==
    ASSUME FramerInv, err = "none", wire # <<>>, ~Head(wire).torn,
           Head(wire).frame.kind \in HeaderKinds,
           wire' = Tail(wire), UNCHANGED F!encoder,
           F!ReadHeaders(Head(wire).frame, Head(wire).payload)
    PROVE  FramerInv'
<1> DEFINE frame == Head(wire).frame
           p == Head(wire).payload
<1>1. F!FramerTypeOK /\ WireInv /\ ReadInv /\ decoded \in Nat /\ headerReader \in Seq(F!Block)
  BY DEF FramerInv, F!FramerTypeOK
<1>2. CASE /\ headerReader # <<>> \/ Len(p) > 1
           /\ F!ReadFails("WrongCompressedPayloadSize")
  <2>1. lost # {}
    <3>1. CASE headerReader # <<>>
      BY <1>1, <3>1 DEF ReadInv
    <3>2. CASE headerReader = <<>>
      <4>0. p \in Seq(F!Block)
        BY <3>2, NextBlock
      <4>1. Len(p) # 1
        <5>1. Len(p) > 1
          BY ONLY <1>2, <3>2
        <5>2. Len(p) \in Nat
          BY ONLY <4>0
        <5> QED
          BY ONLY <5>1, <5>2, NotOne
      <4>2. Len(p) # 1 => decoded + 1 \in lost
        BY <3>2, NextBlock
      <4> QED
        BY <4>1, <4>2
    <3> QED
      BY <3>1, <3>2
  <2>2. UNCHANGED <<headerReader, decoded, read>> /\ err' = "WrongCompressedPayloadSize"
    BY <1>2 DEF F!ReadFails
  <2>3. err' \in F!Errors \ {"none", "corrupt"}
    BY <2>2 DEF F!Errors
  <2> QED
    BY <1>1, <2>1, <2>2, <2>3, ReadFailsKeeps
<1>3. ASSUME headerReader = <<>>, headerReader' = Tail(p), decoded' = decoded + 1,
             NEW e, e = F!HeaderError(frame, Head(p).headers), err' \in F!Reported(e),
             IF e = "none" THEN F!Returns(frame, decoded + 1) ELSE UNCHANGED read
      PROVE  FramerInv'
  <2>1. CASE e = "none"
    <3>1. /\ read' = Append(read, [frame |-> frame, n |-> decoded + 1])
          /\ UNCHANGED err
      BY <1>3, <2>1 DEF F!Returns, F!Reported
    <3> QED
      BY <1>3, <2>1, <3>1, HeadersReturned
  <2>2. CASE e # "none"
    <3>1. /\ err' \in F!Errors \ {"none", "corrupt"}
          /\ err' = "WrongCompressedPayloadSize" => F!OverLimit(Head(p).headers)
      BY <1>3, <2>2 DEF F!HeaderError, F!Reported, F!Errors
    <3>2. /\ p \in Seq(F!Block) /\ p # <<>>
          /\ Len(p) # 1 => lost # {}
          /\ Len(p) = 1 => Head(p).headers = frame.headers
      BY <1>3, NextBlock
    <3>5. err' = "WrongCompressedPayloadSize" => lost # {} \/ Refused
      <4>1. frame = written[Len(read) + 1].frame /\ Len(read) < Len(written)
        BY NextFrame
      <4> QED
        BY <3>1, <3>2, <4>1 DEF Refused
    <3>3. headerReader' \in Seq(F!Block) /\ (headerReader' = <<>> <=> Len(p) = 1)
      <4>1. Tail(p) \in Seq(F!Block) /\ (Tail(p) = <<>> <=> Len(p) = 1)
        BY <3>2, TailOf
      <4>2. headerReader' = Tail(p)
        BY <1>3
      <4> QED
        BY ONLY <4>1, <4>2
    <3>4. decoded' \in Nat /\ UNCHANGED read
      BY <1>1, <1>3, <2>2
    <3> QED
      BY <1>3, <3>1, <3>2, <3>3, <3>4, <3>5, ReadFailsKeeps
  <2> QED
    BY <2>1, <2>2
<1>4. CASE headerReader = <<>> /\ p # <<>>
           /\ LET block == Head(p)
                  e == IF block.n # decoded + 1 THEN "corrupt" ELSE F!HeaderError(frame, block.headers) IN
                 /\ err' \in F!Reported(e)
                 /\ headerReader' = Tail(p)
                 /\ decoded' = decoded + 1
                 /\ IF e = "none" THEN F!Returns(frame, block.n) ELSE UNCHANGED read
  <2>1. Head(p).n = decoded + 1
    BY <1>4, NextBlock
  <2> QED
    BY <1>3, <1>4, <2>1
<1> QED
  BY <1>2, <1>4 DEF F!ReadHeaders

\* Whatever is read, and whether it is accepted.
LEMMA ReadKeeps ==
    ASSUME FramerInv, F!Read
    PROVE  FramerInv'
<1> DEFINE f == Head(wire)
<1>1. /\ err = "none" /\ wire # <<>> /\ wire' = Tail(wire) /\ UNCHANGED F!encoder
      /\ decoded \in Nat /\ headerReader \in Seq(F!Block)
  BY DEF F!Read, FramerInv, F!FramerTypeOK
<1>2. CASE F!ReadFails("torn") \/ F!ReadFails("InvalidControlFrame")
  <2>1. err' \in {"torn", "InvalidControlFrame"} /\ UNCHANGED <<headerReader, decoded, read>>
    BY <1>2 DEF F!ReadFails
  <2>2. err' \in F!Errors \ {"none", "corrupt"} /\ err' # "WrongCompressedPayloadSize"
    BY <2>1 DEF F!Errors
  <2> QED
    BY <1>1, <2>1, <2>2, ReadFailsKeeps
<1>3. CASE ~f.torn /\ f.frame.kind \in HeaderKinds /\ F!ReadHeaders(f.frame, f.payload)
  BY <1>1, <1>3, ReadHeadersKeeps
<1>4. CASE /\ ~f.torn /\ f.frame.kind \notin HeaderKinds
           /\ F!Returns(f.frame, 0) /\ UNCHANGED <<headerReader, decoded, err>>
  <2>1. read' = Append(read, [frame |-> f.frame, n |-> 0])
    BY <1>4 DEF F!Returns
  <2> QED
    BY <1>1, <1>4, <2>1, PlainReturned
<1> QED
  BY <1>2, <1>3, <1>4 DEF F!Read, HeaderKinds

-----------------------------------------------------------------------------
(* The framer inside idleAwareFramer                                       *)

\* Nothing has been written.
LEMMA InitFramedInv ==
    ASSUME FramedInit
    PROVE  FramedInv
<1> USE DEF FramedInit, F!FramerInit
<1>1. Inv
  BY InitInv
<1>2. HeldInv /\ BusyInv
  BY DEF HeldInv, BusyInv, F!NotWriting
<1>3. F!FramerTypeOK
  <2>1. /\ writing \in [Writers -> {F!NotWriting} \cup Busy]
        /\ headerBuf \in Seq(F!Block) /\ headerReader \in Seq(F!Block)
        /\ wire \in Seq({F!Torn} \cup Sent)
        /\ written \in Seq(Record) /\ read \in Seq(Record)
    OBVIOUS
  <2> QED
    BY <2>1 DEF F!FramerTypeOK, F!Errors, Busy, Sent, Record
<1>4. WireInv /\ BufferInv /\ ReadInv /\ TornInv
  BY DEF WireInv, BufferInv, ReadInv, TornInv, Follows, F!Wrong
<1>5. FramesIntact /\ ContextsAgree
  BY DEF FramesIntact, ContextsAgree, F!FramesIntact, F!ContextsAgree, F!Wrong
<1> QED
  BY <1>1, <1>2, <1>3, <1>4, <1>5 DEF FramedInv, FramerInv

\* The framer is a function of its variables.
LEMMA FramerStays ==
    ASSUME FramerInv, UNCHANGED framer
    PROVE  FramerInv'
<1> USE DEF framer
<1>1. UNCHANGED <<headerBuf, blocks, writing, wire, headerReader, decoded, err,
                  written, read, lost, torn>>
  OBVIOUS
<1>2. F!FramerTypeOK'
  BY <1>1 DEF FramerInv, F!FramerTypeOK
<1>3. WireInv' /\ TornInv'
  BY <1>1 DEF FramerInv, WireInv, TornInv, Carries, Follows
<1>4. BufferInv'
  BY <1>1 DEF FramerInv, BufferInv
<1>5. BusyInv'
  BY <1>1 DEF FramerInv, BusyInv
<1>6. ReadInv'
  BY <1>1 DEF FramerInv, ReadInv, F!Wrong
<1>7. FramesIntact' /\ ContextsAgree'
  BY <1>1 DEF FramerInv, FramesIntact, ContextsAgree, F!FramesIntact, F!ContextsAgree, F!Wrong
<1> QED
  BY <1>2, <1>3, <1>4, <1>5, <1>6, <1>7 DEF FramerInv

\* writeLock lets one writer at a time into f.WriteFrame.
LEMMA OneWriter ==
    ASSUME FramedInv
    PROVE  /\ writeLock = NoOne => \A u \in Writers : ~writing[u].busy
           /\ \A t \in Writers : pc[t] = "held" => \A u \in Writers : writing[u].busy => u = t
BY IdleAssumption DEF FramedInv, HeldInv, Inv, LockInv

\* A writer takes the lock and its frame is marshalled.
LEMMA FramedLockKeeps ==
    ASSUME FramedInv, NEW t \in Writers, FramedLock(t)
    PROVE  FramedInv'
<1>1. FramerInv /\ HeldInv /\ Inv /\ WriteLock(t)
  BY DEF FramedInv, FramedLock
<1>2. Inv'
  BY <1>1, CallStep DEF WriterStep, Threads
<1>3. pc[t] = "lock" /\ pc'[t] = "held" /\ \A u \in Writers \ {t} : pc'[u] = pc[u]
  BY <1>1 DEF WriteLock, Goto, Inv, TypeOK, Threads
<1>4. CASE UNCHANGED framer
  <2>1. FramerInv'
    BY <1>1, <1>4, FramerStays
  <2>2. HeldInv'
    BY <1>1, <1>3, <1>4 DEF HeldInv, framer
  <2> QED
    BY <1>2, <2>1, <2>2 DEF FramedInv
<1>5. ASSUME NEW frame \in Frames, F!Marshal(t, frame)
      PROVE  FramedInv'
  <2>1. \A u \in Writers : ~writing[u].busy
    BY <1>1, OneWriter DEF WriteLock
  <2>2. FramerInv'
    BY <1>1, <1>5, <2>1, MarshalKeeps
  <2>3. \A u \in Writers \ {t} : writing'[u] = writing[u]
    BY <1>1, <1>5 DEF F!Marshal, FramerInv, F!FramerTypeOK
  <2>4. HeldInv'
    BY <1>3, <2>1, <2>3 DEF HeldInv
  <2> QED
    BY <1>2, <2>2, <2>4 DEF FramedInv
<1> QED
  BY <1>4, <1>5 DEF FramedLock

\* f.WriteFrame returns.
LEMMA FramedWriteKeeps ==
    ASSUME FramedInv, NEW t \in Writers, FramedWrite(t)
    PROVE  FramedInv'
<1>1. FramerInv /\ HeldInv /\ Inv /\ Write(t)
  BY DEF FramedInv, FramedWrite
<1>2. Inv'
  BY <1>1, CallStep DEF WriterStep, Threads
<1>3. pc[t] = "held" /\ \A u \in Writers \ {t} : pc'[u] = pc[u]
  BY <1>1 DEF Write, Goto, Inv, TypeOK, Threads
<1>4. \A u \in Writers : writing[u].busy => u = t
  BY <1>3, OneWriter
<1>5. CASE F!Emit(t) \/ F!EmitFails(t) \/ F!EmitTorn(t)
  <2>1. FramerInv'
    BY <1>1, <1>4, <1>5, EmitKeeps, EmitFailsKeeps, EmitTornKeeps
  <2>2. writing' = [writing EXCEPT ![t] = F!NotWriting]
    BY <1>5 DEF F!Emit, F!EmitFails, F!EmitTorn
  <2>3. \A u \in Writers : ~writing'[u].busy
    BY <1>1, <1>4, <2>2 DEF F!NotWriting, FramerInv, F!FramerTypeOK
  <2>4. HeldInv'
    BY <2>3 DEF HeldInv
  <2> QED
    BY <1>2, <2>1, <2>4 DEF FramedInv
<1>6. CASE ~writing[t].busy /\ UNCHANGED framer
  <2>1. FramerInv'
    BY <1>1, <1>6, FramerStays
  <2>2. HeldInv'
    BY <1>1, <1>3, <1>6 DEF HeldInv, framer
  <2> QED
    BY <1>2, <2>1, <2>2 DEF FramedInv
<1> QED
  BY <1>5, <1>6 DEF FramedWrite

\* Every other step leaves the frames alone, and the writers with the lock.
LEMMA BesidesKeeps ==
    ASSUME FramedInv, Besides \/ (\E t \in Writers : WriteSend(t) /\ UNCHANGED framer)
    PROVE  FramedInv'
<1>1. FramerInv /\ HeldInv /\ Inv /\ pc \in [Threads -> {"idle", "lock", "held", "send"}]
  BY DEF FramedInv, Inv, TypeOK
<1>2. Inv'
  BY <1>1, CallStep, ReaderKeepsInv, MonitorKeepsInv, DrainersKeepInv
  DEF Besides, WriterStep, Threads
<1>3. \A u \in Threads : pc[u] = "held" => pc'[u] = "held"
  <2>1. ASSUME NEW t \in Threads, Call(t) PROVE \A u \in Threads : pc[u] = "held" => pc'[u] = "held"
    BY <1>1, <2>1 DEF Call, Goto
  <2>2. ASSUME NEW t \in Setters, SetterStep(t)
        PROVE  \A u \in Threads : pc[u] = "held" => pc'[u] = "held"
    BY <1>1, <2>2 DEF SetterStep, SetLock, SetSend, Goto, Threads
  <2>3. ASSUME NEW t \in Writers, WriteSend(t)
        PROVE  \A u \in Threads : pc[u] = "held" => pc'[u] = "held"
    BY <1>1, <2>3 DEF WriteSend, Goto, Threads
  <2>4. CASE ReadFrame \/ ReadError \/ ReaderStep
    BY <2>4 DEF ReadFrame, ReadError, ReaderStep, ReadSend, CloseChan
  <2>5. CASE MonitorStep
    BY <2>5 DEF MonitorStep, MonitorSet, MonitorReset, MonitorExpired, MonitorClosing,
                MonitorCloseReset, MonitorCloseSet, MonitorEnds
  <2>6. CASE Drainers \/ TimerFires
    BY <2>6 DEF Drainers, DrainReset, DrainSet, DrainerEnds, TimerFires
  <2> QED
    BY <2>1, <2>2, <2>3, <2>4, <2>5, <2>6 DEF Besides
<1>4. UNCHANGED framer
  BY DEF Besides
<1>5. FramerInv'
  BY <1>1, <1>4, FramerStays
<1>6. HeldInv'
  BY <1>1, <1>3, <1>4 DEF HeldInv, framer, Threads
<1> QED
  BY <1>2, <1>5, <1>6 DEF FramedInv

\* The invariant of the composition is inductive.
LEMMA FramedNextKeeps ==
    ASSUME FramedInv, [FramedNext]_framedVars
    PROVE  FramedInv'
<1>1. CASE \E t \in Writers : FramedStep(t)
  BY <1>1, FramedLockKeeps, FramedWriteKeeps, BesidesKeeps DEF FramedStep
<1>2. CASE Besides
  BY <1>2, BesidesKeeps
<1>3. CASE PeerReads
  <2>1. FramerInv'
    BY <1>3, ReadKeeps DEF PeerReads, FramedInv
  <2>2. Inv'
    BY <1>3 DEF PeerReads, FramedInv, vars, chans, locks, timers, Inv, TypeOK, LockInv, DownInv, DrainInv,
                NoSendOnClosed
  <2>3. HeldInv'
    BY <1>3 DEF PeerReads, FramedInv, vars, HeldInv, F!Read, F!encoder
  <2> QED
    BY <2>1, <2>2, <2>3 DEF FramedInv
<1>4. CASE UNCHANGED framedVars
  <2>1. FramerInv'
    BY <1>4, FramerStays DEF framedVars, FramedInv
  <2>2. Inv'
    BY <1>4 DEF framedVars, FramedInv, vars, chans, locks, timers, Inv, TypeOK, LockInv, DownInv, DrainInv,
                NoSendOnClosed
  <2>3. HeldInv'
    BY <1>4 DEF framedVars, FramedInv, vars, HeldInv, framer
  <2> QED
    BY <2>1, <2>2, <2>3 DEF FramedInv
<1> QED
  BY <1>1, <1>2, <1>3, <1>4 DEF FramedNext

-----------------------------------------------------------------------------
\* The inductive invariant, and with it the types, holds in every state of the
\* framer of one end and the decoder of the other.
THEOREM FramedInvariance == FramedSpec => [](FramedTypeOK /\ FramedInv)
<1>1. FramedInv => FramedTypeOK
  BY DEF FramedInv, FramedTypeOK, Inv, FramerInv
<1> QED
  BY <1>1, InitFramedInv, FramedNextKeeps, PTL DEF FramedSpec

\* spdy/write.go:225, connection.go:151: frames arrive in order, once and with
\* their own headers; only a header frame that could not be written spoils one
\* later frame.
THEOREM FramesArriveIntact == FramedSpec => []FramesIntact
<1>1. FramedInv => FramesIntact
  BY DEF FramedInv, FramerInv
<1> QED
  BY <1>1, FramedInvariance, PTL

\* spdy/read.go:272: with writeLock around the compressor and headerBuf no
\* block is decompressed out of its turn.
THEOREM ContextsStayInStep == FramedSpec => []ContextsAgree
<1>1. FramedInv => ContextsAgree
  BY DEF FramedInv, FramerInv
<1> QED
  BY <1>1, FramedInvariance, PTL

\* The SPDY framer inside does not change what idleAwareFramer does: a step of
\* the composition is one of IdleFramer, or it stutters.
THEOREM FramedImplementsIdle == FramedSpec => Spec
<1>1. FramedInit => Init
  BY DEF FramedInit
<1>2. [FramedNext]_framedVars => [Next]_vars
  <2>1. ASSUME NEW t \in Writers, FramedStep(t) PROVE Next
    BY <2>1 DEF FramedStep, FramedLock, FramedWrite, WriterStep, Next
  <2>2. Besides => Next
    BY DEF Besides, Next
  <2>3. PeerReads \/ UNCHANGED framedVars => UNCHANGED vars
    BY DEF PeerReads, framedVars
  <2> QED
    BY <2>1, <2>2, <2>3 DEF FramedNext
<1> QED
  BY <1>1, <1>2, PTL DEF FramedSpec, Spec

\* A frame that is too long, a network that fails and the other end make no
\* difference to it: no goroutine sends on a closed channel.
THEOREM FramedSendsAreSafe == FramedSpec => []NoSendOnClosed
BY FramedImplementsIdle, SendsAreSafe, PTL

\* So issue 49 stays closed when WriteFrame does what it does under writeLock:
\* marshal, write, fail.
THEOREM FramedNoDeadlock == FramedSpec => []NoCircularWait
BY FramedImplementsIdle, NoDeadlock, PTL
=============================================================================
