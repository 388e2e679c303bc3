----------------------------- MODULE SpdyFramer -----------------------------
(***************************************************************************)
(* The SPDY framer of package spdy, from the WriteFrame of one end of a    *)
(* connection to the ReadFrame of the other.                               *)
(*                                                                         *)
(* Header blocks go through one compressor, whose context spans all blocks *)
(* of the connection, into headerBuf, and from there into frames; a block  *)
(* is its number in the compressor, a size and headers.  A block can be    *)
(* decompressed only after those before it.  ReadFrame of the other end is *)
(* called by its read loop, which ends at the first error.                 *)
(***************************************************************************)
EXTENDS Integers, Sequences, SequencesExt

CONSTANTS
    Writers,             \* goroutines that call WriteFrame, one at a time
    MaxDataLength,       \* 2^24 - 1 in the code
    maxFrameLength,      \* limits of the reading end, 0 for the default
    maxHeaderFieldSize,
    maxHeaderCount,
    defaultMaxHeaderFieldSize, defaultMaxHeaderCount,
    Frames,              \* frames written: kind, id, headers, size of the data
    BlockSizes           \* sizes a compressed header block may have

VARIABLES
    headerBuf,     \* f.headerBuf of the writing end: the blocks in it
    blocks,        \* number of blocks that have gone into the compressor
    writing,       \* each writer: the frame it is in WriteFrame with
    wire,          \* frames written and not yet read
    headerReader,  \* blocks the decompressor has read ahead and not yet decoded
    decoded,       \* number of blocks that have come out of the decompressor
    err,           \* the error that ended the read loop of the other end
    written,       \* history: frames written in full, with their block
    read,          \* history: frames ReadFrame returned, with the block decoded
    lost,          \* history: blocks whose frame could not be written
    torn           \* history: a part of a frame was written

encoder == <<headerBuf, blocks, writing, written, lost, torn>>
decoder == <<headerReader, decoded, err, read>>
framerVars == <<encoder, wire, decoder>>

HeaderKinds == {"synStream", "synReply", "headers"}
Kinds == HeaderKinds \cup {"rst", "ping", "goAway", "data"}
Names == {"Host", "Connection", ":twice"}   \* names a reader may object to

Headers == [count: Nat, field: Nat, names: SUBSET Names]
Frame == [kind: Kinds, id: Nat \ {0}, headers: Headers, size: Nat]
Block == [n: Nat, size: Nat, headers: Headers]

NotWriting == [busy |-> FALSE]
Torn == [torn |-> TRUE]

FramerAssumption ==
    /\ Frames \subseteq Frame /\ BlockSizes \subseteq Nat
    /\ {MaxDataLength, maxFrameLength, maxHeaderFieldSize, maxHeaderCount,
        defaultMaxHeaderFieldSize, defaultMaxHeaderCount} \subseteq Nat

Errors == {"none", "torn", "corrupt", "InvalidControlFrame", "WrongCompressedPayloadSize",
           "DuplicateHeaders", "InvalidHeaderPresent"}

FramerTypeOK ==
    /\ headerBuf \in Seq(Block)
    /\ blocks \in Nat
    /\ writing \in [Writers -> {NotWriting} \cup [busy: {TRUE}, frame: Frame, n: Nat]]
    /\ wire \in Seq({Torn} \cup [torn: {FALSE}, frame: Frame, payload: Seq(Block)])
    /\ headerReader \in Seq(Block)
    /\ decoded \in Nat
    /\ err \in Errors
    /\ written \in Seq([frame: Frame, n: Nat])
    /\ read \in Seq([frame: Frame, n: Nat])
    /\ lost \subseteq Nat
    /\ torn \in BOOLEAN

FramerInit ==
    /\ headerBuf = <<>> /\ blocks = 0 /\ writing = [t \in Writers |-> NotWriting]
    /\ wire = <<>> /\ headerReader = <<>> /\ decoded = 0 /\ err = "none"
    /\ written = <<>> /\ read = <<>> /\ lost = {} /\ torn = FALSE

-----------------------------------------------------------------------------
(* WriteFrame                                                              *)

Size(s) == FoldSeq(LAMBDA b, sum : b.size + sum, 0, s)

\* The length field of a frame that carries these blocks.
Length(frame, payload) ==
    CASE frame.kind = "data" -> frame.size
      [] frame.kind = "synStream" -> 10 + Size(payload)
      [] frame.kind \in {"synReply", "headers"} -> 4 + Size(payload)
      [] frame.kind \in {"rst", "goAway"} -> 8
      [] frame.kind = "ping" -> 4

\* A header block is marshalled through the compressor into headerBuf.
Marshal(t, frame) ==
    /\ ~writing[t].busy
    /\ IF frame.kind \in HeaderKinds
       THEN /\ blocks' = blocks + 1
            /\ \E size \in BlockSizes : headerBuf' =
                  Append(headerBuf, [n |-> blocks + 1, size |-> size, headers |-> frame.headers])
       ELSE UNCHANGED <<blocks, headerBuf>>
    /\ writing' = [writing EXCEPT ![t] =
          [busy |-> TRUE, frame |-> frame, n |-> IF frame.kind \in HeaderKinds THEN blocks + 1 ELSE 0]]
    /\ UNCHANGED <<wire, decoder, written, lost, torn>>

Payload(frame) == IF frame.kind \in HeaderKinds THEN headerBuf ELSE <<>>

\* Mutant of Emptied: Reset is left out.
EmptiedNot(frame) == headerBuf

\* headerBuf.Reset(), which only frames with headers do.
Emptied(frame) == IF frame.kind \in HeaderKinds THEN <<>> ELSE headerBuf

\* The frame is written, with all that headerBuf holds.
Emit(t) ==
    /\ writing[t].busy
    /\ LET frame == writing[t].frame IN
          /\ Length(frame, Payload(frame)) <= MaxDataLength
          /\ wire' = Append(wire, [torn |-> FALSE, frame |-> frame, payload |-> Payload(frame)])
          /\ written' = Append(written, [frame |-> frame, n |-> writing[t].n])
          /\ headerBuf' = Emptied(frame)
    /\ writing' = [writing EXCEPT ![t] = NotWriting]
    /\ UNCHANGED <<blocks, decoder, lost, torn>>

\* Nothing is written: the frame is too long, or the network refuses it.  The
\* block stays in headerBuf.
EmitFails(t) ==
    /\ writing[t].busy
    /\ lost' = IF writing[t].frame.kind \in HeaderKinds THEN lost \cup {writing[t].n} ELSE lost
    /\ writing' = [writing EXCEPT ![t] = NotWriting]
    /\ UNCHANGED <<headerBuf, blocks, wire, decoder, written, torn>>

\* The network fails inside the frame.
EmitTorn(t) ==
    /\ writing[t].busy
    /\ LET frame == writing[t].frame IN Length(frame, Payload(frame)) <= MaxDataLength
    /\ wire' = Append(wire, Torn) /\ torn' = TRUE
    /\ writing' = [writing EXCEPT ![t] = NotWriting]
    /\ UNCHANGED <<headerBuf, blocks, decoder, written, lost>>

-----------------------------------------------------------------------------
(* ReadFrame of the other end                                              *)

Limit(option, default) == IF option > 0 THEN option ELSE default

\* invalidReqHeaders and invalidRespHeaders.
Invalid(frame) ==
    IF frame.kind = "synStream" \/ (frame.kind = "headers" /\ frame.id % 2 = 0)
    THEN {"Host", "Connection"} ELSE {"Connection"}

OverLimit(headers) ==
    \/ headers.count > Limit(maxHeaderCount, defaultMaxHeaderCount)
    \/ headers.field > Limit(maxHeaderFieldSize, defaultMaxHeaderFieldSize)

\* parseHeaderValueBlock and the test of the names after it.  A repeated name is
\* seen only if h.Add files it under the name itself, as with ":twice".
HeaderError(frame, headers) ==
    IF OverLimit(headers) THEN "InvalidControlFrame"
    ELSE IF ":twice" \in headers.names THEN "DuplicateHeaders"
    ELSE IF headers.names \cap Invalid(frame) # {} THEN "InvalidHeaderPresent"
    ELSE "none"

ReadFails(e) ==
    /\ err' = e
    /\ UNCHANGED <<headerReader, decoded, read>>

Returns(frame, n) == read' = Append(read, [frame |-> frame, n |-> n])

\* An error before the end of the block may leave payload unread, if the block is
\* large: then the payload size is said to be wrong.
Reported(e) ==
    IF e \in {"corrupt", "InvalidControlFrame"} THEN {e, "WrongCompressedPayloadSize"} ELSE {e}

\* One block is decompressed: what was read ahead comes first, and then nothing
\* is taken from the payload, so that its size is wrong.  More than one block in
\* the payload is read ahead, or its size is wrong.
ReadHeaders(frame, payload) ==
    \/ /\ headerReader # <<>> \/ Len(payload) > 1
       /\ ReadFails("WrongCompressedPayloadSize")
    \/ /\ headerReader = <<>> /\ payload # <<>>
       /\ LET block == Head(payload)
              e == IF block.n # decoded + 1 THEN "corrupt" ELSE HeaderError(frame, block.headers) IN
             /\ err' \in Reported(e)
             /\ headerReader' = Tail(payload)
             /\ decoded' = decoded + 1
             /\ IF e = "none" THEN Returns(frame, block.n) ELSE UNCHANGED read

\* A control frame that is too long is skipped.
Read ==
    /\ err = "none" /\ wire # <<>>
    /\ wire' = Tail(wire)
    /\ LET f == Head(wire) IN
          IF f.torn THEN ReadFails("torn")
          ELSE IF /\ f.frame.kind # "data"
                  /\ Length(f.frame, f.payload) > Limit(maxFrameLength, MaxDataLength)
          THEN ReadFails("InvalidControlFrame")
          ELSE IF f.frame.kind \in HeaderKinds THEN ReadHeaders(f.frame, f.payload)
          ELSE Returns(f.frame, 0) /\ UNCHANGED <<headerReader, decoded, err>>
    /\ UNCHANGED encoder

-----------------------------------------------------------------------------
\* WriteFrame is called by one goroutine at a time: idleAwareFramer holds
\* writeLock, see FramedWriter.
Exclusive(t) == \A u \in Writers : ~writing[u].busy

FramerNext ==
    \/ \E t \in Writers :
          \/ \E frame \in Frames : Exclusive(t) /\ Marshal(t, frame)
          \/ Emit(t) \/ EmitFails(t) \/ EmitTorn(t)
    \/ Read

FramerSpec == FramerInit /\ [][FramerNext]_framerVars

-----------------------------------------------------------------------------
(* Properties                                                              *)

Wrong == {i \in 1 .. Len(read) : read[i].n # written[i].n}

\* spdy/write.go:225: frames arrive in order, each once and with its own headers.
\* Only a header frame that could not be written spoils that, and what it spoils
\* is one later frame, which then has its headers; after that no header frame
\* is accepted.
FramesIntact ==
    /\ Len(read) <= Len(written)
    /\ \A i \in 1 .. Len(read) : read[i].frame = written[i].frame
    /\ \A i \in Wrong :
          /\ read[i].n \in lost
          /\ \A j \in i + 1 .. Len(read) : read[j].frame.kind \notin HeaderKinds

\* The two ends' compression contexts agree: no block is decompressed out of its
\* turn, and whoever is told that the payload size is wrong has lost a header frame
\* that could not be written, or has got a frame over a limit of his own.
ContextsAgree ==
    /\ err # "corrupt"
    /\ err = "WrongCompressedPayloadSize" =>
          \/ lost # {}
          \/ Len(read) < Len(written) /\ OverLimit(written[Len(read) + 1].frame.headers)
=============================================================================
