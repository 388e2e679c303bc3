# A TLA+ development of spdystream

spdystream multiplexes SPDY/3.1 streams over one network connection.  This
directory keeps models of its concurrent core, the TLC runs that check them on
small instances, and theorems about them that TLAPS checks for every value of
the constants.  `PROJECT.json` maps each definition to the lines it translates
and lists the runs, mutants, findings, hazards and theorems; this file explains
them.

    tlc -config MCServe.cfg Serve        # one run, see the table below
    tlapm ServeProofs.tla                # the proofs of one module

## 1. The system

| Part | State it keeps | Operations | Talks to |
|---|---|---|---|
| Priority frame queue (`priority.go`) | heap of entries, `nextInsertId`, `drain`, one `sync.Cond` | `Push`, `Pop`, `Drain` | pushed by the read loop, popped by one frame worker |
| Stream (`stream.go`, `handle*Frame` and `remoteStreamFinish` of `connection.go`) | `finished`, `replied`, `unread`, `closeChan`, `startChan`, `dataChan`, `headerChan`, `replyCond`, membership in `conn.streams` | `Write`, `WriteData`, `Close`, `Reset`, `SendReply`, `Refuse`, `Cancel`, `SendHeader`, `Wait`, `WaitTimeout`, `Read`, `ReadData`, `ReceiveHeader`; the handlers of REPLY, DATA, HEADERS, RST | application goroutines; its frame worker; the framer |
| Serve (`connection.go:316`) | five frame queues and workers, `partitionRoundRobin`, `closeChan`, `streams`, `receivedStreamId`, `goneAway` | the read loop, `frameHandler`, `checkStreamFrame`, `addStreamFrame`, `getStreamPriority`, the drain, `handleGoAwayFrame`, the clean-up, `Close` | queues, streams, framer |
| Idle-aware framer (`connection.go:30`) | `resetChan`, `setTimeoutChan`, `writeLock`, `setTimeoutLock`, timer | `WriteFrame`, `ReadFrame`, `setIdleTimeout`, `monitor` | every writer, the read loop, `closeChan` |
| Shutdown (`connection.go:720`) | `hasShutdown`, `shutdownChan`, `shutdownLock`, `closeTimeout`, `goAwayTimeout`, `lastStreamChan` | `shutdown`, `CloseWait`, `Wait`, `NotifyClose`, `SetCloseTimeout` | the stream table, Serve |
| Ping (`connection.go:281`) | `pingId`, `pingChans`, `pingLock` | `Ping`, `handlePingFrame` | framer, workers |
| Stream ids (`connection.go:490, 933, 980`) | `nextStreamId`, `nextIdLock`, `streamCond` | `CreateStream`, `getNextStreamId`, `FindStream` | framer, Serve |
| SPDY framer (`spdy/`) | header buffers and zlib contexts | `ReadFrame`, `WriteFrame` | the network connection |
| Handlers, dictionary, logging | none | `MirrorStreamHandler`, `NoOpStreamHandler` | streams |

What makes the code hard to test:

* **Interleaving.**  Any number of application goroutines use a stream while
  its worker handles the peer's frames.  Each flag has its own lock or none:
  `finished` is under `finishLock`, but `Close` tests `closeChan` before it; the
  handlers and `Refuse` read and write `replied` without the lock of
  `SendReply`; `unread` and `priority` have none.
* **Blocking.**  A full queue blocks the read loop, an unread stream blocks its
  worker, a reset nobody waits for blocks its worker, a writer waits for the
  reply, `resetChan` blocks writers that hold a lock.
* **Ordering.**  A stream's frames get a priority each and still have to be
  handled in the order read.
* **The end.**  Serve drains the queues, handles GOAWAY, closes and empties the
  table while readers, `Close` and the framer's monitor run on.

Each part is correct if:

* **queue**: no frame is lost or overtaken within its priority, no goroutine
  sleeps beside work, `Drain` empties and then ends the workers;
* **stream**: of the calls that claim `finished` only one ends it on the wire;
  `startChan` is never closed twice or sent on once closed; one reply is written
  and every writer that waits for it hears of it; a reset leaves nothing behind; a
  live stream stays in the table; data reaches the reader; blocked calls are
  released;
* **serve**: stream order, one handler per stream, everything handled before
  the GOAWAY and the clean-up, an exact GOAWAY, no stream out of the table and
  still open for readers with nobody about to close it;
* **framer**: no send on a closed channel, no lock or full channel that waits in
  a circle, and a take-down that ends;
* **shutdown**: the network is not closed under a stream that was open when the
  connection went away, unless the timeout says so or the peer has ended the
  connection; `shutdown` runs once and
  `shutdownChan` is closed once; `CloseWait` and `Wait` return; no wake-up on
  `streamCond` is lost;
* **ping**: a nil from `Ping` means that this very ping was echoed, our pings are
  told from the peer's, no channel is closed twice;
* **ids**: SYN_STREAM frames leave in the order of their ids, each id once, none
  above the largest;
* **codec**: frames arrive in order, once, with their own headers, and the
  compression contexts of the two ends agree.

The 40 hazards in `PROJECT.json` name the line where each bites and the
properties that cover it, or say why none does.

## 2. The modules

| Module | What it is |
|---|---|
| `PriorityFrameQueue` | `priority.go` with any number of pushers and poppers, and its mapping to `PriorityLanes` |
| `PriorityLanes` | the abstract queue: FIFO lanes per priority, bounded, most urgent first |
| `SortedSets` | a finite set of numbers as the sequence of its elements, for the mappings |
| `Stream` | one stream at one end: methods, handlers, the end of Serve |
| `MCStream` | which goroutine calls which methods, for TLC |
| `Serve` | the read loop, queues, workers, stream table, the end, `Close`, and the mapping to `StreamMailboxes` |
| `StreamMailboxes` | what Serve promises the streams: a FIFO mailbox and one handler each, all handled before the end |
| `IdleFramer` | the framer's locks, channels, timer and monitor |
| `SpdyFramer` | package `spdy`, from the `WriteFrame` of one end to the `ReadFrame` of the other |
| `FramedWriter` | `IdleFramer` around `SpdyFramer`; shown to implement `IdleFramer` |
| `MCFramedWriter` | the frames that are written, for TLC |
| `Shutdown` | stream ids, the stream table, `streamCond`, `Close` and what follows it |
| `Ping` | `Ping` and `handlePingFrame` |
| `Connection` | `Shutdown` and `Ping` together in one connection; shown to implement `Shutdown` |
| `MCConnection` | which goroutine makes which calls, for TLC |
| `*Proofs` | the theorems of the module each extends |

Definitions marked *mutant* change the definition they are named after the way
a plausible bug would.  No specification uses them: each is put in the place of
the original to see that a property notices.

### PriorityFrameQueue

The heap is the set of its entries `[priority, insertId]`; `heap.Pop` returns
the least by `Less`, which is what a heap does.  A critical section is one step;
`q.c.Wait()` releases the mutex (`waiting`), and a goroutine that is woken has
to take it and test again (`running`).  `Signal` wakes *any* waiter of the
shared `Cond`, as `sync.Cond` may; `Broadcast` wakes all.  `Drain` runs once the
read loop has left its last `Push`, which is what `closeChan` tells it.

### Stream

Every goroutine of the application is at a place in a method (`app[t].at`), with
the frame its call is going to write.  Each step is one critical section, one
channel operation or one write, so that two goroutines interleave wherever the
code lets them: `Close` is `CloseCheck` (the test of `closeChan` and the removal),
`WaitWriteReply`, `Finish` (the test and set under `finishLock`) and `Send`;
`Reset` is `ResetRemove`, `ResetClose`, `ResetFinish` and `Send`.  `SendReply`
keeps `replyCond.L` while it writes, and `ReplyLockFree` is the guard of those who
need that lock.  Unbuffered channels are joint steps: `DeliverData`,
`DeliverHeaders`, `WorkerSendStart`.  The worker's program counter runs through
`handleReplyFrame`, `handleResetFrame`, `handleDataFrame`, `handleHeaderFrame` and
`remoteStreamFinish`.  `ReadLoopEnds` and `Cleanup` are the end of Serve as the
stream sees it.

Idle expiry takes every stream out of the table and calls `resetStream`: for one
stream that is `Reset`.  `replied` is read by the handlers without its lock
(a data race in Go's terms); it is a word-sized flag and the model takes the
outcomes a read before or after the write can give.  Where a handler or `Refuse`
tests `replied` and sets it, that is one step: every writer writes true, so a
write in between changes nothing that follows.  Two calls of `Refuse` may both
write their frame in the code and not in the model; no property counts refusals.

Two assumptions bound the environment.  `Legal`: the peer follows SPDY (nothing
after its reset, only a reset after its FIN, no data before its reply).  `Calls`:
what the application calls.

### Serve

A frame is its kind, stream, priority and its number in the order read.  The
read loop is `ReadFrame`, then `AddStream` or `Lookup`, then `Push`, back to
`ReadFrame`; `Push` is where it blocks.  A queue is the bounded set that
`PriorityFrameQueue` shows it to be.  `Lookup` and `Push` are apart, so that a
stream may be removed, or its priority changed, between the look-up of a frame's
priority and its insertion.  `CloseChan`, `AwaitWorkers`, `HandleGoAway` and
`Cleanup` are the end of the function.

Of the handlers `Serve` keeps where they block and how streams leave.  A worker
is in `deliver` in the selects of `handleDataFrame` and `handleHeaderFrame`
(`connection.go:584, 614`), until a goroutine in `Read` takes what it has or
`closeChan` is closed, and in `startSend` in the send of `ErrReset` (561).  `DATA`
stands for DATA and HEADERS, and `Read` for whichever call takes the frame:
`Stream` tells them apart.  Removal from the table and the closing of `closeChan`
are two steps wherever they are in the code: `HandleReset` and `HandleResetClose`,
`Reset` (for all streams `IdleExpires`) and `ResetStream`, and the other way round
`Finish` and `FinishCheck`, or `Finish` and `CloseStream`.  `Read` needs no entry
in the table.  Of `finished` nothing is kept, so `FinishCheck` removes or not.
`CloseBegin` and `CloseWrite` are `Close` up to its GOAWAY: `goneAway` is set
under `receiveIdLock`, `receivedStreamId` is read later and without it.

`AddStream` is one step: the test of `goneAway` and the update of
`receivedStreamId` are one critical section (`checkStreamFrame`), and until the
read loop has added the stream and pushed its frame, nobody else knows its id.

### IdleFramer

A buffered channel of empty structs is a count.  Who holds a mutex is a
variable, because `WriteFrame` blocks on `resetChan` with `writeLock` held: the
dead-lock of issue 49.  The timer keeps a tick in its channel that `Stop` and
`Reset` leave there, as timers do under the go 1.13 of `go.mod`.  `MonitorClosing`,
`MonitorCloseReset`, `MonitorCloseSet`, `MonitorEnds` and the drainers are the
take-down that closes the channels under the locks of their senders.

### SpdyFramer and FramedWriter

A header block is its number in the compressor, a size and its headers: all that
counts of zlib here is that a block can be decompressed only after those before
it.  `WriteFrame` of a frame with headers is two steps, `Marshal` (through the
compressor into `headerBuf`) and one of `Emit`, `EmitFails` and `EmitTorn`,
because an error between the two leaves the block in `headerBuf`: the frame was
too long (`Length`, against `MaxDataLength`) or the network failed.  A RST_STREAM
with status 0 would also write part of a frame; nobody passes one.  `Read` is the
other end's `ReadFrame` with its limits, `parseHeaderValueBlock`, the test that
the payload is used up and the tests of header names.  `ReadHeaders` takes what
was read ahead first: then the payload is not touched and its size is wrong.  More
than one block in the payload may be read ahead by zlib, or not, which is a
choice.  An error in the middle of a block, such as one header too many, may leave
payload unread, and then `read.go:278-280` replaces it by
`WrongCompressedPayloadSize`: `Reported` has both outcomes, because whether the
rest was already buffered depends on the size of the block.  That a block read to
its end leaves no payload assumes that the decompressor has fetched the flush
marker behind it too, as its buffered reads do.  `DuplicateHeaders` finds only
names that `h.Add` files under themselves, such as `:twice`; names with an
upper-case form are filed under that.

`FramedWriter` puts `Marshal` where `idleAwareFramer.WriteFrame` has just taken
`writeLock`, and the other three where it returns from the call.

### Shutdown

A goroutine of the application is in one call (`pc[t]`).  `CreateStream` is
`Create` (the id and the stream, with `nextIdLock` held) and `CreateWrite` (the
SYN_STREAM, the lock released); `FindStream` is `Find`, which looks and may go to
sleep on `streamCond`.  Every change of the table wakes all sleepers (`Awake`,
`WakeWatcher`) as `Broadcast` does.  `Close` is `CloseBegin` (`goneAway`, under
`receiveIdLock`) and `CloseWrite` (the GOAWAY, and `go s.shutdown`); `CloseWait`
goes on as `Wait` does, receiving from `shutdownChan`.  `NotifyClose` is two
assignments without a lock.  There may be one `shutdown` per caller of `Close` and
one that Serve starts: `shutdown[g]` says how far each is, `hasShutdown` lets one
through, `watcher` is the inner goroutine that waits for an empty table.  A
timeout is a flag: it may fire whenever it is set.  Serve is its read loop and
its end as this part sees them.  Two things keep `wg.Wait()` from returning:
`stuck`, the worker of finding 3 (`WorkerSticks`), and `unread`, the streams with
data or headers in a worker's hand (`ReadData`), which somebody reads or which are
dropped after the stream is closed (`DataHandled`).

The model begins with a new connection or with one that has a single id left,
so that the last id is handed out within the bounds.

Three things the code does are worth knowing.

* `goAwayTimeout` has little effect.  A GOAWAY of the peer ends the read loop;
  Serve then takes every live stream out of the table (`evicted`), the shutdown
  finds it empty and closes the network at once.  The comment of `NotifyClose`
  (`connection.go:846-848`) says that the timeout "will determine the duration
  between go away received and the connection being closed".  The code does not
  do that; `GracefulEnd` allows it by name (`evicted`, `hungUp`) and excludes every
  other way to cut off a stream.
* `CloseWait` may hang in spite of a close timeout: the forced close waits for an
  empty table too (749), which only the end of Serve provides, and a worker that
  waits for a reader of an open stream, or for a receiver of `ErrReset`, keeps
  Serve at `wg.Wait()` (408).  `WaitersReturn` says so.
* `hasShutdown` never has to refuse anyone, because `goneAway` lets only one
  goroutine start a shutdown.

### Ping

A channel made by `Ping` is a number.  `PingCall` reads `pingId`, `Register`
takes `pingLock`: two steps, because the code reads it outside the lock.  The
other end of the wire is the set of pings not yet echoed; it echoes each at most
once, as `handlePingFrame` does, in any order.  `HandleEcho` looks the channel up
under the lock, `HandleClose` closes it afterwards.  `pingId` wraps at
`PingWrap`, an even number that stands for 0x7ffffffe.  The histories `answered`
and `shared` say which pings were echoed and which had an id in use.

### Connection

The two modules share the goroutines (each in one call at a time), the frame
workers (at rest before Serve goes on from `wg.Wait()`: `ServeStep`), the network
(a ping is written on an open one: `PingThread`) and `closeChan`.

## 3. The runs

| Run | Config | Shows |
|---|---|---|
| `queue` | `MCPriorityFrameQueue.cfg` | `NoLostWakeup`, `Conservation`, `NoOvertaking`, `DrainLosesNothing`; the refinement `ImplementsLanes`; a blocked `Push` returns and the workers end |
| `stream_safety` | `MCStreamSafety.cfg` | three goroutines race all the methods that end or abort a stream against the peer: ended once by those that claim `finished`, `startChan` safe, resets final, live streams kept, no data lost |
| `stream_liveness` | `MCStreamLiveness.cfg` | one reply, and nobody parked beside it; blocked writers, readers and the blocked worker are released by the reply, by `closeChan` and by `Reset` |
| `serve` | `MCServe.cfg` | order, mutual exclusion of handlers, the drain, the GOAWAY, no stream lost between the table and `closeChan`; the refinement `ImplementsMailboxes`; `Serve` returns, unless a worker is stuck: with `ErrReset` for nobody, or with data of an open stream that nobody reads |
| `idle_framer` | `MCIdleFramer.cfg` | no send on a closed channel, no circular wait; calls return, the monitor goes down; frames arrive intact and the compression contexts agree (`FramedWriter`) |
| `connection` | `MCConnection.cfg` | ids in order, a shutdown that runs once and cuts off no stream but after a timeout or the peer's own end, no lost wake-up, sound pings; `CloseWait`, `Wait` and `Ping` return |
| `stream_close_race` | `MCStreamCloseRace.cfg` | *violated*: finding 1 |
| `stream_wait_after_reset` | `MCStreamWait.cfg` | *violated*: finding 2 |
| `serve_end_blocked` | `MCServeReads.cfg` | *violated*: finding 3 |
| `serve_set_priority` | `MCServePriority.cfg` | *violated*: finding 4 |
| `idle_cleared_timeout` | `MCIdleClear.cfg` | *violated*: finding 5 |
| `ping_shared_id` | `MCPingShared.cfg` | *violated*: finding 6 |

`CHECK_DEADLOCK FALSE` stands in every config: peers may fall silent,
applications may stop calling, and after the end nothing moves.  That nobody is
stuck who should not be is what the liveness properties are for, and for the
locks and channels of the framer also `NoCircularWait`.

### Bounds, and why they are enough

* **queue**: two slots and five insertions fill the queue, block the pusher and
  wrap through several wake-ups; three priorities allow an urgent frame before
  and after a lazy one.  One pusher and one popper is how Serve uses it.
* **stream**: `MaxCalls = 3` and `MaxFrames = 3` with three goroutines put any
  three calls in flight at once against, say, a REPLY, a DATA with FIN and a
  reset.  Every pair of methods that share a flag races.  The liveness run has
  two goroutines: one makes the calls that block, the other those that release.
* **serve**: two workers, two streams of the peer and one of ours between them, so
  that two streams share a worker (`streamId % FRAME_WORKERS`), six kinds of
  frames and queues of two.  Two frames allow SYN and DATA, RST or GOAWAY behind
  it, two frames of our stream, or one each of two streams; reads, `Close`, `Reset`
  and idle expiry fall anywhere between (436,526 states, under 2 minutes).  What
  three frames of one stream add is order, and that is proved for any number
  (`StreamsAreOrdered`, `GoAwayIsExact`); `serve_set_priority` shows that two are
  enough to reorder.
* **framer**: two writers and a setter fill `resetChan` (capacity two) while a
  third token is coming; three calls allow a set, a fire and a write, or three
  frames.  Blocks of size 2 and `MaxDataLength = 14` let a SYN_STREAM carry two
  blocks but not three; of the four frames one is refused by its reader for a name
  (`Host` in a request), one for its number of headers, and one has no headers
  (227,230 states, about a minute).
* **connection**: two goroutines make two calls between them, one creating,
  pinging or closing and waiting, the other all the rest, while the peer opens
  stream 2, goes away or hangs up at any time.  Ids 1 and 3, and a start at 3,
  reach the last id and the refusal after it; the peer's data comes on its own
  stream (`DataIds = {2}`); `PingWrap = 2` wraps with the second ping (498,730
  states, 3 minutes).  A third call multiplies the
  states beyond what the run can afford; the theorems cover it.
* **ping_shared_id**: two goroutines, one ping each.

The bounds on calls and frames stand in the guards of `Call`, `ReadFrame`,
`Receive`, `PushCall`, `Start`, `MayCall` and `PingCall` (`MaxPings` channels);
nothing else is cut off.  The theorems hold for every
value of them.

### Fairness

Weak fairness per goroutine: one that can take a step takes one.  That is what
the Go scheduler gives, and Go's mutex hands over to a waiter that starves.
Nothing is assumed of the peer (it may send nothing and never hang up) or of the
application (it may call nothing: no `Wait`, `Read`, `Close` or `Reset`).  The
read loop is fair only from the frame it has read on.  So `ServeEnds` starts
from `closeChan`, `ResetLetsServeEnd` from a call of `Reset`, and
`BlockedCallsReturn` from a closed `closeChan` or a reply: what closes it is the
subject of `ResetIsFinal` and `ReadersReachable`.  Fairness of a worker includes
that the handlers of the application return (`newHandler` in `HandleOther` and
`HandlerReturns`, the worker between two frames in the queue); fairness of a
writer that a write on the network does, with or without an error.

`ConnectionFairSpec` has the same for the goroutines in a call, Serve, the
shutdown and its inner goroutine, and for the worker that closes a ping's
channel; timers that are set fire; data of a stream that has left the table is
dropped, because whoever removes it also closes it.  The peer, the handlers of
streams, readers and whoever could receive a stuck `ErrReset` owe nothing.  So
`WaitersReturn` has to except four cases the code leaves open: the connection
never goes away, a worker stays stuck on `ErrReset`, a worker stays with data of an
open stream, or streams stay in the table with no timeout set (or were created
after Serve had cleaned up).  `FramedFairSpec` is that of `IdleFramer`, with
nothing asked of the other end.

`ServeEnds` excepts workers that stay stuck (`Stuck`): in `startChan <- ErrReset`,
which by itself is finding 3, or with data or headers of an open stream that
nobody reads.  The second is back-pressure that the code means
(`connection.go:583`), but it too keeps `Serve` from returning, since the clean-up
that would close the stream comes after `wg.Wait()`.  `ResetLetsServeEnd` says that
`Reset` frees it, and excepts the first only.

## 4. What the violated runs show

1. **A `Close` that races with the peer's FIN leaks the stream** (`stream.go:171`).
   `Close` finds `closeChan` open and does not remove the stream; the worker
   closes `closeChan` and finds `finished` unset, so it does not either; then
   `Close` sets `finished`.  Comments at `stream.go:174` and `connection.go:671`
   call such a stream fully closed and clean it up.
2. **`Wait` returns nil after a reset** (`stream.go:158`).  `ErrReset` is handed
   to one waiter; `startChan` is then closed, which tells every other one that
   the reply came.
3. **The end of Serve waits for `Wait`** (`connection.go:561`).  A reset of a
   stream without a reply blocks its worker until somebody calls `Wait`, although
   waiting is optional, so `wg.Wait()` of Serve does not return and no other
   stream's reader is unblocked.
4. **`SetPriority` reorders a stream** (`stream.go:219`).  Frames are given the
   priority the stream has when they are read, so a later frame can overtake.
5. **A cleared idle timeout still expires** (`connection.go:82`).  A tick that
   fired before `timer.Stop()` is received afterwards.
6. **Two pings may share an id** (`connection.go:283`).  `Ping` reads `pingId`
   before it takes `pingLock`.  The second call's channel replaces the first's in
   `pingChans`; the first then need not return before the connection ends, and
   when both echoes are handled at once one channel may be closed twice, which
   panics.  `PingSound` and `PingReturns` say that nothing else goes wrong.

## 5. What is proved

All proofs are checked by tlapm with Z3, Zenon and LS4.  The assumptions are the
named `ASSUME`s on the constants: `QueueAssumption`, `StreamAssumption`,
`ServeAssumption`, `IdleAssumption`, `FramedWriterAssumption`,
`ShutdownAssumption` and `ConnectionAssumption`.  They ask for naturals where the
code has counts, positive sizes, goroutines of different roles being different,
and an even number at which `pingId` wraps.  The number of goroutines, workers,
streams, frames and calls is arbitrary.

**PriorityFrameQueueProofs.**  `Invariance`: `TypeOK` and `Inv`, where `Inv` is
`Conservation /\ NoOvertaking /\ DrainLosesNothing` with `PushersGone` (after
`Drain` no pusher is in a call), without which a push could follow a worker's
exit, and `InsertIdsUnique` (no two entries have one number).  From it
`FramesConserved`, `PriorityIsFIFO`, `DrainIsComplete`.
`WakeupsReachTheWaiter` (`NoLostWakeup`) is proved for one pusher and one popper
only, which is how Serve uses a queue.  The shared `Cond` is safe then because
the queue cannot be full and empty at once, so the one waiter is always the right
one; with several of each kind that argument fails.

`QueueImplementsLanes` is the refinement: the heap, `Less` and `insertId`
implement bounded FIFO lanes per priority.  A lane of the mapping is
`Sorted` of the numbers its entries have.  `PutStep`: a new number is above all
others, so it comes last in its lane (`SortedAppend`); `TakeStep`: what
`heap.Pop` takes is the least of the first lane that is not empty, so it is that
lane's head (`SortedTail`).

**SortedSetsProofs.**  `Sorted(S)` is defined by ranks (the n-th element has
n - 1 smaller ones) and not by recursion, so that this prover can reason about
it: ranks are unique and onto (`RankUnique`, `RankOnto`), which makes `Sorted(S)`
a sequence of all of S in increasing order; adding a maximum appends, removing
the minimum takes the tail.

**StreamProofs.**  The inductive invariant has five parts besides the types:
`FrameInv` (which frame goes with which place in a method), `TerminalInv` (whoever
claims `finished` has the only right to write its FIN or RST_STREAM), `StartInv`
(whoever sets `replied` on the worker has the only right to use `startChan`),
`ResetInv` (what a reset has done at each point) and `EndingInv` (why a stream is
out of the table).  `EndsOnce` speaks of the four calls that claim `finished`;
`Cancel` and the FIN of `SendReply` and `SendHeader` do not test it, so a stream
can be ended twice on the wire with their help.  From these, `EndsOnce`,
`StartChanIsSafe`, `ResetLeavesNothing` and `TableIsFaithful` follow.
`DataArrives` (`NoDataLost`) adds why the remote side is closed (`ClosedInv`),
that data in the worker's hand finds the stream open and replied (`InHandInv`) and
that a reader that waits has read all there was (`SelectInv`).  It assumes
`OneReader`, that only one goroutine calls `Read` or `ReadData`; with two, one may
overwrite what the other has left.  `ReplyIsHeard` (`ReplyOnce`) rests on
`ReplyInv`: a single goroutine is between the test of `replied` and the write,
because it keeps `replyCond.L`; once a reply is written `replied` is set for good,
so nobody gets there or parks again, and `Broadcast` in the same critical section
empties the places where they parked.

**ServeProofs.**  `OrderInv` is the heart: along a stream's frames in the order
read, priorities do not decrease, because a stream's priority is fixed and goes to
7, the least urgent, when the stream is removed, and because a peer's stream id,
once refused or removed, is not accepted again.  It needs to know what the read
loop holds (`ReaderInv`), what is queued (`QueueInv`) and what was popped
(`LastInv`).  `PartitionInv` gives `OneHandlerPerStream`, `EndInv` the order of
the end, `IdInv` that `receivedStreamId` rests once `goneAway` is set, which is
why the unlocked read in `Close` is exact.  `ReadersInv` follows a stream out of
the table: it is closed, or in the hands of the reset handler, of `Reset` or of
the monitor's goroutine, who close it next (`ReadersAreReachable`).  From `IdInv`
also the action property `StreamsOpenInOrder` (`StreamsAreNew`; no run repeats
it): a stream is let in once, above all the ids before, and never after this side
went away.

`ServeImplementsMailboxes` is the refinement: partition, priorities, table and
drain together do what `StreamMailboxes` does, where each stream has a FIFO
mailbox and one handler.  The mailbox of the mapping is `Sorted` of the numbers of
the frames that are queued for the stream anywhere.  `OrderInv` makes the frame
that a worker pops the mailbox's head (`PopBegins`), `PartitionInv` makes its
handler the only one, and `EndInv` lets the abstract end begin with everything
handled (`AwaitEnds`).

**FramedWriterProofs**, first part, about `IdleFramer`.  `LockInv` (a goroutine
is between Lock and Unlock exactly if it holds the lock) and `DownInv` (the order
of the take-down) give `SendsAreSafe`; for the reader, which has no lock, that
`closeChan` is closed after its last `ReadFrame`.  With `DrainInv` (once the
monitor has left its select, a channel has its drainer until it is closed) they
give `NoDeadlock`, the end of issue 49: whoever is blocked on a full channel has
the monitor or a drainer at the other end, who wait for nobody.

**FramedWriterProofs**, second part, about both framers.  `FramesArriveIntact` and
`ContextsStayInStep` (a payload size is wrong only after a lost block, or for a
frame over the reader's limits) rest on the numbers of the blocks: `Follows(n, k,
s)` says that block n comes after those of the first k frames of s, `Carries` that
a payload holds the lost blocks since the frame before and then the frame's own.
`BufferInv` says this of `headerBuf`, `WireInv` of the frames on their way,
`ReadInv` and `TornInv` of the decoder; `BusyInv` and `HeldInv` tie a block in
`headerBuf` to the writer with `writeLock`, without which two writers' blocks
could share a frame.  `FramedImplementsIdle` carries the results about
`IdleFramer` over: `FramedSendsAreSafe` and `FramedNoDeadlock`.

**ShutdownProofs.**  `IdInv` (who writes a SYN_STREAM holds `nextIdLock`, and its
id is larger than all that were written) gives `IdsGoUp`; with `ReaderInv` (where
Serve is) `NoWakeUpIsLost` is inductive.  `ShutdownIsGraceful` needs `AwayInv`
(nothing is shut down before the connection has gone away), `FreshInv` (a stream
that is added is not one of those open at that moment: its id is new), `EndInv`
(once the inner goroutine has seen an empty table, those streams are gone for
good, and those cut off were evicted) and `HangUpInv` (with the network open,
Serve gets to its clean-up only when the peer has sent GOAWAY or hung up).  It
assumes that the peer's ids and ours are disjoint: the code does not check the
parity of a peer's id, and an id used by both sides would pass for the old stream.

`ShutdownRunsOnce` (`ShutdownOnce`) answers the comment "TODO Ensure this isn't
called multiple times" in `shutdown`: `OnceInv` follows a token, the right to end
the connection, from whoever sets `goneAway` through the goroutine it starts to
`close(s.shutdownChan)`.  At most one goroutine has it (`Ends`), and while one
does, `shutdownChan` is open and `hasShutdown` unset until its test.

**PingProofs.**  `ParityInv` (all our ids have the parity of the first),
`ChanInv` (a channel belongs to one call and is on the wire at most once),
`EntryInv` (the entry of an id on the wire is that of its call, or shared),
`ClosedInv` (what is closed was answered) and `OnceInv` (no two workers hold one
channel) are together inductive and give `PingsAreSound`.

**ConnectionProofs.**  A step of `Connection` is one of `Shutdown` or leaves its
variables alone, and to `Ping` it is one of its own or of its environment
(`closeChan` is closed once and stays so).  So the theorems of both hold of the
whole connection: `ConnectionIdsGoUp`, `ConnectionEndsGracefully`,
`ConnectionShutsDownOnce`, `ConnectionNoWakeUpLost` and `ConnectionPingsAreSound`.

## 6. What is only model-checked

* Liveness (`PushReturns`, `WorkersEnd`, `BlockedCallsReturn`,
  `ResetLetsServeEnd`, `ServeEnds`, `CallsReturn`, `MonitorGoesDown`,
  `WaitersReturn`, `PingReturns`): fairness and `ENABLED` are out of the prover's
  reach.  The safety part of three of them is proved: `NoCircularWait` for
  `CallsReturn`, `ReplyOnce` for `BlockedCallsReturn`, `ShutdownOnce` for
  `WaitersReturn`.

Every invariant and every refinement that a passing run checks is also a theorem.
Induction over data and RECURSIVE operators are out of reach as well; the
modules that are proved about have neither.

## 7. What is abstracted and what is not modelled

* The contents of frames, headers and data; `Read` into a slice shorter than a
  frame is the one bit `unread`.  `NoDataLost` is checked with one reading
  goroutine: reads that run at once share `unread` without a lock, and the code
  promises them nothing.
* `framer.WriteFrame` may fail at any time and is then a step that writes
  nothing.  It does not block for ever: a network that neither takes bytes nor
  fails would hold `writeLock`, and `CallsReturn` and what follows from it, up.
* A frame that the network tore ends the reader (`torn`): nothing arrives behind
  it, as after a broken connection.
* The handler of a new stream, which the application supplies, returns.  While it
  does not, its worker and the streams of its partition wait; `PushReturns`,
  `WorkersEnd`, `ResetLetsServeEnd` and `ServeEnds` rest on this.
* `Refuse` and `handleResetFrame` set `replied` without waking the writers that
  wait in `replyCond`; no comment says what a refusal means for them, so this is
  a hazard on the list and not a finding.
* Several goroutines in `SendReply`: the run has one, `ReplyIsHeard` covers any
  number.
* A `FindStream` that sleeps when Serve ends: its id can no longer come, and
  nobody wakes it.  `SleepersHaveReason` is about wake-ups that are due and says
  nothing of it.
* A peer that does not follow SPDY, apart from bad stream ids.  In particular it
  echoes a ping at most once (a second echo could close a channel twice), and its
  encoder is the one of package `spdy`.  Pings that share an id (finding 6) are
  excepted from `PingSound` and `PingReturns`.
* SETTINGS and WINDOW_UPDATE frames: the connection writes none and no handler
  takes them.  Header blocks without compression: `NewFramer` does not offer them.
* A header block that cannot be sent is not an error a connection recovers from:
  it stays in `headerBuf`, the next header frame carries both, and the other end
  either fails or reads the wrong headers once (`FramesIntact` says exactly that).
* `WriteData` without FIN after `Close` is not refused by the code, nor here.
* Where `Shutdown` and `Stream` meet: that a stream leaves the table is any step
  in `Shutdown` (`StreamEnds`) and explained in `Stream`.
* The accessors and `net.Conn` methods that forward to the connection, the header
  dictionary (a constant), logging, the sample handlers, zlib (a library).

## 8. The plan

The order was: queue, stream, Serve, idle-aware framer, each with its proofs;
then the stream ids with the shutdown, the pings, both in one connection, and the
SPDY framer inside the idle-aware one, again with proofs.  What is left, in
order:

1. `HalfClose`, an abstract stream (each direction open or closed, a reset closes
   both), with `Stream` shown to implement it, and the step theorem for it.
2. `Session`: two ends, two streams and the network between them, with
   `MirrorStreamHandler` as the application: the peer that `Stream` and `Serve`
   assume, discharged.
3. `Shutdown` composed with `Serve`, so that one model has both the frames and
   the goroutines that wait for the end.
4. SETTINGS and WINDOW_UPDATE in `SpdyFramer`, and frames of a foreign encoder,
   for the decoder's length checks.
