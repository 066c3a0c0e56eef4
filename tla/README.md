# TLA+ models of GECO-NET-CORE

GECO-NET-CORE is a UDP networking library (`src/src`, `src/include`), a rewrite
of RakNet's peer interface.  This directory models the concurrency, the
connection set-up and the data structures of `network_application_t`, checks the
models with TLC and proves the safety of all but one of them with TLAPS.  Line numbers
are those of the commit in `src/`.

## 1. The system

| component | state | operations | correct when |
|---|---|---|---|
| lock-free queue (`JackieSPSCQueue.h`) | ring, `m_nIn`, `m_nOut` (wrapping) | `PushTail`, `PopHead`, `Size` | one producer and one consumer see a bounded FIFO; no cell is written while it is read |
| receive pipeline (`geco_application.cpp` 296-308, 433-462, 2090-2116, 2673-2729) | per socket: pool of `recv_params_t`, `allocRecvParamQ`, `deAllocRecvParamQ` | receive, push, process, return, reclaim | a buffer has one owner, datagrams keep their order, none is left behind |
| user pipeline (490-511, 614-663, 1981-2075, 2574-2621, 2799-2837) | `allocCommandQ`, `deAllocCommandQ`, `allocPacketQ`, `deAllocPacketQ`, `msgid` | `run_cmd`, `Connect_`, `fetch_packet`, `reclaim_packet`, `ProcessAllocCommandQ`, `AllocPacket` | calls return, packets arrive and say what happened |
| recursive mutex (`JackieSimpleMutex.cpp`) | `m_mutex`, `m_threadID`, `m_count` | `Lock`, `Unlock` | exclusion and reentrance, although `Lock` reads two fields without the mutex |
| connection requests (892-967, 1380-1979, 2789-2936) | `connReqQ`, `connReqQLock`, `connReqCancelQ` | `Connect`, `CancelConnectionRequest`, `ProcessConnectionRequestQ`, `ProcessConnectionRequestCancelQ`, `OnConnectionReply1`, `OnConnectionReply2`, `OnConnectionFailed` | one request per address, each ends, no thread is blocked for ever |
| retry schedule (1868-1974) | `requestsMade`, `nextRequestTime`, MTU index | one retry, with its three outcomes of `Send` | it ends, and the MTU only shrinks |
| remote system table (968-1261, 2168-2345, 3031-3288) | slots, guid and address lookup, hash chains | assign, find, re-address, dereference | lookups agree with the slots, one slot per peer |
| datagram dispatch (695-890) | the verdict `isUnconnectedRecvPrrams` | `ProcessOneRecvParam`, `IsOfflineRecvParams` | offline messages are handled, data reaches the reliability layer, whatever came before |
| ban list (3478-3591) | addresses with expiry | `AddToBanList`, `IsBanned` | a ban holds until it expires, and nobody else is refused |
| connection handshake (968-1538) | what client and server believe | four messages | both sides decode what the other wrote |
| bit stream (`geco-bit-stream.*`) | buffer, two positions | `Write`, `Read`, `WriteMini`, `ReadMini`, ... | reading gives back what was written |
| memory pool (`JackieMemoryPool.h`) | rings of usable and unusable pages | `Allocate`, `Reclaim`, `Clear` | no cell is handed out twice, none is lost, empty pages are freed |
| thread life cycle (130-431, 569-693, 2711-2749) | `endThreads`, two activity words, `bindedSockets` | `startup`, `stop_recv_thread`, `stop_network_update_thread`, thread loops | calls return, threads end, nothing freed is used |
| transport layer, sliding window | none: the functions are empty in this commit | - | - |
| sockets, secure handshake, plugins, containers, time, addresses | - | thin wrappers, vendored cryptography, user callbacks | - |

Three kinds of thread interact.  A **receive thread** per socket blocks in
`RecvFrom`, fills a `recv_params_t` from its own pool and pushes it to the
network thread.  The **network thread** repeats `RunNetworkUpdateCycleOnce`:
reclaim packets, run the user's commands, process datagrams (which may raise
packets and change the request queue), cancel requests, retry requests.  The
**user thread** posts commands, fetches packets and calls `Connect` directly.
Objects never change their owner: a consumer sends the pointer back through a
second queue, and the allocating thread frees it ("who alloc who dealloc",
`geco_application.cpp:2656`).  The only lock of the connection path is
`connReqQLock`.

What is hard to test here: queues that are full (a push spins, nobody is told),
loops over a queue that shrinks while its index grows, a lock that is released
too often or not at all on an early return, counters at the limits of their
type, replies that come late or twice.  `PROJECT.json` lists them under
`hazards`, each at its line.

## 2. Modules

| module | models | used by |
|---|---|---|
| `BoundedFIFO` | what a queue promises: a bounded FIFO with atomic put and take | refined by `SPSCQueue` |
| `SPSCQueue` | `JackieSPSCQueue`, one step per shared access | `Primitives_proofs`, `MCSPSCQueue` |
| `DatagramPipeline` | receive threads, pools, network thread | `DatagramPipeline_proofs`, `MCDatagramPipeline` |
| `UserPipeline` | user thread and network thread, four queues | `UserPipeline_proofs`, `MCUserPipeline` |
| `SimpleMutex` | the POSIX `JackieSimpleMutex`, one step per access | `Primitives_proofs`, `MCSimpleMutex` |
| `ConnectionRequests` | `connReqQ` under `connReqQLock` | `ConnectionRequests_proofs`, `MCConnectionRequests` |
| `PeerRegistry` | what the table of remote systems promises: peers by address | refined by `RemoteSystems` |
| `RemoteSystems` | slots, hash chains, both lookups and the handlers that change them | `RemoteSystems_proofs`, `MCRemoteSystems` |
| `RequestSchedule` | retries of one request | `ConnectionRequests_proofs`, `MCRequestSchedule` |
| `BanList` | `AddToBanList` and `IsBanned` | extended by `DatagramDispatch` |
| `DatagramDispatch` | what becomes of one datagram, with the ban list | `DatagramDispatch_proofs`, `MCDatagramDispatch` |
| `ThreadLifecycle` | user, receive and network threads from start to stop | `ThreadLifecycle_proofs`, `MCThreadLifecycle` |
| `CellAllocator` | what a pool promises: each cell has one user and lies in memory that stays | refined by `MemoryPool` |
| `MemoryPool` | `JackieMemoryPool` with its page lists | `MemoryPool_proofs`, `MCMemoryPool` |
| `BitStream` | `geco_bit_stream_t` | `MCBitStream` |

`Primitives_proofs` extends the queue and the mutex, `ConnectionRequests_proofs` the
requests and their schedule; so that their names do not meet, the specifications of
`SimpleMutex` and `RequestSchedule` are `MutexSpec` and `ScheduleSpec`, and their type
invariants `MutexTypeOK` and `ScheduleTypeOK`.

The models compose by abstraction.  `SPSCQueue` shows that the ring is a bounded
FIFO for one producer and one consumer, and the two pipelines use queues that are
bounded sequences, with a push that is enabled only when there is room (the code
spins); `allocCommandQ` alone has two producers, and `UserPipeline` has the steps
of its pushes.  `SimpleMutex` shows
what `Lock` and `Unlock` do when they are used in pairs; `ConnectionRequests`
makes each of them one step, and keeps what they do when they are *not* used in
pairs.  `RequestSchedule` has the arithmetic that `ConnectionRequests` sees as
"some progress towards the last attempt", or as none (`RequestStuck`).  `MemoryPool` shows that the pools the
pipelines draw from are sets of free buffers.  `DatagramDispatch` runs the actions of
`BanList` together with its own; the handlers it selects are those of
`ConnectionRequests` and `RemoteSystems`.  `ThreadLifecycle` has the threads of the
receive pipeline, reduced to the lengths of the queues between them.

**SPSCQueue.** A push samples the indices, copies the element, publishes
`m_nIn`; a pop does the same with `m_nOut`.  Indices are counted in elements and
wrap at `Wrap` (2^32 divided by the element size in the code), a multiple of
`Cap`.  `PopHead` is only called after `Size()` was positive, as in all callers.
The size passed to the constructor is in elements, but
`nSize * sizeof(element)` is already a power of two for pointers, and then
`m_nSize` stays `nSize` *bytes* (`JackieSPSCQueue.h:24`): the default queues of
128 hold 16 pointers.  That is why full queues matter below.

**DatagramPipeline.** A buffer is in its pool, held by its receive thread, in a
queue, or held by the network thread.  `ReclaimAllJISRecvParams` and
`ProcessAllocJISRecvParamsQ` compare a growing index with a shrinking `Size()`,
so a pass handles about half of the queue; both loops are modelled round by
round with their index.  The buffer goes back to the queue numbered by the *inner* index
(`geco_application.cpp:2113`), which may be another socket's, or past the array:
then the model lets the push return with the buffer in `lost`, where no thread finds
it again, or never return.  After its push the receive thread calls the user's
`incomeDatagramEventHandler` with the buffer (2683-2687), which the network thread may
have by then: `hbuf` is that pointer, and the handler's return a step of its own.
Datagrams carry numbers modulo `Numbers`, enough to tell order and repetition
within the `Cap + 2` that can be under way.

**UserPipeline.** Commands are `connect` or `other`.  A connect command is carried out
by calling `Connect_` (2061), which posts a connect command again, from the network
thread: the ring `allocCommandQ` then has two producers and `commandPool` two users.
Its pushes are therefore three steps (sample, copy, publish), two publications may
count as one, and a race in `commandPool` ends in `undefined`.  The model stops there,
when the ring is overrun, and when a cell is taken a second time.  Packets carry the message id
that was meant and where their `data` pointer refers to: the member `msgid`, or
memory that is reused at once (a local, the receive buffer).  Of the two return
queues only the length matters, since nobody looks at what comes back.

**SimpleMutex.** Any thread may nest locks up to `MaxDepth`.  The pthread mutex
is external: lock waits until it is free.

**ConnectionRequests.** The lock is a record of `m_count`, `m_threadID` and
whether the pthread mutex is locked.  A task of the network thread is a
datagram from a peer, the retries, or the cancellations.  Every path is there
with the `Unlock`s it really makes: the early return of `Connect` for a
pending address makes none (2926), the retry loop makes one in each round after a single `Lock`
(1977), `OnConnectionReply1` makes one at the match and one at the end,
`OnConnectionReply2` makes two on a wrong answer.  Each `Unlock` is a step, and so are
the rounds of every loop and Connect's search and push, so that a thread that does not
have the lock gets in between.  A reply's other fields decide which
path is taken, and every path is possible.  `connReqQ` is a plain array; a removal that
meets Connect's search or push has the outcomes that reading a deleted request
(`RemovedWhileRead`) and moving `tail` twice (`RemovedWhilePushed`) have, and the
ghost `raced` remembers it.  Not modelled are the read of a cell that `PushTail`
is just filling and the growth of the array beyond 8 requests.

**RemoteSystems.** Each field of a slot that decides anything is a function of the
slot number; a hash chain is a sequence of slot numbers.  `OnConnectionRequest2`
is one action per outcome, `OnConnectionReply2` one per state of the table and quality
of the answer (the request it answers is the subject of `ConnectionRequests`): after a
bad answer the handler returns and keeps the slot it took (1653-1690), which then looks
like an incoming connection; the ghost `unanswered` has these slots.  Guids are read
from the datagram as they are (1043) and may be `JACKIE_NULL_GUID`, which a lookup by
guid never finds (2223).  The user's
`BCS_SEND` sets the mode, `BCS_CHANGE_SYSTEM_ADDRESS` the address; that the new
address is free is assumed of the caller, since the code would then have two slots
with one address.  The model is of the build without assertions: with them, the
assertion at 2278 stops the program at every change of address, although the
comment above it says "The system might be active if rerouting".  Left out are the
branches of a secure server, whose cookie check never succeeds, and the flood check, because
`limitConnFrequencyOfSameClient` is only ever false.

**RequestSchedule.** All arithmetic of `requestsMade`, with its cast to
`unsigned char`, for one request and every `attemptTimes`.

**BanList.** The scan of `IsBanned` is one action per round: each round reads the
clock again, a round that compares an entry increments the index twice (3488 and
3533), and one that removes an expired entry moves the last one into its place and
passes over it.  The end of a ban has 32 bits and the clock 64; `Wrap` stands for
2^32.  `left` and `cut` record what the user asked for and whether the end was cut;
no step depends on them.

**DatagramDispatch.** A datagram is its handler, how its length compares with what
the handler tests, whether it has `OFFLINE_MESSAGE_DATA_ID` where the handler looks,
and how it was sent.  A refusal of the library may be longer than `OnConnectionFailed`
looks at: `WriteMini` writes a guid without leading zero bytes in 65 bits (719, 1174,
1209), which makes 26 bytes against a bound of 25 (895-899).  A handler whose length test fails does not assign the
verdict, and the member keeps that of the datagram before.

**ThreadLifecycle.** One step per access to a shared word.  The program is followed
until it uses a freed object (`undefined`).  Waking a receive thread, giving up after
a second, a socket that cannot be bound and a thread that is not created are all there.
`Bind` repeats `socket()` and `bind()` until both succeed, also for a family or a host
that never will, so the tests behind it (235-256) are not reached.  The network thread
returns each buffer to the queue of its inner index and spins when that is full.  (The
push past the last queue needs `Cap > NSockets`; it happens in run `receive` and in the
proofs, not in run `lifecycle`.)

**MemoryPool.** Links are functions from page to page, and an operation writes
exactly the links that the code writes, in particular nothing when a list becomes
empty.  A failed allocation inside `InitPage` leaves the page in the list (143); the
retry takes a cell from that page and returns an uninitialised pointer (115), any cell
in the model, which follows the program no further.

**BitStream.** The buffer is a sequence of bits as long as the memory there is, so a
write past the end shows as a position outside it.  New heap memory is all 0 or all
1, and a reset leaves everything in place.  `WriteBits` has the closed form `Put`:
the begun byte is extended with `|=`, the others are set.  A source may be left
aligned; then a partial last byte brings its low bits into the stream behind the
writing position (418).  The program passes `rightAligned = false` with 24 bits only
(`geco-bit-stream.h` 1491, 1496), and what is read after such a rest is not followed.
A field is a list of
calls of `WriteBits`, each of which may grow the buffer.

## 3. Runs

Passing runs:

| run | instance | what it shows |
|---|---|---|
| `ring` | three cells, wrap at 6 or more, two elements | the ring implements `BoundedFIFO` (`ImplementsFIFO`); the copies of a push and a pop never meet in a cell (`NoCopyRace`); a pop never spins (`PopNeverSpins`); a push ends while the consumer runs (`PushReturns`) |
| `receive` | one socket, queues of 2, pool of 6 | each buffer that is not lost has one owner, and the receive thread does not fill it again while the handler looks at it (`OneOwner`); `InOrder`; what is queued is processed unless a push past the array stops the network thread (`QueuedIsProcessed`); besides the lost buffers never more than `Cap + 2` are out (`BufferDemand`), which is what keeps the two queues from filling together |
| `user` | queues of 2, one command per fetch, two packets per cycle, two ids | the only thing that can keep a call from returning is the deadlock `Deadlocked` (`UserCallsReturn`); packets alone reach it only if more than `(Cap + 1) \div 2` are raised in one cycle (`PacketDeadlockNeedsBurst`); an id in `msgid` is misread only while a later packet is on its way (`MisreadOnlyIfOvertaken`); every command is taken, and taken once, unless the pushes of the two producers overlapped (`CommandsKeptUnlessOverlapped`) |
| `mutex` | three threads, nesting depth 3 | `MutualExclusion` and `NoSelfDeadlock`, although the owner is read without the mutex |
| `requests` | two addresses, three calls, `m_count` modulo 4, no plugin | no two requests to one address unless a removal met Connect at the queue (`OneRequestPerAddress`); requests end and `Connect` returns, each with the exceptions its name states (`RequestsLeaveUnlessLocked`, `ConnectReturnsUnlessKept`) |
| `remote` | three slots, three colliding addresses and one that does not, one guid and the null guid, one bad answer | the chains hold exactly the active slots and lookups find them (`TableExact`); no two incoming peers share a guid (`IncomingGuidsUnique`) and a repeated request gets its answer again (`ReplyRepeated`), the null guid and the slots of bad answers excepted; the table implements `PeerRegistry` (`ImplementsRegistry`) |
| `schedule` | `attemptTimes` 0 to 255, all outcomes of `Send` | `requestsMade` never overshoots (`ScheduleTypeOK`); the MTU never grows (`MTUNeverGrows`); the request ends unless 10040 comes for ever or `attemptTimes` is 255 (`GivesUpUnlessTooLong`) |
| `pool` | four pages of three cells, `MAX_FREE_PAGES` 2 | the two lists are closed rings of exactly the right pages; each cell is free or handed out (`PoolExact`); at most `MAX_FREE_PAGES` empty pages stay (`EmptyPagesBounded`); the pool implements `CellAllocator` until a retry after a failed `InitPage` (`ImplementsAllocator`) |
| `dispatch` | two senders, three patterns, bans of 1, 2 or for ever, 32-bit time wraps at 3 | a ban in force is in the list once, with its end (`BansExact`); only banned senders are refused (`RefusedOnlyIfBanned`); a ban is evaded only where the scan is blind (`EvadesOnlyWhereBlind`); data and offline messages are mistaken only in the ways the properties list (`DataLostOnlyByStaleVerdict`, `OfflineMissedOnlyWhereBlind`) |
| `lifecycle` | two sockets, queues of 1, two calls of `startup` | `startup` returns unless a socket cannot be bound (`StartupReturnsUnlessUnbindable`); a receive thread gets its datagram queued unless the network thread has ended or spins on the return queue of a sleeping receive thread (`PushReturnsUnlessNetworkStops`); stopped threads end unless one of these queues is full (`StoppedThreadsEnd`); a stop that saw the count 0 leaves only threads that had not begun (`StoppedThreadsAreGone`); `active()` is true only while all threads run, unless one was not created (`ActiveMeansRunning`); sockets are freed once, unless `startup` is called again (`SocketsFreedOnce`) |
| `bitstream` | bytes of 4 bits, fields of all kinds, three writes with resets in between | fields end for the reader where their writing ended and are read back, except the values that `WriteMini` halves (`ReadsBack`); the tail of the begun byte is clear and no write leaves the memory (`BufferSound`) |

Each module has a type invariant, named `TypeOK` in most.  Most runs check it as the
first conjunct of an invariant about the module's structure, such as `OneOwner`, `TableExact` (with
`ChainsExact` and `LookupFindsActive`), `PoolExact` (with `ListsExact` and
`CellsAccounted`), `BansExact` (with `BansKept`) or `BufferSound` (with `TailClear`);
all but that of `BitStream` are also proved.

One run is expected to fail, with its `finding` in `PROJECT.json`:

| run | what happens |
|---|---|
| `receive_two` | `ReturnsToItsThread`: with two sockets a buffer returns to another receive thread's pool, or past the queues |

Where the code departs from what it says, the property states the exact exception,
so that TLC checks that there is no other:

- *Second Connect.* `Connect` to a pending address keeps `connReqQLock` (2926, the
  `Unlock` is commented out); the network thread blocks (`LockLeft`), and with it the
  user's next call once `m_count` has wrapped to 0 and no longer says who has the lock
  (`LockedOut`).
- *Lock released early.* The network thread uses `connReqQ` without the lock (1977,
  1531); a removal while Connect searches or pushes makes it skip a request, so that
  the queue may have two for one address (`raced`).
- *Two producers.* A push of the user that overlaps with the network thread's
  posting of a connect command loses or repeats commands (`overlapped`).
- *Two sockets.* The buffers of a busy socket fill the return queue of an idle one, whose
  thread sleeps in `RecvFrom`: the network thread spins at 437 and the busy receive
  thread behind it (`NetworkSpins`).  Stopping does not help: the receive thread that is
  woken leaves without another reclaim.
- *Plugin loop.* It overwrites the index of the loop over the requests (1531):
  without plugins a reply that matches the second request sends
  `ID_OPEN_CONNECTION_REQUEST_2` for ever (`Resending`).
- *attemptTimes 255.* `requestsMade` is an `unsigned char` and never equals 256.
- *Packets.* The bytes of a packet are variables of the network thread
  (`MisreadOnlyIfOvertaken`); of a local (1880) or a receive buffer (956) nothing
  can be said.
- *Bans.* A datagram gets past a ban at an even place of the list, after a removal in
  the same scan, or when the end of the ban was cut to 32 bits, although
  `geco_application.h:550` says "Bans an IP from connecting".
- *Stale verdict.* A connected system's datagram whose first byte selects a handler,
  and which is too short for it, is taken for what the previous datagram was.
- *Incompatible version.* `ID_INCOMPATIBLE_PROTOCOL_VERSION` is never recognised:
  its second byte is the version (1286), and the handler looks for the id there (901).
- *Long refusals.* A refusal with a full-width guid has 26 bytes and is not looked at; the
  verdict on the datagram before it decides.
- *Null guid and bad answers.* Peers that send the null guid all get slots; a bad answer
  leaves its slot taken.
- *Failed InitPage.* The page stays in the list, and the retry returns an uninitialised
  pointer (`JackieMemoryPool.h:115`).
- *Stop.* `endThreads` ends the network thread as well, so a receive thread on a full
  queue never ends; a receive thread that begins late is in nobody's count (394).
- *Start.* `Bind` never gives up (`network_socket_t.cpp:158`), whether a port is in use
  or a family or host will never do;
  `bindedSockets` is never emptied, so a second `startup` frees and uses old sockets;
  `End()` is empty, so a failed `startup` leaves the application active.
- *WriteMini.* It shortens a low byte with upper half 0000 or 1111
  (`geco-bit-stream.cpp:593`), but `ReadMini` fills in the half of the sign:
  an unsigned 0xF5 comes back as 5, although `geco-bit-stream.h` 827 and 1698 say
  "lossless".  `ReadsBack` claims nothing of these values.

Other behaviours the models have, which no run isolates:

- *Connect command.* `BCS_CONEECT` calls `Connect_`, which posts `BCS_CONEECT` (2061,
  2836): the command goes round for ever and no request is made, although
  `geco_application.h` 458-482 describes a connection.
- *Lost buffers.* With one socket every datagram after the first of a pass costs a
  buffer for good (action `ReclaimPastTheQueues`).
- *Full queues.* `Deadlocked` is reachable in run `user`: the default queues of 16
  pointers deadlock the user in `reclaim_packet` with the network thread when 9
  packets are raised in one cycle; commands posted without `fetch_packet` in
  between block both threads; and `Connect_` can make the network thread wait
  for room in the queue it alone empties.
- *Full table.* When no slot is free but fewer than `maxConnections` peers are in
  mode `CONNECTED`, the server still answers `ID_OPEN_CONNECTION_REPLY_2` (action
  `RequestWithoutSlot`); `geco-msg-ids.h:80` says "Connection slot allocated if
  cookie is valid, server is not full".  Slots are never freed, and
  `ReplyRepeated` depends on that: a guid is found at its lowest slot.
- *Wrapped lock.* After an `Unlock` too many, `m_count` passes below zero; the
  network thread's next `Unlock` then only decrements it and the mutex stays
  locked (`LockKept` in run `requests`).
- *Cancel.* `ProcessConnectionRequestCancelQ` compares each request with an
  address it never assigned (1821) and never empties its queue, so no request is
  ever cancelled.  The model keeps the length of that queue only.
- *Schedule.* `attemptTimes` below 3 divides by zero (action `DivideByZero`); a
  slow send just before the lowest MTU ends the request without trying it (1963);
  error 10040 at the lowest MTU sets `requestsMade` to the same value for ever.

### Bounds

Capacities of 2 or 3 give a full queue, an empty one and, with the loops that
handle half, a remainder.  In `receive` the pool has two buffers more than
`BufferDemand` allows, so the bound is not met for lack of buffers while one is lost and
another can still be taken.  In `user`
two packets in a cycle are one more than `(Cap + 1) \div 2`, so the deadlock
happens.  `MaxCommands` bounds the commands between two calls of `fetch_packet`,
not the run.  In `requests` three calls give two pending requests and a
second call to a pending address, and a call after `Connect` kept the lock or `m_count`
wrapped; one stage of the schedule (`Attempts` = 0) is enough for a retry that makes
progress, one that makes none, and the failure; `m_count` modulo 4 lets it wrap after few
extra `Unlock`s and pass through all its values, as 2^32 would after many.
A cancellation is never taken from its queue,
so one (`MaxCancels`) is handled again and again.  In `remote` three colliding
addresses give chains with a first, a middle and a last entry, the fourth address
lets a slot change its chain, and one guid and the null guid give pairs of slots with
equal, different and null guids; `MaxBadAnswers` = 1 leaves two slots that bad answers have not touched.  `schedule` has no bound but
the type of `attemptTimes`.  In `pool` four pages are two more than
`MAX_FREE_PAGES`, so surplus pages and lists with a first, a middle and a last page
occur; pages are symmetric.  In `dispatch` the clock runs to 4, past the wrap at 3,
and three patterns give a scan that skips and one that removes.  In `lifecycle` two
sockets let one receive thread be late while the other is counted, or sleep while its
return queue is full, and a second `startup` meets the sockets of the first.  In `bitstream` bytes of 4 bits keep halves
and partial bytes; three fields cross two byte boundaries and grow the buffer by
doubling and by the limit; `MaxWrites` counts across resets, so the third write can
meet what the first two left.

`CHECK_DEADLOCK FALSE` stands where the system really may stop: the network
thread in the out-of-range push, the deadlocks above, a blocked lock, the states
`undefined` of `pool` and `lifecycle`, and the bound on writes in `bitstream`.

### Fairness

- `ring`: the consumer keeps calling `PopHead`, the producer finishes what it began.
- `receive`: weak fairness of the network thread and of each receive thread
  except in `RecvFrom`, which may block for ever; the user's handler returns.  The network thread polls in a
  loop with a timed wait, so it always comes back.
- `user`: both threads run and the user keeps calling the library; no single
  action is favoured.
- `requests`: a started task goes on.  A waiting thread gets a lock that is free
  again and again (strong fairness of `ConnectLock`): the network thread sleeps
  between its cycles, outside the lock.  `ProcessConnectionRequestQ` is called in
  every cycle and every `nextRequestTime` passes (strong fairness of the
  retries).  Nothing makes a retry progress; `RequestsLeaveUnlessLocked` excepts
  behaviours in which retries without progress never stop.
- `schedule`: time passes and the queue is polled.
- `lifecycle`: a started call of `startup` or `stop_recv_thread` goes on, and every
  thread that can take a step takes one.  Datagrams need not arrive and ports need not
  become free.

## 4. Proofs

Each theorem holds for every value of the constants that satisfies the named `ASSUME`
of its module, which says no more than the code does: capacities and counts are
positive, `Wrap` is a multiple of the capacity (power-of-two ring and index) and large
enough for the full ring, "none" values are not members of their sets,
`attemptTimes` is an `unsigned char`, every address has a bucket, there are finitely
many pages and a page has at least two cells (which the code asserts).  One theorem has a
hypothesis of its own, `NSockets = 1` (see `PoolDemandBounded`).

| module | theorem | property of a run |
|---|---|---|
| `Primitives_proofs` | `RingTypeOK`, `RingNoCopyRace`, `RingPopNeverSpins`, `RingImplementsFIFO` | `NoCopyRace`, `PopNeverSpins`, `ImplementsFIFO` |
| `Primitives_proofs` | `MutexCountBounded`, `MutexExcludes`, `MutexReentrant` | `MutualExclusion`, `NoSelfDeadlock` |
| `ConnectionRequests_proofs` | `RequestsOnePerAddress` | `OneRequestPerAddress` |
| `ConnectionRequests_proofs` | `RequestsMadeBounded`, `ScheduleMTUNeverGrows` | `ScheduleTypeOK`, `MTUNeverGrows` |
| `DatagramPipeline_proofs` | `BuffersHaveOneOwner`, `ProcessedInOrder`, `PoolDemandBounded` | `OneOwner`, `InOrder`, `BufferDemand` |
| `UserPipeline_proofs` | `PacketDeadlockOnlyByBurst`, `MisreadOnlyOvertaken`, `CommandsKept` | `PacketDeadlockNeedsBurst`, `MisreadOnlyIfOvertaken`, `CommandsKeptUnlessOverlapped` |
| `DatagramDispatch_proofs` | `BanListExact`, `RefusedAreBanned`, `EvasionsAreBlind`, `DataLossExplained`, `OfflineMessagesHandled` | `BansExact`, `RefusedOnlyIfBanned`, `EvadesOnlyWhereBlind`, `DataLostOnlyByStaleVerdict`, `OfflineMissedOnlyWhereBlind` |
| `ThreadLifecycle_proofs` | `StopLeavesNoThread`, `ActiveApplicationRuns`, `FirstStartupFreesOnce` | `StoppedThreadsAreGone`, `ActiveMeansRunning`, `SocketsFreedOnce` |
| `RemoteSystems_proofs` | `RemoteTableExact`, `RemoteIncomingGuidsUnique`, `RemoteReplyRepeated`, `RemoteImplementsRegistry` | `TableExact`, `IncomingGuidsUnique`, `ReplyRepeated`, `ImplementsRegistry` |
| `MemoryPool_proofs` | `PoolListsAndCellsExact`, `PoolKeepsFewEmptyPages`, `PoolImplementsAllocator` | `PoolExact`, `EmptyPagesBounded`, `ImplementsAllocator` |

The arguments:

- **Ring.**  The inductive invariant `RingInv` says that `m_nIn - m_nOut`, taken modulo
  `Wrap`, is the number of elements and at most `Cap`, that a producer past its sample
  still has a free cell and that it has copied its element there, and the same
  for the consumer.  It is needed because the
  sampled space is used two steps later: it can only have grown.  The refinement
  maps the cells between the indices to the FIFO's sequence; a push takes effect
  at the step that publishes `m_nIn`, a pop at the one that publishes `m_nOut`.
- **Mutex.**  The invariant `Ownership` ties the three
  fields to the program counters; its point is that `m_threadID` is written only
  under the mutex, so an unprotected read equal to one's own identifier is never
  stale.
- **Requests.**  `QueueInv` says that the queue has no address twice and that Connect,
  when it searches, has passed no request to its own address, and when it pushes there
  is none (`Searched`); this is needed because search and push are steps apart.  The
  network thread can break `Searched` only by a removal, which moves requests under the
  search; with Connect at the queue that is the exception of the property (`raced`), so
  the lock, which does not prevent it, plays no part in the argument.  `Indexed` says
  that the network thread's index is never below the first place.
- **Schedule.**  `MTUFollows` makes `MTUNeverGrows`
  inductive: the next request will not use a larger MTU than the last, because each
  of the four assignments to `requestsMade` increases it or ends the request.  With
  255 the counter wraps, and both the property and the invariant say nothing of the
  MTU there.  The nonlinear facts about division by the attempts per MTU are separate
  lemmas.
- **Receive pipeline.**  `OneOwner` counts owners, which no step can be argued about
  directly.  `OwnerInv` says instead that the pools, the threads and the queues
  (`Contents`) partition the buffers and that no queue has a pointer twice; lemma
  `Move` shows once that moving one buffer keeps a partition, and every action is such
  a move, the lost buffers being one more place.  This holds for any number of sockets,
  although a buffer may return to another socket's pool.  `OrderInv` adds that the numbers are consecutive from the last
  datagram processed through the queue to the one in hand; ownership is needed
  there, since an overwritten buffer would break the sequence.  `Demand` bounds the
  buffers that are out by where the receive thread is in its pass.  It needs
  `NSockets = 1`: with more, a pool's buffers go elsewhere and the bound fails.
- **User pipeline.**  `RoomMade` follows a pass of `ReclaimAllPackets` round by round: a
  pass ends when it has made as many rounds as packets are left on their way back, so
  after it at most three halves of a queue are out, plus what the cycle raises.  Two full
  queues then need more than `(Cap + 1) \div 2` packets in one cycle.  `MsgidIsLatest`
  says that `msgid` has the id of the last packet raised with a pointer to it.  For
  `CommandsKept`, as long as no two pushes overlapped at most one thread is past its
  sample, so the room it saw is still there and the cell it copies to is the first
  behind `m_nIn`.
- **Ban list and dispatch.**  `BanInv` has one entry for each pattern, the entry of
  every ban in force with its end (`InForceListed`), no entry whose end is later than the user
  asked (`EntriesEnd`), and the parity of the scan (`ScannedOdd`): as long as nothing was removed the index
  is even, and all entries at odd places before it are no match.  The last is what makes
  `EvadesOnlyWhereBlind` exact.  The two properties of the dispatch need no invariant
  beyond types; their content is the case analysis over all handlers.
- **Life cycle.**  `Counted` equates `isRecvPollingThreadActive` with the number of receive
  threads between their begin and their end.  `Once` is the reason that the rest is
  inductive: a second `startup` never gets past its sockets, because the first element of
  `bindedSockets` is then freed, so threads are created by one call only.
- **Remote systems.**  `ChainsExact` alone is not inductive: that a lookup removes the
  right entry needs `Addressed`, no two active slots with one address and none for
  the others.  Then every search ends at the only match, whatever the hash function does.
  `ReplyRepeated` needs `IncomingFirst`: slots are taken in order (`Prefix`), so a
  connection of ours with the guid of an incoming one has a later slot, and the scan by
  guid finds the incoming one, unless its guid is the null guid or its slot one that a bad
  answer left.  This fails as soon as slots are freed.  The refinement
  maps the active slots to pairs of address and guid; adding is `Join`, a change of
  address is `Move`, and everything else stutters.
- **Memory pool.**  `PoolExact` speaks of the pages met by following `next`, of which no
  single write can be argued.  `PoolInv` has an order instead (`RingOrder`): a function
  from 0 .. n-1 onto the pages of a list, one to one, first the head, with `next` and
  `prev` linking neighbours.  Taking a page out or appending one gives a new order
  (`UnlinkedRing`, `AppendedRing`), and a ring does not change when the links of other
  pages do (`RingKept`), so that a page can move from one list to the other (`MovePage`)
  or be freed (`FreePage`).  A walk along `next` meets the pages of the order
  (`WalkIsRing`): the first place where they differ would have a predecessor where they
  agree.  For the cells, `PageCells` says that the stack has no cell twice, holds those
  that are not out, and that both numbers add up to `CELLS_SIZE_PER_PAGE`; therefore the
  page `Reclaim` frees has no other cell out (`LastCell`).  The bound on empty pages
  holds because a page that becomes empty and is kept is on a list of at most
  `MAX_FREE_PAGES`.  In the refinement the pages in use back their cells, except one
  whose `InitPage` failed; the step that hands out a cell of that page is excepted.

Only model-checked:

- all liveness properties: fairness and `ENABLED` are out of this prover's reach;
- `BufferSound` and `ReadsBack` of `BitStream`: what writing and reading a list of fields
  computes is induction over data.  This holds for the bounds in `BufferSound` as well: that
  the reading position stays behind the writing position follows only from reading each
  field to the place where its writing ended.

## 5. Plan

Every safety property of a run other than the two of `BitStream` is proved.  What could
still be added:

1. For `BitStream`, lemmas about one call of `WriteBits`: the memory grows before the
   position does, and the tail of the last byte stays clear.
2. A model of the handshake over a lossy network, once both sides of the code use the
   same encodings (see below).

## 6. Not modelled

The repository has about 142000 lines of C and C++, of which some 126000 are vendored
(`thirdparty/`: OpenSSL headers, googletest, googlemock, the cat library) or belong to
tests and samples.  The program itself, `src/src` and `src/include`, has about 15700
lines, much of it comments, declarations and code that is compiled out.  The
components above are its logic; what is left is:

- the **handshake as an exchange** between two programs.  The parts are modelled
  separately (`ConnectionRequests`, `RemoteSystems`, `DatagramDispatch`, `BitStream`).
  Put together they would show little: the server writes its guid with `WriteMini`
  (1313) where the client uses `Read`, so the fields after it are misread, and the
  cookie check of a secure server fails always.
- of the **bit stream**: `Write(stream, n)`, which copies more than `n` bits
  (`geco-bit-stream.cpp:507`, a counter that wrapped) and is the only caller that passes
  `WriteBits` a left-aligned source with a rest; the counted aligned bytes, whose reader takes one bit for a length
  that was written with `WriteMini` (354); floats and vectors (lossy by design); and the
  big-endian branches.
- **`BCS_CHANGE_SYSTEM_ADDRESS` to an address that is taken**: left to the caller.
- the **static address** into which all receive threads receive
  (`network_socket_t.cpp:355`): with two sockets any sender may be attributed to any
  datagram.
- the **transport layer** and the sliding window, which are empty in this commit;
  **sockets**, **clock**, **addresses**, **allocation**: wrappers of the operating
  system; **cryptography** (vendored) and **plugins** (the user's code); the
  **containers**, used as sequences.
