# A verification of KuberneTSN in TLA+

KuberneTSN lets containers send packets at precise times. Applications call
`sendmsg` with an `SCM_TXTIME` timestamp; the preloaded library `libktsn.so`
puts the packet into shared memory; the daemon `ktsnd` takes it out, keeps it in
a priority queue until it is due, and transmits it through DPDK.

Paths below are relative to the repository root.

## The system

| Part | State | Operations | Met by |
|---|---|---|---|
| Ring buffer, `src/kt_ringbuf.c` | `prod`, `cons` (head and tail, u32), cells | create, count, enqueue burst, dequeue burst | many application processes and the daemon at once, without locks |
| Priority queue, `src/kt_queue.c` | array of (prio, data), size, cap | insert, getmin, extract_min, decrease_key, delete_key | the daemon only |
| Daemon, `ktsnd.c` | queue, `g_run`, port, mempool | start-up, main loop, SIGINT | rings, pools, clock, port |
| Library, `libktsn.c` | socket list, interface list, pointers into shared memory | socket, setsockopt, sendmsg, close, start-up | the application; rings and pools |
| Page allocator, `src/kt_alloc.c` | page list, free mask, `page_free` | init, alloc, free | daemon start-up |
| Shared memory, `src/kt_memory.c` | named objects, mappings | create, attach, destroy, detach | daemon and library start-up and exit |
| `apps/tsn_perf.c` | counter, transmission time | talker, listener | a client of the library |

A packet slot is an index into two pools. It travels `free_ring` ->
application -> `tx_ring` -> priority queue -> `free_ring`.

What is hard here, and what has to be right:

* **Ring.** Heads are loaded, then compared and swapped; tails are stored in claim
  order after a spin; the cells are plain memory; the counters wrap. Never over-
  or underfilled, claims exclusive, entries delivered once and in order, no spin
  that waits for nobody.
* **Priority queue.** Keeps every entry; its root should be the minimum.
* **Transmit path.** Slots conserved and owned by one party; results that the code
  ignores are never failures; a packet goes out unmixed, once, not early, and
  eventually.
* **Allocator.** Blocks disjoint and inside the region; accounting exact; first fit.
* **Shared memory.** Two names, two `ftruncate` sizes and a layout written while
  applications may already read it; starts and exits overlap, fail and are killed.
  A running daemon stays reachable, a clean exit frees the names, and nobody uses
  an offset to what is not built.
* **Sockets.** Descriptor numbers are reused and some are opened or closed behind
  the library's back. A message takes the timed path exactly when it should.
* **Talker.** Refused messages are retried; numbers, times and termination stay right.

## The modules

| Module | Models |
|---|---|
| `RingBuf` | the ring, one step per load, CAS, copy and store |
| `Fifo` | what the ring promises: a bounded FIFO of bursts |
| `PrioQueueOps` | the heap operations as operators on the array |
| `PrioQueue` | the queue under every sequence of calls |
| `Sendmsg` | `sendmsg` of the library with both rings and the pools |
| `SlotPath` | what `sendmsg` and the daemon promise about slots; abstracts heap, clock and port |
| `Ktsnd` | the daemon's loop with its heap, clock, port and mempool, fed by `Sendmsg` |
| `PageAlloc` | the allocator: layout, allocation, free |
| `SharedMem` | creating, attaching to and removing the two memories; start-up and exit |
| `Sockets` | `socket`, `setsockopt`, `sendmsg`, `close`, interface query, both lists |
| `TsnPerf` | `tsn_perf` as a client of `Sockets` |
| `*Proofs` | theorems, see *Proofs* |
| `MC*` | the modules TLC runs, with symmetry sets |

### RingBuf

A counter is the number of entries since creation. What the program stores is
that number modulo `Modulus` (2^32), and every comparison and subtraction goes
through `U32`. `ring` has the cells of the ring and those after it in its page,
because the copy loops do not wrap. `pc` is the place in the call, `old` and `n`
the locals. `log` (all values in claim order) and `crossed` (a burst ran past the
last cell) are history variables. An enqueue is `EnqStart` (first load of the
head), `EnqLoadTail`, `EnqCasOk` or `EnqCasFail`, `EnqCopy`, `EnqPublish` (spin
ended, tail stored); a dequeue is the same on `cons`. `kt_ringbuf_count`, which the
processes in `Observers` call, is two steps: `CountStart` loads `prod.tail`,
`CountEnd` loads `cons.tail` and returns. `Crash` stops a process wherever it is; no
code recovers its claim.

Assumptions: steps are sequentially consistent, and a CAS fails only on a
mismatch (x86; elsewhere a weak CAS may fail spuriously, which only repeats the
loop). The weak memory orders of the C code are not modelled. `NoLap` is a timing
assumption: between loading a head and the CAS, a process that is still alive is not
overtaken by `Modulus` entries. Without it a stale CAS could succeed.

### PrioQueueOps and PrioQueue

The array is a sequence; indices are the program's. `Heapify` keeps the second
`else` of the code, which makes only the right child a candidate. The shift-up loop and
the recursion of the shift down are functions of the number of rounds (`ShiftUp` and
`ShiftDown` are one round); a round after the last changes nothing. `held` is a history
variable, the entries that should be inside. `ret` is the last result. Keys are any
integers, as an `i64` may be below the `INT32_MIN` that `delete_key` uses; a deletion
then takes out what is at the root, and `held` follows that.

### Sendmsg, Ktsnd and SlotPath

One ring call is one step (see *Composition*). `TakeSlot`, `Fill` and `Post` are
`sendmsg_inet` and `sendmsg_packet` after the interface lookup; a payload is a
packet number, the metadata its txtime. Both functions copy `iov_len` bytes into a slot
of 2048 (`libktsn.c:324`, `:372`) without a check. Payloads are assumed to fit; all
properties of slots and packets rest on that. In `Ktsnd`, `Drain` is the dequeue and all
the inserts of it; `CheckWait`, `CheckLate` and `CheckDue` are the three cases of
the time check; `Transmit` is buffer allocation, `prepare_packet` (whose headers are
left out) and `rte_eth_tx_burst`; `TransmitNull` is the use of a null buffer after a
failed allocation; `Recycle` returns the slot. `PortInit` is `port_init`, after
whose failure the loop is entered all the same, with a port that takes nothing. Its
receive queue is set up over the mempool of the transmit buffers and takes one for each
of its descriptors (`rxBufs`, 1024 of 10240); as nothing is ever received, they stay
there. A port that failed after that call may hold them or not.
`NicReclaim` (the driver) and `Die` (a killed application) are external. An i64 has
width 2 * `Half`; `Diff` wraps. The clock only moves forward: a `CLOCK_REALTIME`
set backwards is not modelled.

`SlotPath` keeps the rings, the pools and the applications and replaces the daemon
by one whose queue is a bag of slots: `Drain`, then for any entry `DropLate` or
`Extract`, `Transmit` and `Recycle`. `Ktsnd` implements it under `QueueBar`,
`DpcBar` and `LastBar` (theorem `LoopRefines`).

### PageAlloc

`Listed`, `PageCount`, `MaskOffset` and `DataOffset` are the arithmetic of
`kt_page_allocator_init`. `mask`, `flag`, `reserved` and `page_free` are its books;
`blocks` is a history variable, the blocks in use. An allocation is `AllocStart`,
one `SearchSkip` per round of the search loop that meets a taken page, then
`AllocTake` or `SearchFail`. Only one process calls the allocator; the steps serve
to state what the loop has established. `Free` takes the start of a block in use;
a second free of a page that is free changes nothing. A stale pointer into a
block that was allocated again, and a request of zero bytes, which no caller
makes, are left out.

### SharedMem

Every start of `ktsnd` is a process, and an object is named by the process that
created it; `bound` says what a name in `/dev/shm` stands for, `fd` what an
application has opened. `_kt_memory_alloc` is three steps per memory: `shm_open`
(`Create`, `CreateExists`; `Attach`), `ftruncate` and `mmap`. `Build` (allocator,
rings, pools) comes before the four stores of `WriteLayout`; `ReadLayout` is one of
the application's four loads. `Sigint` only clears `g_run`; `LeaveLoop` and two
`Destroy` steps are the exit. `CreateFails` and `AttachFails` are failing calls,
`KillDaemon` and `AppEnds` are external. `early` and `mishap` are history variables.

### Sockets and TsnPerf

`sockets` and `interfaces` are the two lists, searched from the front as the `LIST`
macros do. `kernel` is the kernel's descriptor table. `wanted` and `bypassed`
are history: what the program asked for, and which descriptors came or went
through calls that are not interposed (`OpenElsewhere`, `CloseElsewhere`). A node
that `setsockopt` adds has a domain nobody wrote, so `SetOption` takes any.
`Route` is the decision of `sendmsg`. `socket` lacks a `return`; the compiled
function (gcc, `-O3`) returns the descriptor on both paths, and so does `Socket`. A
process is assumed to make its calls from one thread, as `tsn_perf` does.

`TsnPerf` runs either an arbitrary program (`AnyCall`) or `tsn_perf`: `Main` (the
options and `APP_ROLE`), the calls of `init_tx_socket`, `Start`, `Loop` (test and
`clock_nanosleep`), `SendOk` or `SendRefused`; or the listener's socket, `Bind`
and `Recv`. Payload, statistics and printing are left out.

### Composition

* Ring in path: `Sendmsg` and `Ktsnd` use rings whose calls are atomic. That is
  proved for single-entry calls (`SingleEntriesRefine`), which are all calls on
  `free_ring` and all enqueues on `tx_ring`, and for bursts that do not pass the last
  cell (`RefinesUntilCrossed`), kills inside a call included. The daemon's burst
  dequeue is not a FIFO when it passes the last cell, so `TxTable` keeps what the code
  really reads there. `Die` kills applications between ring calls; kills inside a
  ring call are in `RingBuf`.
* Heap in daemon: `Ktsnd` uses `PrioQueueOps` itself.
* Daemon to path: the daemon's loop implements `SlotPath` (`LoopRefines`), so the
  theorems on `SlotPath` carry over to `Ktsnd`; `KtsndProofs` states them there.
* Application to library: `tsn_perf` on `Sockets` is one of the programs that `Sockets`
  allows (`PerfRefines`), so the theorems about every program hold of it.
* Library to path: `SendToDaemon` of `Sockets` is `TakeSlot` to `Post` of `Sendmsg`;
  only the number of free slots is shared.

## The runs

| Run | Checks | Result |
|---|---|---|
| `ring_burst` | counters in order, exclusive claims, delivery in order, spins have a holder, stable published cells, both inductive invariants, `Fifo` until a burst passes the last cell | holds, 1.7 M states |
| `ring_returns` | every call returns, kills apart; the count is right unless overtaken | holds, 542 k states |
| `ring_wrap` | a dequeue returns the entries of the ring | **violated** |
| `heap_calls` | entries kept; shift up keeps the heap; what shift down damages | holds, 109 k states (up to names of entries) |
| `heap_min` | the root is the minimum | **violated** |
| `heap_delete` | a deletion removes the element it is given | **violated** |
| `tx_path` | refinement of `SlotPath` and its inductive invariant; slot count, no ignored failure, one owner, faithful wire; not early; null buffer only after refusals | holds, 2.3 M states |
| `tx_leaves` | every accepted packet leaves | holds, 380 k states |
| `memory` | `SharedMem`: a daemon in its loop is reachable, names are free after clean exits, nobody uses memory beyond its size, the layout is usable, SIGINT gets the names removed. `PageAlloc`: blocks apart, exact books, first fit, failure only for lack of room, the search ends | holds, 94 k states |
| `alloc_region` | blocks lie inside the region | **violated** |
| `preload` | the socket list says what the program did, messages are routed right, the talker's numbers and times, talker and listener end | holds, 757 k states |
| `talker_count` | a talker sends as many messages as it is asked to | **violated** |

`memory` runs two specifications that do not interact: pages are allocated by the one
daemon that builds in a memory, between two steps of `SharedMem`. A behaviour is one of
the first or one of the second.

### The five disagreements

* `ring_wrap`. In the wrap-around branch of `__kt_ringbuf_dequeue_elems`
  (`src/kt_ringbuf.c:245`) the first loop runs to `n`, not to the end of the ring.
  A burst that passes the last cell returns zeros from behind the ring. The
  enqueue has the same loop, but is only called with `n` = 1. In `Ktsnd` a
  zero is slot 0; hence the `~crossed` in `OneOwner`, `WireFaithful` and `NotEarly`.
* `heap_min`. The second `else` of `_kt_prio_queue_heapify`
  (`src/kt_queue.c:110`) undoes the choice of the left child, so
  `kt_prio_queue_getmin` need not return the minimum that `src/kt_queue.h:59`
  promises. `ShiftDownDamage` says how far the damage of one extraction goes, and
  `RefinesSlotPath` that order is all that is damaged.
* `heap_delete`. `kt_prio_queue_delete_key` (`src/kt_queue.c:147`) lowers the key to
  `INT32_MIN` and extracts the root, but keys are 64 bits wide. With a key that is not
  above `INT32_MIN` in the queue, another element may be removed than the one
  `src/kt_queue.h:76` promises. `KeepsEntries` says that exactly one entry goes all the
  same. The function has no caller.
* `alloc_region`. `kt_page_allocator_init` takes no pages off for its metadata and
  multiplies the size of the page list by the size of an entry a second time
  (`src/kt_alloc.c:48`), so the last pages lie behind the region. The four requests of
  `ktsnd` stay in its first part.
* `talker_count`. `apps/tsn_perf.c:32` says of `n_msgs` "Number of messages to send". The
  loop (`:203`) runs while `counter`, which starts at 1, is below it, so one less is sent.

### What holds, but is worth knowing

* `CountSound`: `kt_ringbuf_count` is right about what it has loaded. If consumers pass
  the loaded `prod.tail` before `cons.tail` is loaded, the difference is negative, and
  the mask turns it into a number close to the ring's size, where
  `src/kt_ringbuf.h:52` says "Return the number of entries in a ring."
* `CallsReturn`: a process killed between its CAS and its store of the tail blocks its
  side of the ring for good. A kill anywhere else blocks nobody.
* `SlotCount` holds because it counts drops: each "packet lost" costs a slot
  for good (`ktsnd.c:377`). With 127 slots, 127 late packets end transmission.
  It also counts the slot of a killed application as still in its hands.
* `NullOnlyByRefusals`: the buffer of a refused packet leaks; when the mempool is
  empty the daemon uses a null buffer. What the port's two queues hold is missing from
  the mempool from the start. After a failed `port_init`, which is only logged, every
  packet is refused, and the daemon lasts for one mempool of packets, less what the
  receive queue kept.
* `EveryPacketLeaves` excludes a txtime whose difference to the clock does not fit
  an i64 (just above 2^63): the difference wraps to a large positive number and
  the queue waits for ever.
* `NotEarly` bounds how early a packet leaves; nothing in the code bounds how late.
* `RestartPossible` excludes killed daemons and failing calls, such as a second create
  that fails: these leave names behind that O_EXCL stumbles over until somebody removes
  them. The code has nothing against that, so no property speaks of it.
* `LayoutUsable` allows offsets of zero: an application that opens the control
  memory before the layout is written takes the start of the data memory for its rings
  and never looks again. And an application that attaches while one daemon exits and
  another starts may pair the data memory of the first with the control memory of the
  second (`PairedObjects`); both are built alike, but nobody serves that data memory.
* `TableFaithful` excludes descriptors that libktsn did not see coming. For one
  of those, `setsockopt` makes a node with an uninitialised domain.
* `RouteRight`: a timed message of a socket that is neither IPv4 nor packet is not
  sent at all; a packet socket without `msg_name` faults; only the first IPv4 address
  of an interface counts.
* `TalkerEnds`: a talker with `-t` and a destination on no local subnet never ends:
  libktsn swallows `SO_TXTIME`, so the kernel refuses every message with a transmission
  time. Without `APP_ROLE` in the environment `main` faults.
* `ListenerEnds` holds although `do_listener` ignores a failed `init_rx_socket`.

## Bounds

* `ring_burst`: 4 cells and `Modulus` 4, four entries, two processes on each side:
  index and u32 both wrap, claims of a side overlap, bursts of two pass the last cell,
  the ring fills up and runs empty. (A ring of 2 cells has room for one entry only and
  would never show two claims.) With `Modulus` 4, `NoLap` also rules out a process being
  overtaken by 4 entries, which the real width allows; the theorems cover every width.
  Kills add nothing here: for safety, a killed process is one that takes no further
  step, which any process may do. The theorems include them.
* `ring_returns`: the same ring with single entries, where one process may be killed at
  any step, and one also asks for the count.
* `heap_calls`: eight entries, so that the shift down can go two levels deep, and three
  keys, so that equal ones occur; one of them is below `INT32_MIN`. The ninth index lets
  an insert meet a full queue. States are compared by `Keys`, which leaves out the data:
  no operation looks at it, and as long as `KeepsEntries` holds `held` follows from the
  array.
* `heap_delete`: four entries and the same keys.
* `tx_path`: three slots, bursts of two, five packets: the ring's end is passed,
  slots run out, the port refuses, the mempool of three empties, with a port that was
  started (one buffer in the receive queue) and one that was not. Times: one in the
  future, one before time 0. The clock stops at 2, where the first is due.
* `tx_leaves`: one sender, two usable times and one that wraps; here packets also
  become late while they wait.
* `memory`: two starts of `ktsnd`, enough for every overlap of an exit with a start, and an
  application; seven pages, requests of one to four: holes of every shape, and requests
  that fit none of them. The theorems cover any number.
* `alloc_region`: sixteen pages with the real sizes of the structures; at 1 MB the same
  arithmetic counts 255 pages where 219 fit.
* `preload`: two descriptors (reuse, and one taken elsewhere), two interfaces with up
  to two addresses between them in any order, one slot, so that `sendmsg` is refused;
  the talker sends two messages and is refused once.

Named bounds in guards: `MaxPos`, `MaxCrashes`, `MaxMsgs`, `MaxTime`, `MaxFd`,
`MaxIfAddrs`, `MaxRefused`, `MaxClock`. Deadlock is not checked where the system may
stop: a killed process blocks the others or `MaxPos` is reached (`ring_*`), the daemon
exits or faults (`tx_*`), processes end (`memory`, `preload`, `talker_count`).

## Fairness

* `ring_returns`: weak fairness of each process inside a call, as a running thread has;
  nothing obliges it to call again. `CallsReturn` is bounded by `MaxPos`: the
  CAS loop is lock-free, not wait-free, and without the bound one process could
  lose every CAS. A killed process has no fairness.
* `tx_leaves`: weak fairness of the daemon, which polls without blocking, and of the
  clock. No fairness of applications, port or signals. The daemon's is written out:
  infinitely often it has stopped (left the loop or faulted), or it takes infinitely
  many steps. In every other state one of its steps is enabled.
* `memory`: weak fairness of the allocator's search loop, which runs without waiting, and
  of each started daemon's program. None of signals, kills, failures or applications.
* `preload`: weak fairness of `tsn_perf`, of the clock, and of the daemon's returning
  slots. The last is a promise of the daemon that drops break (see above). `MaxRefused`
  stands for one more assumption: `sendmsg`, the kernel's included, refuses the talker
  only finitely often. The code does not guarantee it; it retries for as long as it takes.

## Proofs

All theorems hold for every value of the constants that the named assumptions allow:
any number of processes, any ring, region or burst size. A proof that an invariant is
inductive has one lemma per action.

**Ring, counters** (`RingBufProofs`, from `RingAssumption`: the counter width is a
multiple of the ring size). `ClaimInvariant` is `Spec => []ClaimInv`; from it
`OrderCorrect`, `SpinCorrect` and `CountCorrect`. `RingOrder` alone is not inductive: a
process may hold an `old_head` and an `n` from long ago. `ClaimInv` adds that such a
head is less than one `Modulus` behind (`EnqWindow`), so equality of u32 is equality of
counters; that if it is still the head, `n` still fits, because the opposite tail only
grows; and that the claims after the CAS are disjoint and tile the range from tail to
head (`EnqRange`, `EnqDisjoint`, `EnqCover`), so the claim that starts at the tail is
the one that may store it. `CountCorrect` adds that the `prod.tail` a counting process
has loaded is at most a capacity ahead of any later `cons.tail` (`Loaded`), so masking
the difference loses nothing.

**Ring, contents** (`RingDataProofs`). `DataInvariant` relates cells, claims and tables
to `log`. Claims lie within one capacity of each other, so different positions have
different cells (`IndexInjective`); hence `CopiesExclusive`, `DeliveryCorrect` and
`PublishedCorrect`, each until a burst passes the last cell.

**Ring, refinement** (`RingDataProofs`). `RefinesUntilCrossed`: until a burst has passed the
last cell, every step is one of `Fifo` or leaves the queue alone; an enqueue takes effect
at its store of `prod.tail`, a dequeue at its CAS of `cons.head`.
`SingleEntriesRefine`: with single entries every behaviour is one of `Fifo`.

**Slot path** (`SlotPathProofs`, from `SendmsgAssumption`). `PathInvariant`, and from it
`SlotsConserved`, `NoOverflow`, `OwnerUnique` and `WireCorrect`. The count carries the
overflow results: a slot in hand is one less in every ring. Ownership and the wire need
`Contents`: a slot in flight contains a posted packet with the time asked for it, no two
the same, and a slot in an application's hands belongs to a packet not yet sent. Types
and count hold also after a burst passed the last cell, ownership and contents before.

**Heap** (`PrioQueueOpsProofs`, `PrioQueueProofs`, from `QueueAssumption`: keys are
integers, on either side of `Int32Min`). A recursive function is a `CHOOSE`; `LoopExists` shows by
induction on the number of rounds that one with the defining equation exists, and after
that each loop is reasoned about round by round. `EntriesKept`: every operation permutes
its array and adds or drops the one entry it should, in whatever order the array is; the
inductive invariant `QueueInv` ties the array to `held`. A deletion removes the element
it is given if all keys are above `Int32Min`, since that element then is the root
(`DeleteFacts`), and the one at the root else. `ShiftUpCorrect`: during the
shift up the only pair that may be out of order is the moving node and its parent, and
the children of the moving node are not below that parent. `ShiftDownBounded`: the
moving node goes down the right spine, because only the right child is a candidate; where
it stops, its own children are the only ones that can be out of order. `HeapRoot`: a heap
has its minimum at the root. Together with `heap_min` these say exactly which calls
spoil the order and how much one of them can.

**Daemon** (`KtsndProofs`, from `KtsndAssumption`). `LoopRefines` has one lemma per
action. The hard one is `DrainPath`: the inserts of a burst, one by one into a heap that
may be out of order and may get full, add to the bag what `SlotPath`'s `Drain` adds in one
step (`Holds` is the invariant of the insert loop). Extraction takes out one copy of the
root's slot whatever the order, since the heap keeps its entries. `DaemonInvariant` takes
`PathInv` over from `SlotPathProofs`, instantiated under the mapping; from it
`LoopPathInv`, `LoopConserves`, `LoopNoOverflow`, `LoopOneOwner` and `LoopWireFaithful`.
`NeverEarly` needs more (`EarlyInv`): a key in the heap is the time in its slot. This
is where ownership matters, as no application may write a slot that is queued; and the
wrapped difference of `kt_get_time_diff_ns` is never below the true one (`DiffBound`), so
wrapping delays a packet but does not send it early. `NullNeedsRefusals` counts buffers:
mempool, both queues of the port and leaked ones add up to `PoolSize`.

**Allocator** (`MemoryProofs`, from `AllocAssumption`: at least one page is counted,
requests are positive). `AllocInvariant`, and from it `BlocksApart`, `BookExact`,
`PageFreeExact`, `NullMeansNoRoom` and the action property `FirstFit`. The books alone
do not say why a failed search was right; `AllocInv` adds the loop's invariant
`SearchInv`: no run that starts before `index` has room. A skip to page i + d keeps it,
because every run of `need` pages that starts in i..i+d contains the taken page i + d. `SearchBounded` is
the safety half of `AllocReturns`: every skip moves `index` on and never past the last
page. `StartupPacked` speaks of a user that frees nothing, as `ktsnd` does: blocks are
packed from the first page on, so the pages behind the region, which the allocator counts
by mistake, are handed out last.

**Shared memory** (`MemoryProofs`, from `ShmAssumption`). `ShmInvariant`, and from it
`DaemonReachable`, `NamesReleased`, `NoAccessBeyondObject` and `LayoutSafe`. The argument:
the name of the data memory is a lock. It is created first and removed last, so the
other name never stands without it (`NameOrder`), and a daemon that unlinks by name
unlinks its own.

**Socket list** (`SocketsProofs`, from `SocketsAssumption`). `SockInvariant`, and from it
`ListFaithful`. What a search finds is only understood when no descriptor has two
nodes (`OneNode`), so this is part of the induction; it also makes `close` remove all
there is.

**Interfaces and routing** (`SocketsProofs`). `RouteCorrect`: by induction over the
addresses that `getifaddrs` returned, the interface list has one node for each interface
with an IPv4 address, with the first of its addresses (`QueryListed`); so both searches of
the list find what `RouteRight` speaks of, and with `SockInvariant` `sendmsg` decides
right.

**tsn_perf** (`SocketsProofs`, from `TsnPerfAssumption`: the clock bound leaves room for
all sends). `PerfRefines`: each step of the program is a call that `Sockets` allows or
leaves its variables alone; this needs `CallInv`, that the program only uses a descriptor
it has opened. Hence `PerfRouted`. `TalkerOrdered` rests on `TalkerInv`: the next time is later
than that of message i by at least an interval for each message since. `TalkerTotal`: a
talker at the end of its loop has had one message less than `n_msgs` accepted, however
many were refused; so `talker_count` fails for every `n_msgs`.

Model-checked only:

* liveness (`CallsReturn`, `EveryPacketLeaves`, `AllocReturns`, `SigintRemoves`,
  `TalkerEnds`, `ListenerEnds`), which is out of the prover's reach;
* the five disagreements, which are counterexamples of small instances.

Every other property of a run is also a theorem. Induction over data is not taken from
the library, whose induction theorems have an operator as a parameter: `LeastNumber` and
`InductionTo` of `PrioQueueOpsProofs` state it for a set of numbers, which the provers can
instantiate.

## Not modelled

* `ktsnd_socket.c`: not built by `build.sh`, and a stub. Its loop sends nothing (the
  send is a TODO); start-up, rings, queue and exit are those of `ktsnd`.
* The OPC UA examples: straight-line configuration of the third-party `open62541`, whose
  callbacks and encoding are not in the repository; not built by `build.sh`.
* The headers `prepare_packet` writes, addresses and sizes in the metadata, logging: no
  property is about them. That a payload fits its slot is assumed (see *Sendmsg*).
* `kt_memory_detach` has no caller. `kt_mempool.c` is a stub.
* Deployment scripts and manifests.
* Several threads of one process in `Sockets`: the list has no lock, and a data race on
  the `LIST` macros has no outcomes that could be enumerated.
