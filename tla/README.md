# FastInAHurry: a TLA+ model of the library

FastInAHurry is a header-only C++ library (`src/include/fiah`). This directory
holds TLA+ specifications of its stateful parts, configurations that check them
with TLC on small instances, and machine-checked TLAPS proofs about its two
lock-free queues, the thread pool, `SPSCLogger`, `shared_ptr`, `UniquePtr`,
`Vector`, the network classes, the locking components and the arena.
`PROJECT.json` is the machine-readable index: it maps every definition to the
lines it models and lists runs, mutants, hazards and theorems.

## The system

| Part | State | Operations | What makes it hard |
| --- | --- | --- | --- |
| `SPSCQueue` | two atomic 64-bit counters, a ring of raw slots | `push`, `emplace`, `pop`, `empty`, `full`, `size`, destructor | two threads, acquire/release pairs, counters that wrap, exceptions of `T` |
| `MPSCQueue` | two counters, slots with a ready flag | `try_push`, `try_pop` | producers racing for tickets with a weak compare-and-swap, a producer asleep between claim and publish |
| `ThreadPool` | a queue under a mutex, a semaphore, stop flags, `jthread`s | `enqueue`, the workers' loop, destructor | wake-ups, an unlocked read, tasks that enqueue tasks, shutdown at any time |
| `SPSCLogger` | one `SPSCQueue` per thread, a `Vector` of them, a consumer thread | `info`/`warn`/`error`, `_register_thread`, `_run`, destructor | registration during a drain, full queues, the last drain |
| `Orderbook` | two sorted vectors of orders | `AddOrder`, `CancelOrder` | partial fills, sweeps over levels, price-time priority |
| `shared_ptr` | handles, control blocks with an atomic count | constructors, assignments, `reset`, destructor | concurrent copies and drops, reuse of addresses |
| `UniquePtr` | a pointer and a deleter | moves, `release`, `reset`, `swap`, destructor | deleters travelling with their objects, handles inside managed objects |
| `Vector` | begin, end and capacity pointers | all the modifiers | growth, copies, moves, raw memory |
| `Socket`, `TcpServer`, `TcpClient`, `UdpServer`, `UdpClient` | a file descriptor each | `start`, `connect_to_server`, `accept_client`, `bind_local`, assignment, moves, destructor | descriptor numbers reused by other threads, failure half way and retry |
| `ThreadSafeQueue` | a `std::queue`, a mutex, a condition variable | `push`, `wait_and_pop`, `empty` | lost, late and spurious wake-ups, an unlocked read |
| `Mutex` (`SpinMutex.hpp`) | one `atomic_flag` | `lock`, `try_lock`, `unlock` | relaxed spinning, a `try_lock` that returns the old flag |
| `Logger`, `SimpleLogger` | one static instance per tag, a mutex | `get_instance`, `init`, `info`/`debug`/`error`/`warn` | threads racing for the first call, which fixes the name |
| `BumpArena`, `BumpAllocator` | three pointers into a buffer | `allocate`, `deallocate`, `reset` | alignment, exhaustion, products that wrap |
| `TomlParser`, `Config` | a map from section and key to value | `load`, `parse_config`, the getters | loads that fail half way, repeated loads, comments and quotes, ports beyond 16 bits |
| `Memcpy`, `Memmove`, `Strcpy` | the bytes they are given | | overlapping ranges, the rest after the unrolled rounds |
| `SPSCLogger`'s formatting, timers, `XorBitant`, Cassandra, maths, `Any` | | | text, clocks, bit operations, floating point, or drafts; the reasons are in `PROJECT.json` |

Interactions: `SPSCLogger` uses `SPSCQueue` and `Vector<QueueT*>`; `TcpServer`
and `Config` refer to `Logger`; `BumpAllocator` uses `BumpArena`. Everything else stands
alone.

The correctness properties the library owes its users are: no data race and no
lost, duplicated or reordered element in the queues; every task run once and
every future resolved; no accepted log record lost, but for the queues that the
logger deletes unread when it is destroyed; price-time priority and
conservation of quantity in the book; every object deleted once, by its own
deleter, after its last owner; a vector that is a sequence; every descriptor
owned once; locks that exclude, a locked queue that loses no wake-up, one name
per logger; disjoint, aligned blocks; a configuration that serves what its files
say; copies that copy. The hazards in `PROJECT.json` name the lines at which
these bite.

## The modules

State variables have the names of the data members, actions those of the
functions; a function that several threads can observe half done is split into
one action per shared access (`EmplaceCheck`, `EmplaceConstruct`,
`EmplacePublish`). A definition after the comment *Mutant* is a plausible bug of
the definition it precedes; nothing uses it in the specification.

* `BoundedFIFO` - what `SPSCQueue` promises: a FIFO whose operations take effect
  in one step between call and return.
* `SPSCQueue` - the code of the queue. Counters wrap at `Word`; `released` and
  `view` carry the happens-before edges of the release stores and acquire loads.
  An exception of `T` in `emplace` or `pop` leaves the operation where the code
  would.
* `SPSCQueueProofs` - the proofs, below.
* `MPSCQueue` - tickets, compare-and-swap with spurious failure, ready flags, the
  same treatment of memory orders. Its clients retry refused pushes, as
  `benchmarks/MPSCQueue_bench.cc` does. `MPSCQueueProofs` holds the proofs.
* `ThreadPool`, `MCThreadPool` - workers, clients, tasks that enqueue other
  tasks, and the destructor. The unlocked `m_tasks.empty()` of `ThreadPool.hpp:64` is a
  nondeterministic value while another thread holds the mutex.
  `ThreadPoolProofs` holds the proofs.
* `SPSCLogger` - registration, snapshots, drains and the shutdown. Queues are
  abstract sequences with atomic push and pop, which theorem `Refinement`
  justifies; `accepted` records which calls of a thread were accepted. The
  destructor deletes the queues with what is in them, which is lost
  (`DestroyJoined`). A snapshot
  taken while the constructor reserves `m_queues` without the mutex is
  undefined; the model ends there.
* `Orderbook` - `AddOrder` with its whole loop (`matched` repeats `matchOnce`), and
  `CancelOrder`. `MatchesReference` compares the trades with a definition that
  has no loop.
* `SharedPtr` - calls of several threads, one step per access to the control
  block or the handle, over addresses that are reused after they are freed.
  `SharedPtrProofs` holds the proofs.
* `UniquePtr` - handles, some of them members of the objects, and
  deleters with or without state. Deleting an object deletes what its members
  own in turn: the least set of objects that is closed under ownership
  (`Doomed`).
* `SequenceContainer` and `Vector` - what a vector promises, and the code, with
  cells that hold an element or raw memory. Calls that leave the block, assign
  to raw memory or fail an assert set `fault` and end the behaviour.
  `VectorProofs` holds the proofs.
* `Sockets` - the network classes over a small kernel: descriptor numbers, the
  smallest free one is next, one listener per address. `Socket::operator=` is
  two steps, the close and the store, and so is a move assignment of one
  server or client to another, which copies `m_started`. An object that was
  moved from is only assigned to or destroyed. `SocketsProofs` holds the proofs.
* `SpinMutex` - one step per access of the flag; `synced` carries the acquire and
  release edges. Callers of `try_lock` take `false` for success, as the code
  requires.
* `ThreadSafeQueue` - `push` and `wait_and_pop` split where the mutex is taken
  and released; `emptyAnswers` are the answers the unlocked `empty` may give.
* `Logger` - the static instance with its one-time construction, `init`, and a
  log call up to the locked write.
* `Polling` - a program of these three: producers push, consumers wait, or poll
  under the spin mutex, and log what they took. It is the client that the
  properties about the interplay need and models no code of the library.
* `LockingProofs` - the proofs about the four, below.
* `BumpArena` - the arena and its allocators over addresses of a given width,
  `std::align` computed as the standard library does.
* `ComponentProofs` - the proofs about `UniquePtr`, `SPSCLogger` and `BumpArena`,
  in this order; the three share nothing but the module.
* `TomlParser` - a line of a file is what the parser can tell of it (blank,
  bracketed text, `=`, key, value with its quotes and `#`); the result of the
  loop is compared with a definition by positions. `loads` keeps what each load
  found, so that what is served can be compared with all of it.
* `MemoryRoutines` - the three loops as functions of the memory.
* `MCSequential` - the components that one thread uses on its own (`Orderbook`,
  `UniquePtr`, `BumpArena`, `TomlParser`, `MemoryRoutines`) side by side; they
  share nothing, and a behaviour is of one of them.

## The runs

| Run | Instance | Distinct states | What it shows |
| --- | --- | --- | --- |
| `spsc_safety` | capacity 2, counters modulo 4, two values | 480,514 | `IndInv` (with the type invariant), `RaceFree`, `ElementLifetimes`, `ObserversKeptWord`, and that the queue implements `BoundedFIFO` |
| `spsc_liveness` | the same with one value, fair | 80,880 | `ConsumerProgress`, `ProducerProgress` |
| `mpsc` | 3 producers of 2 elements each, 2 slots, fair | 437,964 | exclusive slots, order per producer, excused refusals, everything arrives |
| `threadpool` | 2 workers, 2 clients, 4 tasks of which one enqueues another | 38,488 | permits match tasks, each task once, prompt stop, destructor returns, futures resolved |
| `orderbook_trade` | 2 levels, quantities 1, 2 | violation | `OrderIdB` is not always the aggressor, against the comment of line 90 |
| `logger` | 2 threads, 3 calls each, queues and buffer of 2 | 12,911 | records conserved up to the queues deleted unread, last drain complete for its snapshot, everything written, destructor returns |
| `sharedptr` | 2 threads, 3 handles, 2 blocks, 2 objects | 396,872 | exact counts, nothing used after it is freed, one owner per object |
| `vector` | 2 vectors, capacities up to 4 | 21,676 | blocks owned once, contents behave as sequences up to a fault |
| `vector_resize` | the same | violation | `resize` beyond the capacity leaves its block |
| `sockets` | 2 UDP servers, one object of each other class, one accepted connection, 3 descriptors | 761,506 | no descriptor leaked, closed twice or closed under its owner |
| `locking` | 2 producers, 2 consumers that wait or poll, a thread that calls `init`, 2 elements, fair | 27,316 | mutual exclusion, FIFO without a lost wake-up, polls that never block, one name |
| `sequential` | book: 3 ids, 3 levels, quantities 0-2; 2 list nodes and 2 handles; 3 buffers of 6 bytes, 3 types; 10 kinds of line; a few bytes of memory | 312,548 | the book sorted, uncrossed and matching as the reference does; one owner and the right deleter; sound blocks, served exactly; the configuration as written; exact copies |

Every property of a passing run is shown to depend on the code by a mutant under
which the same run finds a violation.

### Bounds

* Capacity 2 with `Word` 4 lets the SPSC ring be empty, half full and full, in
  both alignments, and the counters wrap over and over; the proofs lift the
  bound.
* `MPSCQueue` stops issuing tickets at `Word - SIZE`: wrapped counters are not
  explored there, only the wrapped difference `tail - head` of a producer that
  was overtaken.
* `ThreadPool` runs out of tasks, `SPSCLogger` out of calls (`MaxCalls`),
  `Vector` out of capacity (`MaxCapacity`): each bound exceeds what the longest
  interesting case needs (a queue overflowing while drained, two growths).
* `Orderbook` needs no bound but its ids: an id may come back after its order is
  gone. Zero is among the quantities because `AddOrder` does not exclude it.
* Three descriptors for six owners make `socket` and `accept` fail for want of
  one, and make every number change hands.
* `Polling` pushes each of two elements once, so that two consumers compete for
  one element, and one element is pushed between another's notification and its
  wake-up; the proofs lift the bound.
* `BumpArena` has a buffer that begins unaligned, one that ends at the top of a
  16-value address space and none at all; `Requests` make `n * sizeof(T)` wrap.
  `TomlParser` loads up to `MaxLoads` files of together up to `MaxLines` lines:
  the shortest load that fails half way with a key kept has three lines, and one
  that gives this key another value has two.
  `MemoryRoutines` copies with rounds of `Unroll` bytes instead of 8.
* Deadlock is checked for `Polling` (where a spurious wake-up hides a thread that
  waits for ever; `AllPrinted` finds it) and `SharedPtr`. The others may stop: the
  arena traps, the queue, pool or logger is destroyed, every element has arrived,
  the bounded number of calls is used up, a fault or an abort ended the program.

### Fairness

Only what a scheduler grants: a thread that can take a step takes one. Beyond
that, `SPSCQueue` assumes that the two threads keep calling `emplace` and `pop`
(the loops of `examples/spsc_queue_example.cc`) and that `T`'s operations do not
throw for ever; `MPSCQueue` that a weak compare-and-swap on a current value does
not fail spuriously for ever; `Polling` that its threads keep running and
`std::mutex` is granted to one of them, while spurious wake-ups may never come.
Nobody is obliged to log through `SPSCLogger`, to enqueue or to destroy anything.

## What is proved

Every theorem about a run's invariant holds for every value of the constants
that satisfies the named assumptions of the component's module; the run shows
the same property on one instance. Each proof has the same shape: an inductive
invariant (`IndInv`; `PtrInv` and `LoggerInv` in `ComponentProofs`), a lemma per
action that the action keeps it, and a short last step from it to what the
theorem says. Each of these invariants was model-checked on the run's instance.

### SPSCQueue

The theorems of `SPSCQueueProofs` hold for every `Capacity` greater than zero,
every set of values, and every `Word` that is a greater multiple of `Capacity`
(the code's `kCapacity` is a power of two and `Word` is 2^64). The
`static_assert` of `SPSCQueue.hh:52` admits a capacity of 0 as well; the proofs
do not cover it.

* `Invariance`: `Spec => []IndInv`. What a client sees is not inductive, so
  `IndInv` adds: the local copies of a thread's own counter are current
  (`OwnCounters`); the window from tail to head holds at most `Capacity`
  elements, and strictly fewer while the producer is past its check (`Window`);
  head's slot is that many slots after tail's, round the ring and across the
  wrap of the counters (`Aligned`); a slot holds an element exactly if it is in
  the window, but for the two in transit (`Storage`); nobody is in the queue
  while it is destroyed (`Lifetime`); acquired knowledge covers the slot in hand
  (`Knowledge`). The arithmetic rests on `CounterArithmetic`, `Remainder` and
  `SlotOfInc`; `RingKept` covers the actions that leave the counters and the
  slots alone; then there is one lemma per action.
* `TypeCorrect`, `NoDataRace`, `LifetimesKept`: the consequences `TypeOK`,
  `RaceFree` and `ElementLifetimes`.
* `Refinement`: `Spec => ImplementsFIFO`. The mapping reads the elements from
  tail to head, with the one being popped in `out` until tail is stored; `push`
  takes effect at the store of `m_head`, `pop` at that of `m_tail`.
* `WordIsKept`: `Spec => ObserversKeptWord`. Beyond `IndInv` it needs what a
  thread knows after an observer: its own counter is as it loaded it, and the
  other one has moved only in the direction that makes room for the producer
  (`ProducerSaw`) or elements for the consumer (`ConsumerSaw`).

### MPSCQueue

`MPSCQueueProofs` is for every set of producers, every number of elements per
producer, every `SIZE` greater than zero and every `Word` greater than
`2 * SIZE`, up to the bound on tickets named above: `SlotsAreExclusive`,
`OrderIsKept`, `RefusalsAreExcused`. A ticket and its slot are tied together by
`IndInv`:

* `Counters`: at most `SIZE` tickets are out, what a producer loaded is not newer
  than the counters, a claimed ticket has one holder, and the consumer does not
  pass it. That a stale `head` makes the check of `try_push` stricter, never
  laxer, is here.
* `Flags`: a slot's flag is raised exactly from the publication of its element
  until `PopClear`; the slots ahead of `m_tail` are not ready.
* `Cells`: a slot holds an element from its construction until `PopDestroy`.
* `InOrder`: the elements of a producer in the ring are those it sent and that
  were not received, each once and in the order of their tickets.

Two tickets less than `SIZE` apart have different slots (`SlotFacts`), which is
why a slot can be told from its ticket.

### SharedPtr

`SharedPtrProofs` is for every set of threads, blocks and objects and every
finite set of handles; handles, objects, `Null` and `Absent` are different
values. `CountIsExact` and `NothingIsFreedEarly` rest on six facts: types; the
clients' rule that a handle being written is used by nobody else (`Apart`); a
call's operands fit its operation and its block is live (`CallsSound`); a
counted handle has the object of its block (`HandlesSound`); the count is the
number of counted handles and one thread ends a block at zero (`BlocksSound`); a
live object has one owner (`ObjectsSound`). A step changes the set of counted
handles by at most one (`CountOne`), and a call that ends leaves the other calls
as they are (`Returned`).

### ThreadPool

`ThreadPoolProofs` is for every number of workers greater than zero, every
finite set of clients that are not workers, and every set of tasks of which some
enqueue another. `PermitsMatchTasks`, `TasksRunOnce` and `StopIsPrompt` follow
from `IndInv`:

* `Roles`: a thread has a task in hand exactly where the code does.
* `InOnePlace`: a submitted task is in one place only; a task about to be
  emplaced is nowhere else. Without this a task could be enqueued twice.
* `Permits`: before the destructor begins nobody is told to stop, so that
  line 64, whatever its unlocked read returns, does not send a worker with a
  permit away.
* `LastTask`: a worker that took a task after `m_stopping` was set is past the
  semaphore, and its next test of the loop's condition ends it.

The permits are counted by `AtMoves`: a step of one thread changes the number of
threads at some places by at most one.

### SPSCLogger

`ComponentProofs` is, for this component, for every set of threads, every number
of calls and every size of the queues and of `out_list` greater than zero.
`RecordsAccountedFor` (`Spec => []RecordsConserved`) and `LastDrainComplete`
(`Spec => []SnapshotFlushed`) follow from `LoggerInv`, which adds to
`RecordsConserved`:

* `Numbered`: what a thread's queue accepted are earlier calls than the one in
  progress, so the next record is the greatest, and new.
* `Buffered`: `out_list` has records only in the middle of a drain. Without this a
  drain could end with records that are not flushed.
* `Drained`: nobody logs once the destructor runs; the last drain leaves the
  queues before its cursor empty, and all of its snapshot when it ends.
* `Snapshots`: a snapshot has the threads of the earlier ones, so what was popped
  is of threads in the last one. What the destructor deletes is therefore of the
  other threads, and all that these logged (`JoinedStep`).

### UniquePtr

For every set of handles, objects and deleters and every way the handles are
members of the objects; `Null` and `Absent` are none of the other values.
`UniqueOwnership` (`PtrSpec => []OneOwner`) and `DeletedByOwnDeleter`
(`PtrSpec => []OwnDeleter`) follow from `PtrInv`. Its two parts are stated for any
handles `hs` in the middle of a call: `Owned(hs, o, r, l)`, each object of `l` but
`o`, which is about to be deleted, has one owner among `hs` and the client's
pointers `r`; and `Deleting(hs, a)`, a handle has the deleter of its object. Each
call is shown to hand such handles to `Finish`, and `Finish` is treated once
(`Finished`). An object other than `o` is deleted only because a member of a
deleted object owns it (`DoomedOwned`), which follows from the minimality of
`Doomed` without an induction; so nothing with another owner is deleted.

### Vector

`VectorProofs` is for every set of vectors and values and every bound on the
capacity; the marks for raw memory and for no vector are no values.
`EveryBlockOwned` is `Spec => []BlocksOwned`, and `VectorIsSequence`
(`Spec => ImplementsSequence`) shows that every step of the code is a step of
`SequenceContainer` or a stutter; which one, the theorem leaves open and the
lemmas about the operations say. Calls that set `fault` are outside of both.
`IndInv` says that the cells before `m_end` hold
elements and the others are raw, that a vector without a block has no room, and
that there are as many blocks as vectors that have one.

### Sockets

`SocketsProofs` is for every number of descriptors greater than zero and every
set of objects, each of one class: `DescriptorsOwned` (`Spec => []FdsOwned`) and
`SetUpIsKept` (`Spec => []SocketsKept`). `IndInv` consists of:

* `CallsApart`: two calls never assign to the same `Socket`, and an object that is
  moved from waits for the move.
* `OneOwner`: an open descriptor is in one `Socket` or in one call's local variable.
  A `Socket` between the close and the store of `operator=` still has the old
  number, which may be another object's by then; it does not count as an owner.
* `SetUp`: the descriptor of an object whose last call succeeded is in the state
  that the call left it in.

### The locking components

`LockingProofs` is for every set of threads, elements and messages, with the
one assumption that the special values are none of them and that the thread that
calls `init` is a caller.

* `Exclusion`: `MutexSpec => []MutualExclusion`, which is inductive as it stands.
* `FirstInFirstOut`: `QueueSpec => []TakenInOrder`, inductive because it includes
  that the mutex is held exactly in the critical sections.
* `NamedOnce`: `LoggerSpec => []OneName`. The invariant `NameInv` adds that the
  thread that constructs the instance is the first that asked for it, and that a
  thread past `get_instance` finds it constructed.

The last part is about the composition. A step of the program is a step or a
stutter of each component (`MutexSteps`, `QueueSteps`, `LoggerSteps`), so the
three invariants carry over: `ComponentsKept`. `PollsNeverBlock`
(`Spec => []PollDoesNotBlock`) needs `Polled`: a consumer that was told that the
queue is not empty holds the Mutex, and until it takes an element the queue has
one or a producer, inside the critical section of `push`, is about to insert it.

### BumpArena

For every address width, every set of buffers in the address space, every set of
types whose alignment divides the width and their size, and every set of
requests: `BlocksAreSound`
(`ArenaSpec => []BlocksSound`) and `ServesExactly`
(`ArenaSpec => []ServedExactly`). They rest on what `RoundUp` computes, also
where the sum wraps (`RoundedUp`, `RoundedLeast`), on what `std::align` returns
(`Aligned`) and on `NoWrap`: the check of `BumpAllocator.hh:90` means that the
product is the true one.

### Model-checked only

Liveness (`ConsumerProgress`, `ProducerProgress`, `AllReceived`, `AllPrinted`,
`EventuallyWritten`, `DestructorReturns`, `FuturesResolved`) is outside the
prover, as is `ENABLED`. What the loops of `Orderbook`, `TomlParser` and
`MemoryRoutines` compute for inputs of every length (`BookInOrder`,
`MatchesReference`, `TimePriority`, `ServedAsWritten`, `CopiesExact`) needs
induction over data, which the installed provers cannot do.

## Findings

* `Orderbook.hh:90` calls `OrderIdB` the aggressor's id; lines 174-180 store the
  bid in A and the ask in B, whoever is the aggressor.
* `Vector.hh:194`: `resize` computes `new_end` before `_grow_capacity` replaces
  the block, and then constructs elements until it meets that stale pointer.

Read with less certainty, as notes to hazards: zero-sized allocations in
`Vector` fail the assert of line 30; its copy assignment is right for trivially
copyable types only; the records of a thread that registers after the logger's
last snapshot are deleted unread, which `RecordsConserved` states; `MPSCQueue` does not destroy what is left in it; in
`p = move(p->next)` the move assignment of `UniquePtr` reads the deleter of a
handle that its `reset` has destroyed, which matters if deleters have state (the
model sets `fault` there and ends); `start` on a `UdpServer` that was moved from
returns success without a socket, because the move leaves `m_started` set;
`get_market_port` reduces a port above 65535 modulo 2^16; a `#` inside quotes
ends a TOML value; `Mutex::try_lock` answers the opposite of
`std::mutex::try_lock`.

## Not modelled

The contents of messages and log lines; `send` and `recv`, which change no state
of the classes; `Socket::reset`, which nothing calls; calls other than
assignment and destruction on objects that were moved from; `bad_alloc`; the
observers of `ThreadPool` and `SPSCLogger::get_num_threads`; handles inside
objects managed by `shared_ptr`; exceptions of `std::make_shared` and of the
queue in `ThreadPool::enqueue`; `get_double` and the trimming of blanks in
`TomlParser`; `LoggerImpl.hpp`, which no longer matches its declaration; and the
components marked so in `PROJECT.json`: clocks, floating point, 64-bit
pseudo-random bit operations, enumerations, and drafts that do not compile.

## Plan

A composition of `SPSCLogger` with the code of `Vector` for the race of its
constructor.
