# TLA+ specifications of LibJuno

LibJuno is a C library for embedded software: containers, a block allocator, a
software bus, time, CRCs, vectors and interfaces (modules with a vtable and no
dynamic memory), with example applications and an editor extension built on it.
This directory holds TLA+ modules of its stateful parts and its algorithms, TLC
configurations that check them on small instances, and TLAPS proofs of the results
that matter most, for every size of pool, queue, field and client set.

All paths below are relative to the repository's root. Requirement numbers
(REQ-...) refer to `requirements/*/requirements.json`.

## 1. The system

Every part of the library is passive: a function call runs to completion on the
caller's thread, takes no lock and allocates nothing. The hard behaviours are
therefore (a) *partial failure*: almost every operation calls back into code of
the application (`SetAt`, `GetAt`, `RemoveAt`, `Copy`, `Reset`, `Compare`,
`Swap`, `Hash`, ...), any of which may answer an error in the middle; (b) long
*sequences* of legal calls; (c) *numeric edges*: circular, heap and probe indices,
carries and roundings of time, int32 overflow, a CRC fed in chunks. Concurrency
appears around the library: the UDP example runs two threads, the car example
passes messages between two applications, and the editor extension keeps an index
in one event loop whose reads and writes overlap while files change and the window
may close.

| Component | State it keeps | Operations | Interacts with | What makes it correct |
|---|---|---|---|---|
| Block allocator, `src/juno_memory_block.c` | high-water mark `zUsed`, free stack `ptMetadata[0..zFreed-1]` | `BlockInit`, `Get`, `Update`, `Put` | clients' descriptors (`JUNO_POINTER_T`, passed by value), the pointer trait's `Reset` | no block is shared, none is lost, contents do not leak, a block that is out can be put back |
| Pointer trait, `memory/pointer_api.h` | none | `Copy`, `Reset`, verification | implemented by applications, called by every container | each caller survives its failure |
| Queue, `src/juno_buff_queue.c` | `iStartIndex`, `zLength`, the array | `Init`, `Enqueue`, `Dequeue`, `Peek` | array interface, pointer trait | FIFO order across wrap-around and failures, no copy left behind |
| Stack, `src/juno_buff_stack.c` | `zLength`, the array | `Init`, `Push`, `Pop`, `Peek` | as above | LIFO order; slots are never cleared, so no stale item may come out |
| Hash map, `src/juno_map.c` | the table only (no length) | `Init`, `Get`, `Set`, `Remove` | the application's `Hash`, `Equals`, `IsValueNull` | a dictionary under collisions |
| Heap, `src/juno_heap.c` | `zLength`, the array | `Init`, `Insert`, `Update`, `Heapify`, `SiftDown`, `Pop` | the application's `Compare`, `Swap` | heap order, nothing lost, `Pop` hands out a largest element |
| Message broker, `src/juno_broker.c`, `sb/broker_api.h` | registry of pipes; each pipe is a queue | `BrokerInit`, `RegisterSubscriber`, `Publish`, `PipeInit` | publishers and subscribers on one thread | every pipe holds what was published for it, in order |
| UDP example, `examples/udp-threads` | two threads with a broker, a scheduler table and two apps each; `bStop` flags; two sockets | spawn, loop, stop, join; `OnStart`/`OnProcess`/`OnExit` | threads share the UDP loopback and the flags only | order and no duplication end to end, orderly shutdown |
| Time, `src/juno_time.c` | the caller's timestamp, updated in place | add, subtract, compare, conversions to and from counts and doubles | clients | exact carry and borrow, rounding, refusal of what does not fit |
| CRC, `src/juno_{zip,kermit,ccitt,ccitt32,arc,binhex}.c` | constant tables; the running value is the caller's | one update function each | callers that feed a message in chunks | the remainder of the polynomial division, a receiver accepts what was sent and no burst of damage |
| Vectors and quaternions, `math/juno_vec.h` | none | sums, products, norms, conjugate, reciprocal | callers | one algebra for all element types, rotations undone |
| State machine, `sm/sm_api.h`, `examples/example_state_machine.c` | current state, counters of the states | init, verify, act, exit, reset, transition | the traffic light's loop | a light is entered fresh, every light recurs |
| C++ containers, `ds/juno_buff.hpp` | indices and array | enqueue, dequeue, peek, push, pop | callers | the same FIFO and LIFO queues |
| Example project, `examples/example_project` | target and current speed, a pipe of depth one each way, the clock | `OnStart`, `OnProcess` of two apps | broker, time | no message is refused, the engine follows the target |
| Workspace index, `vscode-extension/src/{indexer,cache}` | index, file hashes, reads and saves in flight, the cache file | `reindexFile`, `removeFile`, `fullIndex`, `loadFromCache`, `saveToCache` | editor events, files | the index follows the files, a hash vouches for a file's definitions wholly or not at all, no assignment leads nowhere |
| Array, scheduler, application, mutex, log, I/O interfaces | none in the library | | implemented by applications | |
| The extension's parser, resolvers and server; scalar math, other C++ headers, hash, conventions (`module.h`, `macros.h`, `status.h`), scripts | none that outlives a call | | | |

`PROJECT.json` lists the same components with their status, and under "hazards"
each place of the code that is hard to test, with the properties that watch it.

## 2. The modules

| Module | What it is |
|---|---|
| `AllocSpec` | what the allocator interface promises: blocks held by at most one descriptor, handed out clean, refused only for a reason the caller can see |
| `MemoryBlock` | the block allocator with its clients; implements `AllocSpec` |
| `JunoArray` | the array interface: slots, `SetAt`, `GetAt`, `ResetAt` (the code's `RemoveAt`), as functions |
| `JunoQueue` | the circular buffer's operators, shared by `BuffQueue`, `Broker`, `CppBuff` and `ExampleProject` |
| `FifoSpec`, `BuffQueue` | a FIFO queue as a sequence; the queue as its callers see it, with every failure, which implements it |
| `LifoSpec`, `BuffStack` | a LIFO stack as a sequence, and the array stack that implements it |
| `CppBuff` | the C++ queue and stack; implements `FifoSpec` and `LifoSpec` |
| `Broker` | the broker over pipes that are `JunoQueue` buffers, of several element types |
| `MapSpec`, `JunoMap` | a bounded dictionary, and the linear-probing table |
| `PriorityQueueSpec`, `JunoHeap` | a priority queue, as the number of elements of each priority; the binary heap, a loop round by round, which implements it until something fails |
| `JunoTime` | every function of `juno_time.c` as an operator, at parametric widths |
| `TimeSpec`, `TimeClient` | a time as a number of ticks; a client that keeps a timestamp through any calls, which implements it |
| `JunoVec`, `VecClient` | the vector and quaternion functions; a client that composes rotations and the reciprocals that undo them |
| `CrcTables`, `Crc`, `CrcClient` | the six tables; the six update functions; a caller that feeds a message in chunks, with polynomial division as the reference |
| `TrafficLight` | the state machine interface as the traffic light drives it |
| `ExampleProject` | the car example: two apps, two `JunoQueue` pipes, `JunoTime` stamps |
| `UdpThreads` | the two-thread UDP example; its pipes are sequences, which is what `BuffQueue` is proved to be |
| `WorkspaceIndexer` | the extension's index, its cache and the world around it |
| `Containers` | the queue, the stack, the map, the C++ containers and the broker side by side, each by itself |
| `MemoryBlockProofs`, `ContainerProofs`, `JunoHeapProofs`, `JunoTimeProofs`, `AlgorithmProofs`, `CrcProofs`, `UdpProofs`, `ProgramProofs` | theorems, section 5 |
| `MC...` | instances for TLC |

`Containers`, `MCAlgorithms` and `MCPrograms` put several components that share
nothing into one run. A variable `which`, chosen by the initial state, says whose
behaviour it is; the other components stay where they began, so the states add up
and do not multiply, and each property speaks of its own component.

Correspondence with the code. Variables carry the names of the C fields
(`zUsed`, `zFreed`, `ptMetadata`, `iStartIndex`, `zLength`, `uSeqNum`, `bStop`).
An action is a whole call, or one outcome of it: `Enqueue`, `EnqueueFull` and
`EnqueueSetAtFails` are the outcomes of `JunoDs_QueuePush`. The failures of the
application's callbacks are actions of their own, or a choice of the point at
which a loop stops (`StoppedAt` in `Broker`). In `JunoHeap` a round of a loop is
a step: `sift` says which call's loop runs and where it is, no other call begins before it
returns, and a failure ends it at any round. Variables marked "history" exist for the properties only:

* `last`: the last call, its argument and its status;
* `live` (`MemoryBlock`): addresses handed out and not put back;
* `due` (`Broker`, `JunoHeap`): what was accepted and not handed out;
* `holed` (`JunoMap`): a `Remove` has cut the probe chain of another entry;
* `failed` (`JunoHeap`): an application's operation has failed since the heap
  was last empty;
* `monitored`, `processed` (`UdpThreads`): what the two consumers dequeued;
* `peeked` (`CppBuff`), `tTimeCall`, `tSource` (`TimeClient`), `turns` (`VecClient`),
  `seed`, `fed` (`CrcClient`), `tMillis` (`ExampleProject`): what the last call, or all
  of them, were about;
* `misread` (`WorkspaceIndexer`): files a read of which has failed since they last changed.

Abstractions worth knowing:

* *Contents.* An element is a model value, its bytes are never looked at. In
  `MemoryBlock` the content of a block is who wrote it last; in `JunoHeap` it is
  its priority.
* *Addresses* are byte offsets from the pool's start, so the alignment, range and
  equality checks of `Put` are the code's own arithmetic.
* *size_t* is unbounded but for the one sum that can really wrap, `iHash + i` in
  the map, taken modulo `SIZE_MAX + 1`. Lengths are bounded by capacities.
* *NULL arguments and foreign vtables* (`Verify` at the head of every function)
  are left out: those calls return before they touch any state.
* *Threads.* A step of `UdpThreads` is one `OnStart`, `OnProcess`, `OnExit`, one
  look at `bStop`, or one step of `main`. What an app does in between touches
  only its own thread's broker, so nothing finer is visible to the other thread,
  apart from the one `Send` or `Receive` of the step. `bStop` is a `volatile bool`
  written by one thread and read by another; the builds of the example make that
  a plain byte store and load, so it is an atomic variable here.
* *Network.* The loopback socket keeps order; a datagram is delivered, dropped, or
  refused by `send` with an error. It is neither duplicated nor reordered. The receiving
  socket is bound to every address: strangers may send to it, datagrams that `recv`
  truncates to a message's size and shorter ones, which the size check refuses.
* *Doubles.* `JunoTime`'s doubles are integers in units of `1 / DoubleGrid` seconds; a
  conversion to one rounds to that grid. The vectors' floating-point components are integers: rounding is left out, and
  a reciprocal is a pair of numerator and denominator. `int32` arithmetic is undefined
  where its result does not fit.
* *The event loop.* Code between two awaits is one step of `WorkspaceIndexer`. A file's
  text is a model value that is also its hash. A read gets the text of some moment, or fails. All
  saves write one temporary file; a save beside another one may leave a cache that cannot be parsed.
  Each vtable is of an API type of its own, declared in a header that does not change.
* *Noise and clock.* `rand` is any value of `Noise`, and the monotonic clock moves on by
  any amount when it is read.

## 3. What is checked

`tlc -config X.cfg M` for each line; states are distinct states.

| Run (.cfg) | Properties | Instance | States |
|---|---|---|---|
| `MemoryBlock` | TypeOK, ExclusiveOwnership, NoBlockLost, Isolation, PutAccepted, ImplementsAlloc | 3 blocks of 2 bytes, 4 descriptors | 29,499 |
| `MemoryBlockDoubleFree` (violated) | DoubleFreeRejected | the same, 3 careless descriptors | |
| `Containers` | TypesOK, NoStaleItems, PipeHoldsDue, ImplementsFifo, ImplementsLifo, CppImplements, MapUntilHoled, SetIsVisible, PrefixFanOut | capacity 3, 3 items; 3 map slots, 4 keys, 4-bit `size_t`; 3 pipes of 2 types, 3 registry entries, 2 messages | 61,549 |
| `StackPeek` (violated) | PeekPointsToItem | capacity 3 | |
| `MapHoles` (violated) | Retrievable | 3 slots, 4 keys, hashes that do not wrap | |
| `Algorithms` | HeapOrder, NothingLost, StampCanonical, RoundTrips, RoundsHalfUp, RotationsUndone, OneAlgebra, CrcIsRemainder, ReceiverAccepts, ImplementsTime, IsPriorityQueue | heap of 5, 3 priorities; 15 ticks a second, 20 seconds; 2 of 3 rotations; messages of 3 bytes over the full tables | 202,233 |
| `HeapPopStatus` (violated) | PopSucceeds | capacity 3, 2 priorities | |
| `UdpThreads` | TypeOK, InOrder, ProcessedWasPublished, BridgeNeverRefused, CleanExit, HangsOnlyInReceive | pipes of 3, socket of 3, 6 messages, 1 stray datagram | 242,265 |
| `UdpShutdown` (violated) | Shutdown | pipes of 2, socket of 2, 2 messages | |
| `UdpWedge` (violated) | PublishesEachCycle | pipes of 2, socket of 2, 4 messages | |
| `Programs` | OneMessageUnderWay, TargetLeadsByOneStep, FreshLights, ElapsedMonotone, IndexConsistent, EngineCatchesUp, EveryLightRecurs, ReportedChangeIndexed | seconds that wrap after 2, 8 clock values, 5 noises; 3 lights; 2 files of 2 texts, 3 acts, 2 in flight | 267,440 |
| `IndexSkips` (violated) | SkipsOnlyCached | the same | |

Why the bounds are enough.

* *MemoryBlock.* Three blocks are the fewest with a last, a middle and a first
  block, so that the two ways of taking a block back (lowering `zUsed`, pushing)
  mix; four descriptors outnumber the blocks, so the pool runs empty. Sizes 0 to
  `zTypeSize + 1` cover every branch. The proofs lift all of it to any pool.
* *Containers.* At capacity 3 the indices wrap with every fill; three items tell order
  and duplication apart. Proved for every capacity (C queue). In the map, three slots and
  four keys: the table can be full and still miss a key. `SIZE_MAX` is 15 because 16 is not
  a multiple of 3, as 2^32 is not a multiple of most capacities; hashes 0 and 5 collide with
  others' probes around the end of the array, hash 15 wraps. In the broker, two pipes of
  different element types (`Types`) share a message id and one has another; the registry
  has room for a pipe registered two or three times. `MaxMsgs` bounds the messages
  composed; repetitions of a refused one are free, and overflow a pipe of three.
* *Heap.* Five slots give a root, an inner node, and a last inner node whose
  children are the last slots; every loop may fail in every round, and Heapify in several of its
  loops.
* *Time.* 15 ticks to the second (all ones, as the code has it) and 20 seconds, with 10, 5 and 2 counts per second: carries, borrows, the
  last second and all the roundings; `CountMax` is small enough that late seconds overflow a
  count in the product and in the sum, as 64-bit nanoseconds do not, so both guards are
  taken. `DoubleGrid` is 16, a power of two as a double's resolution is, beside 15 ticks, so that
  no fraction but zero is exact in both.
* *Vectors.* `TurnBound` is 2: products of products, both orders. `I32_MAX` is 7, so that
  an int32 vector overflows within a few multiplications.
* *CRC.* The first byte is any byte (`Openings`), so each table entry is used; later `Chunks` are of up to two
  bytes of four, `LengthBound` bytes in all: they reach every byte of the register.
* *UdpThreads.* Pipe and socket hold fewer messages than are composed, so both fill
  up. `MaxSeq` bounds `uSeqNum`: thread 1's loop waits at the bound until `main` has
  asked it to stop, which `main` can do at any moment before. `MaxStrays` datagrams of
  strangers arrive anywhere.
* *Programs.* `ClockBound` is beyond the range of the seconds field, so the stamps wrap;
  `RpmBound` keeps the noise from raising the target after two steps. `MaxActs` changes of
  files, reads that fail and uses of the command: a change, its undoing, and one more, a failure or
  a command in between; `MaxInFlight` reads, and saves, overlap. Two files are the fewest of which one
  defines what the other's vtable names.

Symmetry is used with safety properties only. Deadlock is checked everywhere but
in `UdpThreads`, whose processes really end or block.

What the passing runs say, beyond their one-line descriptions in `PROJECT.json`:

* `ImplementsAlloc`: besides exclusive, clean blocks, the allocator answers "out of
  memory" to a legal size only when every block is out, and `Put` never takes a
  block that is out for a free one.
* `NoStaleItems`: the queue's `RemoveAt` and index arithmetic agree, so that nothing
  dequeued survives in the array. The stack has no such property (it never clears a
  slot), but `ImplementsLifo` shows that it never hands such an item out.
* `PrefixFanOut`: `Publish` gives up at the first pipe that refuses, and what it has
  done by then is exactly a prefix of the registry. `PipeHoldsDue` holds through
  retries, double registration and re-initialisation of a registered pipe.
* `MapUntilHoled`: every step is a step of the dictionary until a `Remove` takes out
  a slot that another entry's probe chain passes through; `SetIsVisible` holds even
  afterwards.
* `HeapOrder`, with `Heapify` ignoring the errors of its sifts: the out-of-bounds
  status of `SiftDown` comes from nodes without children only. A failed operation
  can disturb the order; it is in order again once the heap has been emptied.
* `HangsOnlyInReceive`: whichever `pthread_create` fails and wherever the flags find
  the threads, `main` exits or thread 2 waits in `recv` for ever with thread 1 joined.

* `ImplementsTime`: the carry in base `SUBSECS_MAX` and the borrow make seconds and
  subseconds one number of ticks, for all durations, and sums wrap where the seconds do only.
  `RoundsHalfUp` finds the code's answer equal to the rounded exact quotient, and a refusal
  exactly where it does not fit.
* `CrcIsRemainder`: each of the six functions over its table, for any cut of the message into
  chunks, is the remainder of the long division by its polynomial; an empty chunk returns 0 and so
  starts a new message. `ReceiverAccepts`: a receiver that runs the message and its check
  through the same function gets 0, or ZIP's one constant, whatever the message.
* `OneAlgebra`: dot, cross and norm of doubles in three dimensions, those of two, those of int32
  in three as long as they are defined, and the quaternions' product agree with each other. It is what
  catches a product of the wrong handedness; `RotationsUndone` is true of either. Of the int32 and single-precision
  operations in two dimensions no property speaks: they are the same expressions.
* `OneMessageUnderWay`: pipes of depth one suffice although nobody reads the status of
  `Publish`. `ElapsedMonotone`: the stamp of the start is never after one of the telemetry.
* `ReportedChangeIndexed`: whatever reads of one file are in flight, the text that the
  watcher reported gets into the index, unless the file changes again, a read of it fails or the
  window is closed. It does not say that an older text goes: see section 4.
* `IndexConsistent` speaks of definitions, and of where assignments lead. That a hash
  may stand without its file's assignment is the question of `SkipsOnlyCached`; that the cache may
  be unreadable is left open (section 4).

Fairness. `UdpThreads`: weak fairness of `main`, of thread 1 and of thread 2. The operating
system runs every thread that is not blocked, `nanosleep` ends, and `pthread_join` returns
once the thread has. Nothing is assumed of the network, nor that a reception ever fails or
that a stranger sends: `BridgeReceiveFails` and `Stranger` are outside the fair part.
`ExampleProject` and `TrafficLight`: weak fairness of the next step of a sequential loop that
waits for nothing. `WorkspaceIndexer` (`IndexerFairness`): weak fairness of the scan, of the
reads and their continuations, of the saves and the timer, and of each file's events: the
event loop runs what is settled or due. Changes of files, reads that fail, the command and the end of
the process are not fair.

## 4. Where code and documents disagree

Each violated run has TLC find a behaviour of the code that contradicts the words
quoted in `PROJECT.json`, "findings":

1. `Put` accepts a second free of a block that went back by lowering `zUsed`
   (`memory_block.h`: "Double frees are rejected."). Even so the pool's own books stay
   intact (theorem `BooksIntact`); what breaks is that two clients may get one block.
2. `Remove` leaves a hole in a probe chain; entries behind it are not found any more and
   a later `Set` stores the key a second time (REQ-MAP-006).
3. `Pop` of a heap answers an out-of-bounds error after doing all its work, when the new
   root sinks to a node near the end of the array.
4. `main` never exits when thread 2 waits in `recv` after thread 1 has stopped: the
   receiving socket has no `SO_RCVTIMEO`, which the design asks for (REQ-UDPAPP-023).
5. After enough failed sends MonitorApp's pipe is full, `SchExecute` returns at SenderApp's
   error before it reaches MonitorApp, and nothing is published any more (REQ-UDPAPP-004).
6. The C++ stack's `StackPeek` points to the slot above the newest item (`buff_api.hpp`).
7. `removeFileRecords` drops a vtable assignment with the file its function is defined in;
   the file that makes the assignment keeps its hash, and `loadFromCache` skips it as cached.
   A new definition of the function is enough, no crash is needed.

Disagreements seen in the code, which the models contain but no run is devoted to. Where a
property passes, it does so with the code's behaviour, not with the documents':

* The C queue answers `OOB_ERROR` in three places where the documents, `queue_api.h:43-45` ("per
  implementation") and the requirements, have another status: `Enqueue` on a full queue
  (`juno_buff_queue.c:42`, `EnqueueFull`; REQ-QUEUE-004 and `queue_api.h:88`: `INVALID_SIZE_ERROR`),
  `Dequeue` on an empty one (line 72, `DequeueEmpty`; REQ-QUEUE-006 and `queue_api.h:93`: `ERR`)
  and `Peek` on an empty one (line 87, `Peek`; REQ-QUEUE-008 and `queue_api.h:97`: `INVALID_SIZE_ERROR`).
  `tests/test_queue.c:327`, `:418` and `:512` assert `OOB_ERROR`. `FifoSpec`, and with it
  `ImplementsFifo`, has the code's statuses.
* The C stack answers `OOB_ERROR` to `Push` on a full stack (`juno_buff_stack.c:43`, `PushFails`), `Pop` on an
  empty one (line 69, `PopEmpty`) and `Peek` on an empty one (line 85, `Peek`). `stack_api.h:41-43, 78, 83, 87`
  and REQ-STACK-004, 006 and 008 say `INVALID_SIZE_ERROR` to all three, `tests/test_stack.c:326`, `:417` and
  `:535` assert `OOB_ERROR`. `LifoSpec`, and with it `ImplementsLifo`, has the code's statuses.
* The stack's `Pop` lowers `zLength` before `GetAt` and `Copy`; when one fails the item is
  gone (`PopCopyFails`). The queue does it in the other order.
* A full pipe keeps a message from every matching pipe registered after it, against
  REQ-SB-006 (`PublishFails`).
* When `iHash + i` wraps and the capacity does not divide 2^w, the probe sequence visits
  some slots twice and others never, and the map answers `TABLE_FULL` with a slot empty
  (`ProbesEverySlot` is what rules it out).
* The heap's `Insert` overwrites the status of a failed `SetAt` with that of `Update`
  (`InsertSetAtFails`).
* `removeFile` schedules no save, against `docs/design/08-error-cache.md` (`RemoveFile`), and
  `fullIndex` does not clear the index first (`ReindexWorkspace`): what a file listed before
  stays, beside what it lists now. These are its sections 9.3 and 9.4.
* By its section 8.2 a file that cannot be read is skipped with a warning; `indexFile` skips it in
  silence (`ReadFails`), and `loadFromCache` has dropped its records by then while its hash stays.
* By 9.2 files that are in `fileHashes` and no longer on disk are removed from the index; `loadFromCache`
  looks at the files on disk only, so their records and hashes stay (`Scanning`).
* By 9.5 writes of the cache are debounced; those at the end of `fullIndex` and `loadFromCache` are
  not (`ScanFinishes`), which is how two come to be in flight. They share the temporary file, so that one
  may rename what the other has half written; the process ends, and the cache cannot be parsed
  (`Save` and `Kill` may leave `NoCache`), against 9.5's "preventing a corrupt cache".
* By 9.3 a file's old records are replaced. When two readings of a file overlap, of two events or of an event
  and a pass, both are merged, and the older definitions stay beside the newer ones (`Reindexed`, `ScanMerges`).

## 5. What is proved

Eight modules of theorems, checked by `tlapm` to the last leaf, for
every value of the constants that satisfies the assumptions named in the modules:
`BlockInitAssumption` and `CapacityAssumption` (positive sizes, which
`JunoMemory_BlockInit` and `JunoDs_ArrayVerify` check), `ValueAssumption` (the null
address and the marks for contents are distinct from everything else),
`WidthAssumption` (a count is
coarser than a tick, and the conversions' products fit the largest count), `ClientAssumption`, `VecAssumption` and `VecClientAssumption`
(what clients pass has the type C gives it), `ExampleAssumption` (pipes of depth one,
noise of at most ten, and milliseconds that hold every value of the seconds field),
`ContainersAssumption` (a map of one slot or more, hashes that fit `size_t`, a mark for
an empty slot that is no key), `BrokerAssumption` (each pipe has an id and an element type),
`HeapAssumption` (a heap of one slot or more, priorities greater than that of a cleared slot),
`UdpAssumption` (depths of one or more) and `CrcClientAssumption` (chunks of bytes, none of them
empty: the empty chunk is an action of its own). `TableAssumption` has no constant in it: it says of each of the 1536 table
entries that it is the remainder of its byte, a fact that TLC evaluates at the beginning of the run
`algorithms` and the proofs about CRCs rest on.

**Block allocator.** None of the safety invariants is inductive alone: that a popped
block is not out needs the free stack to be disjoint from the live blocks, and that it
has left the stack for good needs the stack to hold no address twice. The inductive
invariant is

    IInv == TypeOK /\ ExclusiveOwnership /\ NoBlockLost /\ NoDuplicates /\ Isolation

`InitIInv` and `NextIInv` (one lemma per action that moves a block: `GetBlockStep`,
`GetRollbackStep`, `PutBlockStep`; one, `QuietStep`, for all that do not) give
`Invariance`, from which `TypeCorrect`, `NoSharedBlock`, `BlocksAccounted` and
`ContentIsolated` follow. `PutNeverRefusesBlock` adds a counting argument (`RoomOnStack`):
a free stack without duplicates that leaves out one live block has at most
`zLength - 1` entries, by the pigeonhole principle, so the overflow test never fires. It
assumes `StrideAligned`, a type's size is a multiple of its alignment, as C has it;
`JunoMemory_BlockInit` does not check this. `Refinement` (under the same assumption) shows
each step to be one of `AllocSpec`, or a stutter.

`BooksIntact` is about `CarelessSpec`, whose clients also keep copies of descriptors,
free twice and pass addresses of their own: `zUsed` and `zFreed` stay in bounds, the free
stack holds only addresses inside the pool's memory, and none twice. Its invariant
`CarelessInv` says nothing about who holds what, since nothing of the kind is true.

**Queue** (`ContainerProofs`). `Wrap` and `SlotFacts` settle the modular arithmetic: the slots
`(iStartIndex + k - 1) % zCapacity` are distinct for `k` in `1..zCapacity`. From them
`PushAppends`, `PopShifts` and `PopTakesHead` say what `Push` and `Pop` do to the
sequence of queued items, and `PushNoStale`/`PopNoStale` what they leave in the array.
`TypeCorrect`, `NothingLeftBehind` and `Refinement` (the circular buffer implements
`FifoSpec`) follow by induction over steps. `TypesCorrect` collects the bounds of all C containers
and of the broker: a step of the run is a step of one of them (`QueueOfContainers`,
`StackOfContainers`, `MapOfContainers`, `BrokerOfContainers`).

**Stack, C++ containers, broker** (`ContainerProofs`, about `Containers`). The stack's array below
`zStack` is the abstract stack (`LowSlots`, `LowSlotsPush`, `LowSlotsPop`), and the failure of an
array operation changes neither: `StackRefinement`. The C++ queue advances its start index as
the C one does, but clears no slot; `AdvancedTakesHead` shows that this takes the head all the same. With `CppQueueOK` and `CppStackOK` (the indices and the records' shapes), which are
inductive, `CppRefinement` follows.

The broker's `Publish` pushes a message once for each registration of a pipe, up to the first
that fails. `PushTimesAppends` says what several pushes do to the contents of a
circular buffer, `TakesRoom` that the guard of each push is room for all of them,
`BusFansOut` that the history `due` and the pipe stay equal. The inductive invariant is
`BusInv == Bus!TypeOK /\ Bus!PipeHoldsDue`: the contents can only be compared while the indices are in range.
`PipesHoldWhatIsDue` follows, and `PublishServesPrefix`, an action
property, from `BusInv` at the beginning of the step: a pipe whose `due` grows is registered
at a position the loop has passed, so every earlier position was passed too.
`LeastElement` (a set of naturals has a least element) takes the place of induction over naturals;
it is proved from the well-founded order of the subsets of a finite set.

**Hash map** (`ContainerProofs`). `FirstStop` and `IsFirstStop` say that a call sees the first slot of
the probe sequence that is empty or holds its key. From them, `SetFound`: an entry written where
the probing for its key stopped is found there by the next probing, whatever else is in
the table; hence `SetMakesVisible`. It needs no more than the types.

`MapRefinement` needs the table to keep every entry retrievable:

    MapInv == Map!TypeOK /\ (~holed => Map!Retrievable)

`StillFound` is the step: a key stays where it was found if no slot that changed stops its
probing earlier. A `Set` writes where only the empty mark or its own key was
(`SetKeeps`); a `Remove` empties a slot, which is harmless exactly when the slot is on no other
key's chain, and `holed` records the other case (`RemoveKeeps`). That `TABLE_FULL` means a full
dictionary needs every probing to reach every slot: `ProbeOnce` shows that a probing that does not wrap
around `size_t`, or wraps where the capacity divides `2^w`, visits no slot twice (two indices
with equal remainders differ by a multiple of the capacity, hence by 0), `ProbeEvery` by counting
that it visits all, `FullWhenNoneEmpty` by counting that as many keys are present as there are slots
exactly when none is empty. Both hypotheses of `MapUntilHoled` are needed: run `map_holes`
shows what a cut chain does.

**Heap** (`JunoHeapProofs`). Order cannot hold in the middle of a loop; what does is

    Rising:  every node but the one moving up is held by its parent, and the
             children of that one are held by its parent too
    Sinking: from the node where the loop began, every node but the one moving down
             holds its children, and the children of that one are held by its parent

`HeapInv == HeapTypeOK /\ SiftOK /\ OrderInv /\ NothingLost`, where `OrderInv` asks, until
something fails, for the one that fits the call under way, or for the whole order between
calls. `RiseStep`, `RisePast` and `SinkStep` carry the two
from round to round, `BestIs` that the child chosen is the one that makes `SinkStep` apply.
A loop of `Heapify` that ends leaves `Sinking` for the node before it (`SiftReturnsStep`), the
out-of-bounds error included: a node without a place for a child holds all its
children. `NothingLost` goes by the number of copies of a priority: `SwapCounts` gives
a bijection between its positions before and after a swap, `CountOneMore` the count when the
array gains or loses its last element, `SubBagByCopies` and `SameBagByCopies` what that means
for the bag `due`. `RootHoldsAll` (the least node greater than the root would have a
lesser node as its parent) says that between calls the root is a greatest element
(`RootIsGreatest`). `HeapRefinement` puts the three together: until an operation of the application fails,
the number of copies of each priority below `zLength` is the state of `PriorityQueueSpec`, which by
`NothingLost` is `due`; an `Insert`, a `Heapify` and a `Pop` change it as a queue does, a round of a loop
leaves it alone. The mapping uses the array, not the history: a round that
lost an element would be a step no queue takes.

**Time.** `DivisionAlgorithm`, `DivBelow`, `ModOnce`, `Distribute` and `QuotientIs` are the
arithmetic the provers need to be told. `AddExact` and `SubtractExact` say that the code's carry and
borrow are addition and subtraction of ticks modulo the width of the seconds; `CountCanonical` and
`DoubleCanonical` that a conversion never leaves a whole second in the subseconds.
`StampStaysCanonical` and `TimeRefinement` (every call is one of `TimeSpec`) follow, with
`StampCanonical` inductive as it stands. `RoundedCount` says that rounding the fraction alone, by
adding the truncated half (`HalfUp`), rounds the whole time, and that the two
guards together refuse exactly the sums beyond `CountMax` (`CountGuards`): `ConversionsRound`.
`CountComesBack` and `DoubleComesBack` do the same for the ways there and back;
`ConversionsComeBack` adds the invariant `SourceInv`, that a stamp which remembers its count is what
that count was converted to.

**Rotations.** `RotationsAlwaysUndone`: `RotationsUndone` with the types is inductive because
the Hamilton product is associative (`Associative`), the norm multiplicative (`NormsMultiply`,
from `FourSquares`), and a quaternion times its conjugate is its norm (`ConjCancels`). `VectorsAndQuaternionsAgree`
(`OneAlgebra`) holds by the types alone: `Lagrange` for the products of doubles, `SmallProduct`
and `Int32Exact` for the int32 ones, where factors whose squares are a third of the width
have products within a third of it.

**CRC** (`CrcProofs`). What a loop over a message computes needs induction over its length. The
library's induction theorems take the formula as a parameter, which the provers cannot
instantiate; `SetInduction` says it for a set of numbers instead (a set that has 0 and, with each number
below `n`, the next one, has all up to `n`) and is proved by the pigeonhole principle. The argument about one byte:

* `XorBits`: `Xor` of two bytes is addition modulo 2 of their bits, from the bits of nibbles.
* `DivideShifted`: if a register is the sum of `r`, moved up by `j` places, and of `q`, then a step of the
  division moves `r` up by one more place and divides `q`, by the bit of `r` that leaves the register plus that of
  the message. So after eight bits `r` has moved up by a byte and `q`, which began as 0, has been
  divided by one byte: the first of `r` plus that of the message.
* `EightSteps`: by `TableAssumption` that `q` is the table entry the loop takes, and the moved `r` is the
  word the loop shifts. A pass of the loop is eight bits of the division, for all six functions: the
  three that shift left and the three that shift right differ only in the order of bits and bytes.

`LoopDivides` is the induction over the message, from any register. `CrcInv` says of the client that
`iCrc` is a word and the bits of its register are the remainder of what was fed since the last empty
chunk; it is inductive, and `CrcIsTheRemainder` follows for messages of any length, cut in any way.
`OwnBytesCancel`: a register that is fed its own bytes, in the order it would send
them, is 0. ZIP hands out the complement, so it is 0 but for what four bytes of
ones leave (`ZipResidue`): `ReceiverAlwaysAccepts`.

`BurstsDetected` is what a CRC is for: messages of one length that differ, all within 16 or 32
consecutive bits (in the order in which the function takes them), have different CRCs. The proof goes
back and then forth (`SameEndSameBits`). If two divisions end alike, they were alike after the last bit in which
the messages differ, because the polynomials' last coefficient is 1 and a step can be undone (`DivideBack`). Further back
one coefficient more is unknown at each bit, but never the last one, as long as there are no more
bits than the register has. Forward from the first difference, where the divisions are alike as they
began alike, that last coefficient says which bit left the register, so the bits of the messages
were equal after all. `ReceiverRejectsBursts` says the same of what the receiver sees. Both are
theorems about the update functions and not properties of a run, whose messages are
too short for a burst to lie anywhere in them.

**Programs.** `PipesSuffice` and `TargetNeverRunsAway` rest on

    ExampleInv: the command pipe is empty at SystemManager's turn and holds the target
    at Engine's, when the telemetry pipe is empty; before both apps are started nothing
    is under way; target and speed agree at SystemManager's turn and are at most one
    step apart at Engine's; every stamp is canonical

which needs `PublishFills` and `PopEmpties` about a circular buffer of one slot, and
`MillisFit`: no stamp of the clock is refused by `TimestampToMillis`, whatever the clock.
`ElapsedNeverGoesBack` adds `ElapsedInv`: telemetry under way carries the stamp of the clock as it
is, and what was logged last is at most what the clock gives now. `NowTicks` shows the stamp of a
clock reading to be the reading in ticks, rounded, so it grows with the clock as long as
the seconds do not wrap. `LightsEnterFresh` rests on `LightInv`, which adds the types and that no light counts before `main` runs.

**UDP example** (`UdpProofs`). Two invariants, the second on top of the first:

    Running == TypeOK /\ HistoriesOK /\ Lifecycle /\ RoomForOne /\ BridgeNeverRefused
    Ordered == InOrder /\ ProcessedWasPublished /\ Numbered

`Lifecycle` relates main's step to those of the threads: which thread exists, whose flag may
be set, whose socket is open. Without it neither `TypeOK` nor `CleanExit` is inductive.
`Numbered` says that whatever is on thread 1 carries a number `SenderApp` has counted to, so that
the next message is greater than all before; appending, taking the head and dropping
a message keep `OwnIncrease` (`OwnAppend`, `OwnDrop`, `OwnPrefix`), which is why lost, refused
and skipped messages do no harm to the order. The theorems hold for every depth of the pipes and the network.

**Workspace index** (`ProgramProofs`). `IndexStaysConsistent` is about what the index promises
although reads, scans, saves and the end of the process interleave at every await:

    IndexerInv: the index, every snapshot being saved and the cache file are Consistent
    (HashVouches and LocationsDefined); a scan's deferred files are initialised by position

Every change of the index goes through one of three operations, and each keeps `Consistent`:
`removeFileRecords` drops, with a file's definitions, every assignment that leads to the file
(`RemovedConsistent`; were it those the file makes, some would lead nowhere), merging a file
enters its hash together with its definitions and resolves its assignments against an index that has
them (`LocationResolved`, `MergedConsistent`), and the end of a pass may only add an assignment of a
file to itself (`DeferredConsistent`). Last, a scan or job that goes on after an await writes to the index as
it is by then, so it does not matter what it read before (`ScanSteps`, `JobSteps`), a read that
fails is as good as an absent file (`ReadFailsSteps`), and a save writes a snapshot that was the index once (`SaveSteps`). The second case of `LocationsDefined`, the assignment
to itself, is needed: without it TLC finds a pass that ends after its file was removed. The
theorem bounds the damage of the divergence `SkipsOnlyCached` reports: what a hash may vouch for in vain
is an assignment, or all of a file's definitions (after a read that fails in `loadFromCache`), never
some of them.

Only model-checked: all liveness (`HangsOnlyInReceive`, `EngineCatchesUp`, `EveryLightRecurs`,
`ReportedChangeIndexed`), since fairness and `ENABLED` are beyond the prover.

## 6. What is not modelled

* Floating-point rounding: doubles are numbers of a grid (time) or integers (vectors).
* Vector types without an operation (four components, matrices), the spherical views of the
  unions, scalar math, and C++ headers other than the containers: no behaviour, or none but
  a formula.
* `hash_djb2`: the map is modelled over any hash function, which is stronger.
* Log, I/O, mutex interfaces: no implementation in the repository.
* The extension's parser and resolvers (sequential functions of a text and of the finished
  index) and its server (lookups).
* In the index: how often a record is listed, and with it the de-duplication in `resolveDeferred`; the
  maps that are overwritten by name; API types that are declared in a file that changes, so that
  `resolveDeferred` never finds one unknown and skips the assignment; and a second use of the command
  while a pass runs, which `extension.ts` does not prevent (`ReindexWorkspace` waits for the end of the pass).
* In the UDP example: `OnStart` failures (they need a full registry or an invalid pipe,
  which the composition root's constants rule out), the thread module's `Free`, and failures of
  `pthread_join`. `OnExit` of the car example is never called.
* Heap: `Update` and `SiftDown` as calls of their own, on a heap the application has
  edited in place.

## 7. Plan

1. `PriorityQueueSpec` with a capacity, so that a refused `Insert` means a full queue.
2. The workspace index: no cache entry for a text the file never had, stated first, then proved.
