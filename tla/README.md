# Verification of the expert-parallel exchange (ep-demo)

ep-demo moves tokens between GPUs for expert parallelism. A *dispatch* launch sends each token to the GPUs of
the experts selected for it, a *combine* launch brings the experts' results back. The kernels write into the
peers' registered memory themselves, by NVLink stores or by RDMA requests they post to the network adapter; no
host takes part. Nothing but counters, flags and signal words in device memory orders these steps. This
project models the kernels, the exchange of several ranks, the device-side work queue, the host code that sets
all of it up and the address arithmetic between them, checks the models with TLC and proves most of the safety
properties with TLAPS.

## 1. Inventory

| part | state | operations | interacts with |
|---|---|---|---|
| dispatch kernel (`src/src/ep_kernel.cu`) | slot and finish counters in the workspace, `packed_recv_count`, `layout_range`, `active_ranks` | token warps, cleaning warp, counting warps, leaders, grid barrier, receiving groups | workspace shared with combine; signal words and rows of the peers |
| combine kernel (same file) | `atomic_clean_flag` (word 0 of the same workspace), `active_ranks` | cleaning warp, send groups, leaders, waits, grid barrier, reduction | reads dispatch's `layout_range`; signal words and rows of the peers |
| exchange of consecutive launches (`BufferPair` in `src/include/ep_buffer.h`, the caller in `src/test/test_dispatch_combine.cpp`) | two halves of a registered buffer, each with signal words, staging area and receive area; queue pairs | choice of the half, cleaning of the other half, launches in stream order | all ranks, in pairs |
| device-side work queue (helpers at the top of `ep_kernel.cu`) | mutex, 16-bit `wq_head`, ring, doorbell record and doorbell page of each queue pair | lock, write a request, store the record, ring the doorbell, unlock | the adapter |
| buffer layout (`ep_buffer.h`, index arithmetic of both kernels) | none | offsets of areas, rows and signal words, choice of the queue pair | sender and receiver must agree |
| warp algorithms (`src/include/ep_utils.cuh`) | none | row copy by 32 lanes, butterfly reductions, packed pair | used by both kernels |
| EpBuffer set-up (`src/src/ep_buffer.cpp`) | memory, tables, stream, device, PD, MR, control buffer, workspace; `ibgda_disabled_` | constructor, `init_ibgda`, destructor | everything below |
| queue-pair pool (`ep_buffer.cpp`, `src/src/ep_ibgda/mlx5gda.cpp`) | queue pairs, completion queues, UAR pages, device contexts | create, `update_local_qpns`, `sync_ib`, `sync_roce` | the heap, the driver, the device |
| control-buffer heap (`src/include/ep_ibgda/memheap.h`) | running total and block table | aligned allocation, free | called by the pool |
| NVLink IPC set-up (`ep_buffer.cpp`) | `nvlink_available`, `ipc_peer_ptrs`, `p2p_ipc_all_enabled_` | `sync_nvlink_ipc_handles`, `use_fast_path` | the kernels' choice of path |
| command layouts (`src/include/ep_ibgda/mlx5_ifc.h`) | none | bit positions of the fields of a device command | the pool writes, the device reads |
| rank bootstrap, single-process tests (`src/test/`) | the table of rank information | accept, receive, broadcast | supplies the pool with remote numbers |

What is hard here, and what correctness means for each part:

- **dispatch**: warps of different blocks run in any order, and one integer per expert
  carries three facts (next buffer clean, number of rows known, rows finished). A signal
  must mean that exactly the announced rows have been written, each in its own slot, and
  that the peers may already send into the other half. Both counters must be zero again at
  the end, although nobody but the leader resets them. Groups claim output ranges in any order.
- **combine**: all leaders look at a flag that other leaders are lowering. It must order
  cleaning before every signal, let every leader pass, and end at zero.
- **exchange**: a signal word carries no round number. That a word, a region, or a staging
  area belongs to this launch and not to the previous or the next one follows only from
  the alternation of halves, the cleaning and the two sides' waits. Timeouts and stopped
  ranks disturb this argument.
- **work queue**: several warps share a context; nobody polls a completion, so nothing but the
  exchange itself keeps the head from overrunning the adapter; the head is 16 bits wide.
- **layout**: sender and receiver compute the same place by different formulas.
- **set-up**: a failure in the middle of a sequence of acquisitions; re-creation in the same
  heap, whose running total doubles as the place of the next fresh block; commands
  filled in through the layout of another command; a fast path that must reach every active
  rank whichever calls succeeded, in whichever order.

`PROJECT.json` lists every hazard at its line with the properties that watch it.

## 2. Modules

| module | models | composed with |
|---|---|---|
| `Dispatch`, `DispatchProof` | one rank's dispatch launches, warp by warp | |
| `Combine`, `CombineProof` | one rank's combine launches, group by group | |
| `RoundExchange` | abstract specification: one contribution per pair of ranks and round, taken exactly once and in order | |
| `Exchange`, `ExchangeProof` | all ranks, consecutive launches, buffers, NVLink and RDMA | refines `RoundExchange` |
| `Addressing`, `AddressingProof` | offsets and contexts, as operators | |
| `RequestQueue` | abstract specification: an unbounded queue of requests per context | |
| `WorkQueue`, `WorkQueueProof` | one rank's contexts: warps, ring, doorbells, adapter | extends `Addressing`, refines `RequestQueue` |
| `Radix` | lemmas about mixed-radix numbers and residues, used by the proofs | |
| `Warp`, `WarpProof` | what the lanes of a warp compute together | |
| `MemHeap` | the allocator, as operators on a heap value | |
| `QpCommands` | the device commands as bit layouts | |
| `QpPool` | creation, replacement and connection of queue pairs | extends `MemHeap`, `QpCommands` |
| `EpSetup`, `SetupProof` | the life of one `EpBuffer` | extends `QpPool` |
| `MCDispatch`, `MCCombine`, `MCExchange`, `MCWorkQueue`, `MCSetup` | small instances | |

### Dispatch

`step` and `slot` follow each routed (token, selection) pair through its warp: `TakeSlot` (atomic add on
`atomic_counter_per_expert`), `WriteRow`, `FinishItem` (atomic add on `atomic_finish_counter_per_expert`).
`CleanNext` and `TagExpert` are the last warp of block 0, `CountExpert` the last warp of every block,
`SyncThreads` the block barrier, `SendSignal` and `ResetCounters` a leader. `GridSync` leads to the receive
part (`ReceiveSignal`, `GiveUp`, `CopyRows`). A launch has both phases, or only the send phase followed by a
launch with only the receive phase (`ReturnSend`, `LaunchRecv`). `PeerSignal` is the environment: a peer's
signal, at any time after the launch began. Rows are abstracted to (slot, token), so the FP8 conversion and
the byte layout of a row are left out. The words a launch receives in are zero at its start; `Exchange` is
about when that is so.

### Combine

`cleaner`, `leader` and `waiter` are the program positions of the cleaning warp and of sub-warps 1 and 0 of
each group. `LaunchAttrs` says which launches are cooperative: a grid barrier outside a cooperative launch
aborts the grid (`AbortAtGridSync`), and the error is sticky (`StayAborted`). With `zero_copy` (`ep_kernel.cu:693`)
the caller has staged the rows itself and the kernel only omits that copy; the row is sent in the same way. The reduction is abstracted to
the set of experts added to a token.

### Exchange

A region of rows is abstracted to the round whose rows it holds, `stage` likewise. A group posts its rows in
one step and its signal in another; the finer interleavings inside a launch are those of `Dispatch` and
`Combine`, whose `SignalCoversRows` and `SignalAfterClean` justify the two guards used here (a signal follows
its rows, and follows the cleaning). A queue pair is a sequence of requests executed in order (`Execute`,
external: a reliable connection); a row request reads the staging area when it is executed, not when it is
posted. `Crash` stops a rank; what it posted may still arrive. `SendWord` and `RecvWord` are the two kernels'
index computations, which differ.

### Addressing

Pointers are offsets into the registered buffer. `HalfBase`, `SendSignalArea`, ... are the constructor of
`BufferPair`; `RowOffset` and `SignalOffset` what the sender of each kernel computes, `ReadOffset` and
`PollOffset` what the receiver computes from its group number; `Ctx` is the choice of the queue pair and
`PeerRank` the rank the host connected that queue pair to. `DispatchSizes` and `CombineSizes` are the hidden
sizes the two launch macros accept.

### WorkQueue

A job is a row or a signal of a launch for one expert of one peer. A row has two indexes. `StageIndex` is its
place in the staging area: the token in a dispatch (`ep_kernel.cu:198`), the packed position `offset + i` in a combine
(`673-675`). `WriteIndex` is its place at the peer: the slot in a dispatch (`247`), the token in a combine (`680`).
The constants `Rows`, `Token` and `Begin` give the rows of a launch, their tokens and where a peer's rows begin among the
packed ones. A warp takes a ready job, spins on the
mutex (`Lock`), writes the request into the ring (`WriteWqe`), stores the doorbell record in big-endian bytes
(`StoreRecord`), rings the doorbell (`RingDoorbell`) and unlocks; the doorbell page has two halves used in
turn. The adapter (external) learns of a new limit from either half (`Fetch`), in any order, and executes
requests in ring order (`Execute`). Head and limit are modulo `ByteBase^2`, which stands for 2^16.
`NextLaunch` assumes `OldRequestsDone`: when a launch returns, the requests of all earlier launches have been
executed. That is what `BacklogTwoRounds` of `Exchange` shows, and the only protection of the ring: without it
`ImplementsRequestQueue` fails by overrun.

### Warp

`InLoop` and `InRest` are the elements a lane copies in the unrolled loop of `UNROLLED_WARP_COPY` and after
it. `WarpReduceSum` and `HalfWarpReduceMax` are the butterflies over `Partner` (lane xor mask); `Pack2` and
`Unpack2` carry two signed 32-bit integers in 64 bits. Reductions are over integers: rounding of floats is
left out.

### MemHeap, QpCommands, QpPool

`AlignedAlloc` and `Free` are the allocator as written, including its use of `allocated` both as the total and
as the place of the next fresh block. `AllocQueue`, `CreateCq`, `CreateRcQp`, `GiveUp` and `DestroyQp` compute
the heap, the driver's objects (UAR pages, completion queues, queue pairs) and the structure each function of
`mlx5gda.cpp` leaves when a driver call fails at a given point, with `mlx5gda_create_cq`'s error exit as
written (it frees neither of its blocks). `leaks` is a history variable, which no action reads: the failures of
`Leaking`, the three points after which the code keeps what it allocated. A command is the set of bits the code writes: a layout is a sequence
of (field, width) pairs, `Set` writes fields at the positions of the layout the *code* names and `Apply` is
the device, which reads at the positions of the layout of the command it got; `init2rtr` and `rtr2rts` fill
their buffers through the structure of `rst2init`. One step of `QpPool` is one iteration of a loop over the
queue pairs.

### EpSetup

`Calls` is the sequence of acquisitions of the constructor and of `init_ibgda`; each may fail, and each has
its own consequence: an exception, the return of -1 (which sets `ibgda_disabled_`), or none: a failed `ibv_reg_mr`
leaves `mr` null, a failed `mlx5dv_init_obj` (`ep_buffer.cpp:252-254`) leaves the number of the protection domain unset, so that
the device may refuse any queue pair (`CreationFailures`). Each table of the constructor is an acquisition of its own.
`SyncIb`, `SyncRoce` and `SyncNvlink` may be called in any order and repeatedly, with any set of active ranks
that contains the own rank; `Update` is `update_local_qpns`; `Destroy` the destructor. `Reaches` is the path
the kernels would take to a rank.

## 3. Runs

| run | instance | shows |
|---|---|---|
| `dispatch` | 3 ranks, 1 local expert each, 2 experts per block (2 blocks), 2 tokens with 2 selections, 4 routing tables, launch after launch | `SignalCoversRows`, `RowsInRegion`, `WorkspaceRestored`, and `SendInv`, the inductive invariant of the proofs |
| `dispatch_live` | 2 ranks, 2 blocks, timeouts, peers that may stay silent | `LaunchReturns`; `SelfStaysActive`; `Packed` and `OutputMatchesRange` when ranks are given up |
| `combine` | 4 groups of 2 sub-warps, 3 rows in one group, cooperative and plain launches, timeouts | `SignalAfterClean`, `FlagRestored`, `ReducesArrivedRows`, `CooperativeReturns` |
| `combine_launch` | every launch plain, as the host code makes it | `CombineReturns` violated (finding 1) |
| `exchange` | 2 ranks over RDMA, 6 launches | `ConsumesOwnRound`, `AtMostOneAhead`, `StagingIntact`, `NothingArrivesEarly`, `BacklogTwoRounds`, `EveryLaunchReturns`, refinement of `RoundExchange` |
| `exchange_crash` | 2 ranks over NVLink, rank 1 may stop anywhere, timeouts, 3 launches | `EveryLaunchReturns` for the rank that stays up; `FreshBetweenActive`: two ranks that have not given up each other read the rows of their own launch |
| `late_signal` | 2 ranks over RDMA, timeouts, 3 launches | `NoStaleRows` violated (finding 3) |
| `exchange_one_buffer` | one half for everything, as in the tests | `ConsumesOwnRound` violated (finding 2) |
| `work_queue` | rank 1 of 2, 2 local experts that share a context, 2 warps, ring of 8, head modulo 16, 6 launches | `OneWriter`, `SignalLast`, `LandsWhereRead`, `OutstandingApart`, `LaunchesEnd`, refinement of `RequestQueue` |
| `setup` | 3 ranks with a queue pair each, rings of the real size, 4 machines, 2 updates, failures of every constructor call and of every point of the pool | `RingsPlaced`, `DevctxCurrent`, `NothingLeaked`, `ContextAsIntended`, `FastPathReaches`, `MemoryUndone` |
| `init_failure` | one machine on which only the last step of a creation may fail | `FailureCleansUp` violated (finding 4) |
| `fast_path` | one machine with fabric memory | `FastPathComplete` violated (finding 5) |

Each module also has its type invariant checked (`TypeOK`).

**Bounds.** Dispatch and Combine have no bound on the number of launches. Two tokens with two selections let
two warps of one block and of two blocks compete for one expert's counter; three ranks and blocks of two make
the last block partly empty. Tag 4 stands for `FINISHED_SUM_TAG` (1024): the protocol only needs a positive
tag, which the proofs confirm. Six launches use each half three times with both kernels, so every reuse of a
word by the same and by the other kernel occurs. With timeouts three launches are enough: the third reuses the
half of the first, which is when a late signal can be taken for one of its own. Several experts that share a
queue pair and mixtures of NVLink and RDMA are left to the theorems. In `work_queue` the head passes 2^16 (here
16, twice the ring as 65536 is four times 16384) and the ring several times, and two launches' requests are in
it at once; the launches have two rows for one expert, a returned row and rows for both experts, whose tokens are
not in the order of their slots and whose packed rows do not begin at 0, so that no term of an address is zero
throughout. In `setup` the control buffer holds four queue pairs for three, and the table has four entries per
queue pair, as 1024 for 256 in the code; two updates reuse blocks freed from reused blocks, and what leaked
creations leave unusable. Several queue pairs per rank are left to the theorems. The four machines
are InfiniBand over two nodes, RoCE with one device per node, a device in one node whose `cqe_version` is refused,
and a port without a usable GID on fabric memory. The outcomes `enableFails` and `openFails` of an IPC mapping
have the effect of `noAccess` and are left out of the run.
Every bound is a constant in a `.cfg`: `LastRound`, `LastLaunch`, `MaxUpdates`.

**Fairness.** Weak fairness of each warp's steps: a kernel's blocks are all resident in a cooperative launch,
so every warp keeps being scheduled; a warp that spins on a mutex keeps trying, and `LaunchesEnd` holds with
weak fairness since each warp posts finitely many requests. Weak fairness of `Execute` and `Fetch`: a reliable
connection executes or retries what was posted, and the adapter looks at its doorbells. `PeerSignal` is fair
only without timeouts (a live peer sends); with timeouts nothing is asked of the peers. A launch with the
receive phase follows a launch without it, since the caller owns a pending receive; in `Exchange` and
`WorkQueue`, whose number of launches is bounded, the caller goes on to the last one. No launch is otherwise
required to start. `Crash` is never fair, and no step of `EpSetup` is.

**What the passing runs assume.**
- `exchange`: `DoubleBuffered = TRUE` is the use `BufferPair` and the parameter `next_clean_buffer` are made for: halves in
  turn, the other half cleaned. No code under `src/` switches `buffer_idx`; the tests do not alternate (finding 2).
  `FreshWords = {0}` assumes that the first launch finds zeroed words; nothing zeroes the buffer (`ep_buffer.cpp:143`), and with
  `FreshWords = {0, 1}` `ConsumesOwnRound` fails: a leftover word is a signal.
- `exchange_crash`: `FreshBetweenActive` says nothing of two ranks of which one has given up the other. It cannot:
  the late signal of a rank that was given up is taken by a later launch as its own (`late_signal`).
- `setup`: no failure is left out. After `cqRing`, `cqObject` (`mlx5gda_create_cq`'s exit frees neither its ring nor its
  record, `mlx5gda.cpp:163`) or `rst2init` (the queue pair is neither stored nor destroyed, `ep_buffer.cpp:290`, `329`)
  blocks stay in use without an owner, and since `allocated` is both the total and the place of the next fresh
  block (`memheap.h:106`) a later update may then place rings over each other. The history variable `leaks` records
  which of the three exits were taken: `RingsPlaced` and the half of `NothingLeaked` about the heap are claimed while
  there was none, the half about the driver's objects unless a `rst2init` failed. What the documents promise for all
  failures is `FailureCleansUp` (finding 4).
- `setup`: every peer passes one IPC handle. A caller that passes too few leaves `nvlink_available = 1` without a
  pointer (`ep_buffer.cpp:488-504`); no caller in the repository does, and the case is not modelled.

## 4. Findings

1. `combine` calls the grid barrier but is launched without the cooperative attribute
   (`ep_kernel.cu:757`, `819-828`): the launch aborts.
2. The tests use one half for dispatch and the following combine and clean a private array
   (`test_dispatch_combine.cpp:329,362`): a combine group takes dispatch's signal for its own and is about to
   read the rows of the wrong round.
3. A timeout does not make an exchange safe (`ep_kernel.cu:371`), although `MD/EP_DEMO_ANALYSIS.md:130` speaks of
   fault tolerance: rank 0 gives up rank 1 in launches 1 and 2; rank 1's rows and signal of launch 1 arrive after
   rank 0 has cleaned that half in launch 2; launch 3, which uses the half again, takes the signal for its own
   and is about to copy the rows of launch 1. No rank failed in this run; one was slow.
4. `init_ibgda` does not clean up when it fails, although `MD/PROCESS.md:74` says so. In the run every call of the
   constructor succeeds and the first queue pair is created, but its `rst2init` fails (`ep_buffer.cpp:290-293`): the
   object is usable with IBGDA disabled while the driver still has the completion queue, the queue pair and
   two UAR pages, four blocks of the control buffer stay in use, and context, protection domain, memory region, control
   buffer, its registration and the heap are held. The earlier exits (`228` and after) keep fewer of them.
5. On fabric memory `sync_nvlink_ipc_handles` marks every active rank reachable and leaves its pointer null
   (`ep_buffer.cpp:457`), so `use_fast_path()` is true when the kernels cannot write to a peer.

Also seen, outside a run: on a RoCE port `sync_ib` is refused (no port number in the address vector) and the
process exits.

## 5. Proofs

| theorem | states | for every |
|---|---|---|
| `DispatchProof!TypeCorrect` | `TypeOK` | number of ranks, experts, blocks, tokens, selections and launches, positive tag, set of routing tables |
| `DispatchProof!SendCorrect` | `SendInv` | same |
| `DispatchProof!SignalCorrect` | `SignalCoversRows` | same |
| `DispatchProof!WorkspaceCorrect` | `WorkspaceRestored` | same |
| `DispatchProof!RegionCorrect` | `RowsInRegion` | same |
| `DispatchProof!SelfActiveCorrect` | `SelfStaysActive` | same |
| `DispatchProof!PackedCorrect` | `Packed` | same |
| `DispatchProof!OutputCorrect` | `OutputMatchesRange` | same |
| `CombineProof!TypeCorrect` | `TypeOK` | number of ranks, experts, sub-warps, tokens and launches, layout, cooperative or plain launch |
| `CombineProof!CombineCorrect` | `CombineInv`, the inductive invariant | same |
| `CombineProof!SignalCorrect` | `SignalAfterClean` | same |
| `CombineProof!FlagCorrect` | `FlagRestored` | same |
| `CombineProof!ReduceCorrect` | `ReducesArrivedRows` | same, with and without timeouts |
| `ExchangeProof!TypeCorrect` | `TypeOK` | number of ranks, experts, queue pairs and launches, sequence of kernels, number of rows, mixture of NVLink and RDMA, halves used in turn or not |
| `ExchangeProof!ExchangeCorrect` | `ExchangeInv`, the inductive invariant | same, with halves in turn and zeroed words, timeouts or not |
| `ExchangeProof!FreshCorrect` | `FreshBetweenActive` | same, with timeouts and stopped ranks, each half always used by the same kernel |
| `ExchangeProof!OwnRoundCorrect` | `ConsumesOwnRound` | as `ExchangeCorrect`, without timeouts |
| `ExchangeProof!AheadCorrect` | `AtMostOneAhead` | same |
| `ExchangeProof!StagingCorrect` | `StagingIntact` | same |
| `ExchangeProof!BacklogCorrect` | `BacklogTwoRounds` | same |
| `ExchangeProof!EarlyCorrect` | `NothingArrivesEarly` | same |
| `ExchangeProof!RefinementCorrect` | `ImplementsRoundExchange` | same |
| `WorkQueueProof!OneWriterCorrect` | `OneWriter` | number of ranks, experts, warps, launches, rows, ring size and width of the head |
| `WorkQueueProof!QueueTypeCorrect` | `TypeOK` | same |
| `WorkQueueProof!SignalLastCorrect` | `SignalLast` | same |
| `WorkQueueProof!LandsCorrect` | `LandsWhereRead` | same, and every assignment of tokens to rows and packed layout |
| `WorkQueueProof!ApartCorrect` | `OutstandingApart` | same |
| `WorkQueueProof!QueueRefinement` | the steps of `WorkQueue` are steps of `RequestQueue` (`ImplementsRequestQueue` without its fairness) | same |
| `SetupProof!TypeCorrect` | `TypeOK` | number of ranks and queue pairs, ring size, heap size, table size, set of machines, set of failures, updates |
| `SetupProof!MemoryCorrect` | `MemoryUndone` | same |
| `SetupProof!DevctxCorrect` | `DevctxCurrent` | same |
| `SetupProof!FastPathCorrect` | `FastPathReaches` | same |
| `SetupProof!RingsCorrect` | `RingsPlaced` | same, with the sizes of `Geometry`; every failure allowed |
| `SetupProof!LeakCorrect` | `NothingLeaked` | same |
| `SetupProof!ContextCorrect` | `ContextAsIntended` | as `TypeCorrect`, with numbers that fit their fields (`NumbersFit`); every failure allowed |
| `AddressingProof!LayoutCorrect` | the areas of both halves are disjoint and inside the size hint | number of ranks, experts, tokens, supported hidden size, message format |
| `AddressingProof!RowsInsideCorrect` | no row leaves the data area of its half | same |
| `AddressingProof!RowsApartCorrect` | rows that differ in sender, expert or slot do not overlap | same |
| `AddressingProof!ReadsCorrect` | the receiver reads where the sender writes | same |
| `AddressingProof!ContextCorrect` | a request's context exists and is connected to its rank | same, at least one queue pair per rank |
| `AddressingProof!AlignmentCorrect` | rows are 16-byte aligned | same, even number of experts |
| `WarpProof!CopyCorrect` | each lane copies its elements of a row once and nothing else | row length, both unroll factors |
| `WarpProof!SumCorrect` | every lane has the sum of 32 | values |
| `WarpProof!MaxCorrect` | every lane has the maximum of its 16 | values |
| `WarpProof!PairCorrect` | unpacking returns what was packed | two signed 32-bit integers |

**Assumptions.** `Dispatch`: `SizeAssumption` (positive sizes, `Rank` is a rank), `InputAssumption` (the
selections of a token are distinct, peers announce at most `MaxTokens` rows) and `SmAssumption` (at least two
blocks, asserted by the kernel). `Addressing`: `AddressingAssumption` (positive sizes, a hidden size both
launch macros accept, at least as many queue pairs as ranks). `Combine`: `CombineAssumption` (positive sizes,
at least two sub-warps per group as the kernel has, a reduction of known groups). `Exchange`:
`ExchangeAssumption` (positive sizes, kernels known by name). `WorkQueue`: `WorkQueueAssumption`: the ring
divides the range of the head (16384 and 65536); the head counts further than the ring and two more, since a
half of the doorbell page may still hold an index up to two behind the head; the requests of two consecutive
launches fit in the ring, which the code relies on without a test of it; and `RowAssumption`: the rows for an
expert are of different tokens, and the packed rows for different ranks do not overlap, which `SignalCoversRows` and
`OutputMatchesRange` show of a dispatch. `MemHeap`, `QpPool` and `EpSetup`:
`HeapAssumption`, `PoolAssumption` (positive sizes, queue pairs shared out evenly) and `SetupAssumption` (what a machine may look like, the outcomes of opening an IPC handle). TLC
evaluates all of them in the runs. `Warp` and `Radix` have none.

Three hypotheses of the theorems of `ExchangeProof` are constants of the runs: `DoubleBuffered` and
`FreshWords = {0}` are discussed in section 3, and without either TLC refutes the conclusions; `~Timeouts` is
asked only where a theorem says that no wait is ever given up. `FreshCorrect` does without it and assumes
`SteadyKinds` instead: a half is always used by the same kernel, as when dispatch and combine alternate. Between
linked ranks the argument needs it because the words of the two kernels are numbered differently: with
another sequence of kernels a late signal of a rank that was given up could be in a word of a third rank.

`RingsCorrect` and `LeakCorrect` have two hypotheses. `Geometry`: a ring is a whole number of pages, a page a
whole number of records, the table of blocks has four entries per queue pair, and the control buffer has room
for two rings and two pages per queue pair (in the code 1 MiB, 4096 bytes, 1024 entries for 256 queue pairs, and
1 GiB). `Distinct`: the driver never gives a number twice. `MCSetup` assumes both, so TLC evaluates them. No
failure is excluded; the properties say what is left after the three exits that leak (section 3).

`ContextCorrect` has one hypothesis, `NumbersFit`: a ring of at most 2^15 entries (16384 in the code; a larger
logarithm does not fit the four bits of `log_sq_size`), user access regions and remote queue pairs with numbers
of 24 bits and LIDs of 16, the widths of the fields they go through. Nothing in the code tests it; the driver
and the peers give no larger numbers. `MCSetup` assumes it, so TLC evaluates it.

**Dispatch.** Neither `SignalCoversRows` nor `WorkspaceRestored` is inductive: both need to know what the
counters count. `SendInv` says it:

- `CounterMeaning`: until its leader is done, an expert's slot counter is the number of its items
  that took a slot, and its finish counter is the sum of the cleaner's tag (if given), the
  tag minus the number of routed items (if counted) and the number of finished items; afterwards both are zero;
- `ProgressOrder`: tags follow the cleaning, a block passes its barrier after its experts are
  counted, and a leader past its wait has seen everything finish;
- `SlotMeaning`: slots handed out are 0 .. k-1, one item each, and the rows written are those of the items past
  their copy.

The key lemma is `TwoTags`: for a counted expert, the value 2 * Tag can only mean "tagged and all items
finished", because finished items never outnumber routed ones. There is one lemma per action (`TakeSlotKeeps`,
..., `ResetKeeps`), put together in `SendStep`. `RegionCorrect` adds the pigeonhole argument: with distinct
selections, at most one item per token is routed to an expert, so slots stay below `MaxTokens`.
`SelfActiveCorrect` uses its own invariant, `OwnSignals`: a rank's own words are set by the end of the send
part, hence never zero when a receiving group looks.

`PackedCorrect` and `OutputCorrect` add `ReceiveInv`. For each local expert (`Filled`) the ranges claimed so
far fill `0 .. packed - 1` without overlap, since each claim is one atomic add, and the output rows of a source
whose copy is done are exactly those of its range, as many as its signal announced. While a launch sends, nothing is claimed and `packed_recv_count` is zero where the
leader of rank 0's group has reset it. That this is all of the local experts by the grid barrier is why the
reset needs no barrier of its own.

**Combine.** `CombineInv` says what the flag counts (`FlagMeaning`): after the cleaner raised it by the number
of experts, the leaders that have still to lower it. So it is zero before the raise, stays positive for every
leader that has still to look, and ends at zero. `LeaderOrder` puts the rows before the barrier of a group,
the cleaning before every leader past the flag, and all leaders through when no launch sends. `WaitMeaning`
says that a signal follows its rows and that a wait ends with a signal or gives the rank up.

**Exchange.** `ExchangeInv` is `SteadyKinds \/ NoneGivenUp => Core`. `Core` describes what every place shared by
two ranks holds in terms of the rounds of its two ends, as long as they are `Linked`: neither has given up the
other. Of the other pairs it says only that their requests go to words of their own (`QueueWords`), so that late
rows and signals of a rank that was given up spoil nothing between linked ranks. Its parts: `LaunchOrder` (a
signal follows the cleaning, the end of a launch all signals), `Consumed` (a wait or a launch was left only
with the signals of its round), `QueueMeaning` (each queued request, its round, its order behind its rows and
the staging area it will read), `AddsOnce` (no two queued signals for one word), `SignalMeaning` (the words of
the half in use, of the other half once it is clean, and before that), `RowsMeaning` and `DataBound` (the rows
of a half are of its own rounds and arrive before their signal), `UsedMeaning`. The heart is a fact about two
ranks: a rank ends a round only after every peer has posted that round's signals and thereby cleaned the half
for the next one. Hence two ranks are at most one launch apart, a word is written by one signal between two
cleanings, and a staging area is rewritten after its requests were executed. `RadixDigits` and `Ends` show
that the two kernels' word indices, which differ, name one channel each. `RefinementCorrect` maps `given` to
`GivenTo` (the last round for which a rank has sent every signal to another one) and `taken` to `TakenFrom`
(the last round of which a rank has read every row of another one): the last signal to a rank is the abstract
give, the last group to read a rank's rows the abstract take, every other step stutters.

**WorkQueue.** `LockInv` adds to `OneWriter` the types of the mutex, of the jobs and of the program positions:
a warp holds a context exactly between `Lock` and `Unlock`, and the mutex is 1 exactly when some warp does.
`QueueInv` adds the memory: `JobsInv` (every request of a launch is waiting, in a ring or carried out, in one
of the three only), `RingInv` (between `done` and `head` the ring holds complete requests of this launch or
the last one, each once, and no more than fit), `DoorbellInv` (the record names the head, each half of the
doorbell page an index at most two behind it), `SignalInv` (a signal stands behind its rows). That a write
never overruns the ring is a pigeonhole argument: the ring holds distinct requests of two launches, which fit
by assumption, and the request about to be written is not among them. A set of lemmas about counters on a
circle replaces the order of indexes by distances, which is where `Wrap > Ring + 2` is needed: `Fetch` moves
the limit only if the index it sees is ahead of it. `QueueRefinement` maps the requests between `done` and
`head` to the abstract queue: `WriteWqe` is the abstract enqueue, `Execute` the abstract serve, every other
step stutters. `LandsCorrect` and `ApartCorrect` combine `RingInv`, which says that every outstanding entry is the `Wqe` of a
job, with the theorems of `AddressingProof`; the two halves and `RowAssumption` keep the requests of two launches and of
two contexts apart. `NextLaunch` has `OldRequestsDone` as a guard; `BacklogCorrect` is the theorem about all ranks
that justifies it.

**EpSetup.** `SetupInv` has four parts: `Typed`, with a structure in each slot of the table or none;
`Building` (the calls of the constructor are taken in order, and before the adapter is opened the object holds
what the calls so far acquired, so that each failure undoes all of it); `Contexts` (a creation loop has the
device contexts of the queue pairs before its index right, and all when it ends without a failure); `Paths` (a
rank marked reachable over NVLink has its pointer; a rank connected since the last creation has its address,
and each of its queue pairs is in state RTS). The lemmas about the heap say what an allocation and a release
do to a heap value in each of their cases. `MemoryCorrect` is about the communication buffer only: an exception at one of the later calls
(a table, the stream, the device name, the control buffer, the workspace) leaves what was acquired before held, since a
constructor that throws runs no destructor.

`RingsCorrect` and `LeakCorrect` need the shape of the heap after any sequence of releases and reuses. It is
simpler than the code suggests, because every creation asks for ring, record, ring, record, each loop creates in
the order of the index, and an update destroys everything before it creates anything. `Shaped` says so, and `PoolShape` claims
it while none of the three leaking exits was taken: the
k-th ring and the k-th record of the table are always at the same two places (`RingAt`, `DbrAt`, one ring and one
page apart), the queue pairs that exist are an interval of indexes, and exactly their entries are used. Creation
extends the interval at its end, destruction shortens it at its front. The running total, which the heap uses
both as the amount in use and as the place of the next fresh block, is then the end of the last block less the
sizes of the unused pairs (`Level`). So it names the end of the table exactly when every entry is used, the only
time a fresh block is placed by it: `RingReuse` and `DbrReuse` are the cases in which an entry is taken again,
`RingBump` and `DbrBump` those in which the table grows. `PoolObjects` adds, after whatever failures, that each queue pair has
the numbers of a creation of its own (`MadeAs`), and, unless a `rst2init` failed, that the driver has no other objects
(`Accounted`): the other exits give the driver's objects back even when the heap is no longer in shape.

`ContextCorrect` goes from bits to contexts in four steps. A layout is a list of fields; `BitsTo` gives the bits
before each of them, and the fields of any list lie behind one another, so two of them never overlap. Hence a field that
a command sets is read back cut to its width. The lemmas `CqContext`,
`QpContext`, `InitContext`, `RtrContext` and `RtsContext` say for each command what the device's context holds after
it: since the three modify structures have one layout, the buffers that `init2rtr` and `rtr2rts` fill through
`rst2init`'s structure are read as they were meant, and since the commands take disjoint sets of fields none of them spoils what an
earlier one set. `KnownInv` follows the queue pairs through the pool: each one is known to the device with its own ring,
record and completion queue and open for remote writes, it is directed at its peer once it is in state RTS, and
the creations so far are within the numbers there are (`Budget`). No failure is excluded: a creation that
fails stores no queue pair, and a connection that fails ends the process.

**Addressing.** The row of (sender, expert, slot) has the index of a mixed-radix number, different in the two
kernels; two such indices are equal only for equal digits, hence rows are a whole message apart. A dispatch
message is longer than the values it carries, and still fits since the data area reserves 32 bytes more per
row than the values need (lemma `MessageFits`).

**Warp.** The elements of a lane are those congruent to it modulo 32; the unrolled part covers the multiples
of the stride below the row's length and the rest what follows. A butterfly step doubles the block of lanes
over which every lane has the sum or the maximum.

**Only model-checked.** All liveness properties (`LaunchReturns`, `CooperativeReturns`, `EveryLaunchReturns`,
`LaunchesEnd`) and the fairness part of `ImplementsRequestQueue`: liveness under fairness and ENABLED are beyond
the prover. Every invariant a passing run checks is also a theorem.

## 6. Not modelled

- The memory model of the GPU and the wrappers of single PTX instructions: a release store and the row copies before it
  are taken as ordered. The NVLink signal is released at `gpu` scope and acquired at `sys` scope (`ep_utils.cuh:250`).
- `poll_cq` (no caller), the unused launch macros of `ep_launch.cuh`, the getters.
- The other structures of the vendored `mlx5_ifc.h`, about 94 % of it: the program never names them.
- The FP8 conversion and the floating-point arithmetic of the reduction: data.
- A CUDA error between the creation of two queue pairs or while a table is copied, which leaves the object half changed by an exception.
- The `int` conversion of `get_num_ep_buffer_bytes` (offsets are unbounded integers here), and more ranks than `MAX_QP_COUNT`.
- The TCP bootstrap and the callers in the tests, one request and one answer per process; a vector of remote queue-pair
  numbers of the wrong length is a fault of the caller.

## 7. Plan

Modelling is complete but for the parts of section 6, and every safety property of the passing runs is proved. What
would say more: a model of the creation steps that leak (section 3) with the error exits repaired, for which
`RingsPlaced` and `NothingLeaked` should hold without their guards on `leaks`, and the unbounded numbers of `Addressing` at
their 32-bit widths.
