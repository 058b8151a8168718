------------------------------- MODULE EpSetup -------------------------------
(***************************************************************************)
(* The life of one EpBuffer (src/src/ep_buffer.cpp): the constructor with  *)
(* init_ibgda, the queue pairs (QpPool), the connection to the peers over  *)
(* InfiniBand or RoCE and over NVLink, and the destructor.  The calls of   *)
(* the driver and of CUDA (external) may fail, and what the code does then *)
(* is part of the model.  Not modelled: a CUDA error between the creation  *)
(* of two queue pairs or while the tables of sync_nvlink_ipc_handles are   *)
(* copied, an exception that leaves the object half changed.               *)
(***************************************************************************)
EXTENDS QpPool, SequencesExt

CONSTANTS
    Rank,        \* this process
    IpcOutcomes  \* what may come of the attempt to map a peer's buffer

\* A call of the constructor: what it acquires, what the code gives back when it
\* fails, and how the code goes on then: an exception leaves the constructor
\* ("throw"), init_ibgda returns -1 ("disable"), or nobody notices ("ignore").
Call(name, gets, undo, then) == [name |-> name, gets |-> gets, undo |-> undo, then |-> then]

\* Mutant: the reserved range is forgotten when the mapping fails.
FabricCallsKeepRange ==
    << Call("cuDeviceGet", {}, {}, "throw"), Call("granularity", {}, {}, "throw"),
       Call("cuMemCreate", {"memory"}, {}, "throw"),
       Call("cuMemAddressReserve", {"range"}, {"memory"}, "throw"),
       Call("cuMemMap", {"mapping"}, {"memory"}, "throw"),
       Call("cuMemSetAccess", {}, {"memory", "range", "mapping"}, "throw") >>

FabricCalls ==
    << Call("cuDeviceGet", {}, {}, "throw"), Call("granularity", {}, {}, "throw"),
       Call("cuMemCreate", {"memory"}, {}, "throw"),
       Call("cuMemAddressReserve", {"range"}, {"memory"}, "throw"),
       Call("cuMemMap", {"mapping"}, {"memory", "range"}, "throw"),
       Call("cuMemSetAccess", {}, {"memory", "range", "mapping"}, "throw") >>

MallocCalls == << Call("cudaMalloc", {"memory"}, {}, "throw") >>

\* A cudaMemset that fails leaves what the failure of the next call leaves.
TableNames == {"raddrs", "rkeys", "qp_devctxs", "nvlink_available", "ipc_peer_ptrs_host",
               "ipc_peer_ptrs"}
TableCalls ==
    << Call("raddrs", {"raddrs"}, {}, "throw"), Call("rkeys", {"rkeys"}, {}, "throw"),
       Call("qp_devctxs", {"qp_devctxs"}, {}, "throw"),
       Call("nvlink_available", {"nvlink_available"}, {}, "throw"),
       Call("ipc_peer_ptrs_host", {"ipc_peer_ptrs_host"}, {}, "throw"),
       Call("ipc_peer_ptrs", {"ipc_peer_ptrs"}, {}, "throw"),
       Call("stream", {"stream"}, {}, "throw") >>

\* The list of devices is given back only after the last query that may fail.  The
\* calls that are ignored leave mpd, the number of the protection domain, unset and
\* mr null.
IbgdaCalls ==
    << Call("deviceName", {"deviceList"}, {}, "throw"),
       Call("ibv_open_device", {"context"}, {}, "disable"),
       Call("ibv_query_port", {}, {}, "disable"), Call("gidIndex", {}, {}, "disable"),
       Call("ibv_query_gid", {}, {}, "disable"),
       Call("ibv_alloc_pd", {"pd"}, {}, "disable"),
       Call("mlx5dv_init_obj", {"mpd"}, {}, "ignore"),
       Call("ibv_reg_mr", {"mr"}, {}, "ignore"),
       Call("ctrlBuf", {"ctrlBuf"}, {}, "throw"),
       Call("umem", {"umem"}, {"mr"}, "disable"),
       Call("memheap_create", {"heap"}, {}, "disable") >>

\* supportFabricMem: asked for by MC_USE_NVLINK_IPC=0 and supported by every device.
SupportFabricMem == host.ipcEnv = "0" /\ host.fabricDevices = host.devices

MemoryCalls == IF SupportFabricMem THEN FabricCalls ELSE MallocCalls
Calls == MemoryCalls \o TableCalls \o IbgdaCalls
Released(call) == IF call.name = "ibv_query_gid" THEN {"deviceList"} ELSE {}

IbgdaResources == {"deviceList", "context", "pd", "mpd", "mr", "ctrlBuf", "umem", "heap"}
\* What the destructor gives back.
ObjectResources == {"memory", "range", "mapping", "stream", "workspace"} \cup TableNames

\* findBestGidIndex over the table of the port: the first entry that can be read
\* and is RoCE v2 on an IPv4-mapped address or InfiniBand; -1 if there is none.
GidTypes == {"unreadable", "ib", "v1", "v2", "v2mapped"}
FindBestGidIndex(gids) ==
    LET good == {i \in DOMAIN gids : gids[i] \in {"ib", "v2mapped"}}
    IN IF good = {} THEN -1 ELSE Min(good) - 1

ASSUME SetupAssumption ==
    /\ Rank \in Ranks
    /\ IpcOutcomes \subseteq {"ok", "noAccess", "enableFails", "openFails"}
    /\ \A h \in Hosts :
          /\ h.link \in {"ib", "roce"} /\ h.cqe \in 0 .. 15
          /\ h.gids \in Seq(GidTypes) /\ h.ipcEnv \in {"unset", "0", "1"}
          /\ h.devices \in Nat \ {0} /\ h.fabricDevices \in 0 .. h.devices

\* What callers pass as active_ranks_mask: a process is active itself.
ActiveMasks == {mask \in SUBSET Ranks : Rank \in mask}

VARIABLES
    step,      \* the next call of the constructor
    held,      \* the resources the object has acquired and not given back
    raddrs,    \* the ranks whose address and key are in raddrs and rkeys
    nvlink,    \* nvlink_available[r] on the GPU
    ptrs,      \* ipc_peer_ptrs[r]: "null", "self" or "peer"
    p2p,       \* p2p_ipc_all_enabled_
    ibMask,    \* the ranks connected since the queue pairs were last created
    ipcMask    \* the active ranks of the last sync_nvlink_ipc_handles

linkVars == <<raddrs, nvlink, ptrs, p2p, ibMask, ipcMask>>
vars == <<poolVars, step, held, linkVars>>

Init ==
    /\ PoolInit
    /\ phase = "constructing" /\ step = 1 /\ held = {}
    /\ raddrs = {} /\ nvlink = [r \in Ranks |-> 0] /\ ptrs = [r \in Ranks |-> "null"]
    /\ p2p = FALSE /\ ibMask = {} /\ ipcMask = {}

-----------------------------------------------------------------------------
(* Construction.                                                           *)

CallSucceeds ==
    LET c == Calls[step]
    IN /\ phase = "constructing"
       /\ c.name = "gidIndex" => FindBestGidIndex(host.gids) >= 0
       /\ held' = (held \cup c.gets) \ Released(c)
       /\ step' = step + 1
       /\ phase' = IF step = Len(Calls) THEN "creating" ELSE phase
       /\ UNCHANGED <<host, next, heap, qps, devctx, objs, created, disabled, updates, leaks, linkVars>>

\* The device list is acquired before the device of that name is looked for.
CallFails ==
    LET c == Calls[step]
        kept == IF c.name = "deviceName" THEN held \cup c.gets ELSE held
    IN /\ phase = "constructing"
       /\ IF c.name = "gidIndex" THEN FindBestGidIndex(host.gids) = -1
          ELSE c.name \in Failures
       /\ held' = kept \ c.undo
       /\ \/ c.then = "throw" /\ phase' = "thrown" /\ UNCHANGED <<step, disabled>>
          \/ c.then = "disable" /\ phase' = "workspace" /\ disabled' = TRUE /\ UNCHANGED step
          \/ c.then = "ignore" /\ step' = step + 1 /\ UNCHANGED <<phase, disabled>>
       /\ UNCHANGED <<host, next, heap, qps, devctx, objs, created, updates, leaks, linkVars>>

\* The end of the constructor: the kernels' workspace.
Workspace ==
    /\ phase = "workspace"
    /\ \/ phase' = "ready" /\ held' = held \cup {"workspace"}
       \/ "workspace" \in Failures /\ phase' = "thrown" /\ UNCHANGED held
    /\ UNCHANGED <<host, next, heap, qps, devctx, objs, created, disabled, updates, leaks, step,
                   linkVars>>

\* Where a creation may fail.  With mpd unset its queue pair asks for whatever domain
\* the memory of mpd names; the device (external) refuses every one but the
\* process's own.
CreationFailures ==
    (Failures \cap FailurePoints) \cup (IF "mpd" \in held THEN {} ELSE {"qpObject"})

Pool ==
    /\ (\E f \in CreationFailures \cup {"none"} : CreateOne(f)) \/ DestroyOne
    /\ UNCHANGED <<step, held, linkVars>>

Update == UpdateLocalQpns /\ ibMask' = {}
          /\ UNCHANGED <<step, held, raddrs, nvlink, ptrs, p2p, ipcMask>>

-----------------------------------------------------------------------------
(* Connection.                                                             *)

\* sync_ib and sync_roce; callers ask ibgda_disabled() first, and is_roce() before
\* sync_roce.  The loop that fills raddrs and rkeys reads the memory region of this
\* process through a pointer that a failed ibv_reg_mr left null.
Sync(mask, ah) ==
    /\ phase = "ready" /\ ~disabled
    /\ IF Rank \in mask /\ "mr" \notin held
       THEN phase' = "exited" /\ UNCHANGED <<qps, raddrs, ibMask>>
       ELSE /\ ConnectAll(mask, ah)
            /\ raddrs' = IF phase' = "ready" THEN raddrs \cup mask ELSE raddrs
            /\ ibMask' = IF phase' = "ready" THEN ibMask \cup mask ELSE ibMask
    /\ UNCHANGED <<host, next, heap, devctx, objs, created, disabled, updates, leaks, step, held,
                   nvlink, ptrs, p2p, ipcMask>>

SyncIb(mask) == Sync(mask, [i \in Index |-> IbAh(i)])
SyncRoce(mask) ==
    host.link = "roce" /\ Sync(mask, [i \in Index |-> RoceAh(i, FindBestGidIndex(host.gids))])

Node(r) == r \div host.devices

\* Mutant: the pointers of the peers are not looked at.
AllMappedNever(mask, links, pointers) == TRUE

\* p2p_ipc_all_enabled_: every active rank is mapped, and all ranks are on one node.
AllMapped(mask, links, pointers) ==
    /\ \A r \in mask : links[r] = 1 /\ pointers[r] # "null"
    /\ NumRanks > 1 => Node(0) = Node(NumRanks - 1)

\* sync_nvlink_ipc_handles on memory that is mapped by handle: the active ranks of
\* this node are tried, out[r] is what comes of it.  Every peer has a handle, as on
\* machines of the same kind; a caller that passes too few is not modelled.
SyncIpc(mask, out) ==
    LET tried == {r \in mask \ {Rank} : Node(r) = Node(Rank)}
        links == [r \in Ranks |->
                     IF r = Rank \/ (r \in tried /\ out[r] = "ok") THEN 1 ELSE 0]
        pointers == [r \in Ranks |->
                        IF r \in tried /\ out[r] = "ok" THEN "peer"
                        ELSE IF r = Rank /\ r \in mask THEN "self" ELSE ptrs[r]]
    IN /\ nvlink' = links /\ ptrs' = pointers
       /\ p2p' = AllMapped(mask, links, pointers)

\* The same on fabric memory: every active rank counts as reachable, without pointer.
SyncFabric(mask) ==
    /\ nvlink' = [r \in Ranks |-> IF r \in mask \cup {Rank} THEN 1 ELSE 0]
    /\ ptrs' = [r \in Ranks |-> IF r \notin mask THEN ptrs[r]
                                ELSE IF r = Rank THEN "self" ELSE "null"]
    /\ p2p' = TRUE

SyncNvlink(mask) ==
    /\ phase = "ready"
    /\ IF SupportFabricMem THEN SyncFabric(mask)
       ELSE \E out \in [mask \ {Rank} -> IpcOutcomes] : SyncIpc(mask, out)
    /\ ipcMask' = mask
    /\ UNCHANGED <<poolVars, step, held, raddrs, ibMask>>

\* The destructor: it knows nothing of what init_ibgda acquired.
Destroy ==
    /\ phase = "ready"
    /\ phase' = "destroyed"
    /\ held' = held \ ObjectResources
    /\ ptrs' = [r \in Ranks |-> "null"]
    /\ UNCHANGED <<host, next, heap, qps, devctx, objs, created, disabled, updates, leaks, step,
                   raddrs, nvlink, p2p, ibMask, ipcMask>>

\* Nothing is called any more.
Idle == phase \in {"thrown", "exited", "destroyed"} /\ UNCHANGED vars

Next ==
    \/ CallSucceeds \/ CallFails \/ Workspace
    \/ Pool \/ Update
    \/ \E mask \in ActiveMasks : SyncIb(mask) \/ SyncRoce(mask) \/ SyncNvlink(mask)
    \/ Destroy
    \/ Idle

Spec == Init /\ [][Next]_vars

-----------------------------------------------------------------------------
(* Properties.                                                             *)

\* Type invariant of the object's life.
TypeOK ==
    /\ phase \in {"constructing", "creating", "workspace", "ready", "destroying",
                  "recreating", "thrown", "exited", "destroyed"}
    /\ next \in Index /\ step \in 1 .. Len(Calls) + 1
    /\ heap.allocated \in Int /\ Len(heap.allocs) <= MaxAllocs
    /\ \A i \in Live : qps[i].state \in {"init", "rts"}
    /\ disabled \in BOOLEAN /\ updates \in 0 .. MaxUpdates
    /\ held \subseteq IbgdaResources \cup ObjectResources /\ leaks \subseteq Leaking
    /\ raddrs \subseteq Ranks /\ ibMask \subseteq Ranks /\ ipcMask \subseteq Ranks
    /\ nvlink \in [Ranks -> {0, 1}] /\ ptrs \in [Ranks -> {"null", "self", "peer"}]
    /\ p2p \in BOOLEAN

\* use_fast_path()
UseFastPath == ~disabled \/ p2p

\* The kernels write to a peer through its pointer where nvlink_available says so,
\* and through its queue pairs otherwise.
Reaches(r) ==
    IF nvlink[r] = 1 THEN ptrs[r] = "peer"
    ELSE /\ ~disabled /\ r \in raddrs
         /\ \A i \in Index : PeerRank(i) = r => qps[i] # NoQp /\ qps[i].state = "rts"

\* "use_fast_path(): Returns true if either IBGDA is working or NVLink IPC is fully
\* enabled": once both set-ups have run for the same active ranks (the first only
\* where IBGDA is not disabled), a kernel on the fast path reaches all of them.
FastPathComplete ==
    phase = "ready" /\ UseFastPath /\ ipcMask # {} /\ (disabled \/ ibMask = ipcMask) =>
        \A r \in ipcMask \ {Rank} : Reaches(r)

\* The same where the buffer is not fabric memory, whatever failed on the way, in
\* whichever order the set-ups, their repetitions and update_local_qpns were called.
FastPathReaches == ~SupportFabricMem => FastPathComplete

\* A constructor that fails while it builds the communication buffer leaves nothing
\* behind: no allocation, no reserved range, no mapping.
MemoryUndone == phase = "thrown" /\ step <= Len(MemoryCalls) => held = {}

\* "Any failure returns -1 and cleans up the allocated resources": the object of an
\* init_ibgda that failed holds nothing of what it acquired, no object of the driver
\* and no block of the control buffer.
FailureCleansUp ==
    phase = "ready" /\ disabled /\ updates = 0 =>
        /\ held \cap IbgdaResources = {} /\ objs = {}
        /\ \A k \in DOMAIN heap.allocs : ~heap.allocs[k].used
=============================================================================
