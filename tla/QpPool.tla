------------------------------- MODULE QpPool -------------------------------
(***************************************************************************)
(* The queue pairs of one EpBuffer: their creation by init_ibgda, their    *)
(* replacement by update_local_qpns, their connection by sync_ib and       *)
(* sync_roce (src/src/ep_buffer.cpp), and what mlx5gda_create_rc_qp,       *)
(* _create_cq, _destroy_qp and the three modify functions (src/src/        *)
(* ep_ibgda/mlx5gda.cpp) do to the control-buffer heap and to the context  *)
(* the device keeps of a queue pair, including their error exits.          *)
(*                                                                         *)
(* One host thread runs these functions; one step is one iteration of the  *)
(* loop over the queue pairs.  The driver calls (external) may fail.       *)
(* EpSetup adds the rest of the constructor and the NVLink set-up.         *)
(***************************************************************************)
EXTENDS MemHeap, QpCommands

CONSTANTS
    QpCount,     \* USE_QP_COUNT = MAX_QP_COUNT / num_ranks * num_ranks
    NumRanks,
    Entries,     \* the wqe argument of mlx5gda_create_rc_qp, 16384
    EntryBytes,  \* sizeof(mlx5_cqe64) = sizeof(mlx5gda_wqebb)
    Page,        \* 1 << MLX5_ADAPTER_PAGE_SHIFT
    DbrSize,     \* bytes, and alignment, of a doorbell record
    Hosts,       \* the machines considered (see Init)
    Failures,    \* the points where a driver call may fail
    MaxUpdates   \* bound: calls of update_local_qpns

Index == 0 .. QpCount - 1
Ranks == 0 .. NumRanks - 1
RingSize == RoundUpPow2(Entries) * EntryBytes

\* Where mlx5gda_create_rc_qp or the following rst2init may fail: before any
\* allocation; with the CQ ring allocated; with the CQ ring, its doorbell and its
\* UAR allocated; with the CQ complete (the allocation of the UAR or its
\* registration with CUDA); with everything allocated (QP object); after the
\* creation; and where the connection may fail.
FailurePoints == {"query", "cqRing", "cqObject", "uar", "register", "qpObject",
                  "rst2init", "connect"}

\* Those after which the code keeps what the creation has allocated: the exit of
\* mlx5gda_create_cq frees neither its ring nor its doorbell, and a queue pair whose
\* rst2init fails is forgotten.
Leaking == {"cqRing", "cqObject", "rst2init"}

ASSUME PoolAssumption ==
    /\ QpCount \in Nat \ {0} /\ NumRanks \in Nat \ {0}
    /\ QpCount % NumRanks = 0
    /\ Entries \in Nat \ {0} /\ EntryBytes \in Nat \ {0} /\ RingSize \in Nat \ {0}
    /\ Page \in Nat \ {0} /\ DbrSize \in Nat \ {0}
    /\ MaxUpdates \in Nat

PeerRank(i) == (i * NumRanks) \div QpCount

\* What the peers report of themselves (external), one value per queue pair or
\* rank, and the numbers the driver gives to the objects of the n-th creation.
RemoteQpn(i) == 4096 + i
RemoteLid(i) == 16 + PeerRank(i)
RemoteGid(r) == 1 + r
Umem == 5
Pdn == 3
Eqn == 0
CqUar(n) == 2 * n
QpUar(n) == 2 * n + 1
CqAnswer(n) == Set(CreateCqOut, [cqn |-> 64 + n])
QpAnswer(n) == Set(CreateQpOut, [qpn |-> 128 + n])
Cqn(n) == Get(CqAnswer(n), CreateCqOut, "cqn")
Qpn(n) == Get(QpAnswer(n), CreateQpOut, "qpn")
LocalLid == 9

\* What holds of the numbers of the code: a ring is a whole number of pages and a page of
\* doorbells, the table has four entries per queue pair and the control buffer room for
\* all of them; and of those of the driver (external): none is given twice.
Geometry ==
    /\ RingSize % Page = 0 /\ Page % DbrSize = 0
    /\ 4 * QpCount <= MaxAllocs
    /\ (2 * QpCount) * (RingSize + Page) <= HeapSize
Distinct ==
    \A m, n \in 0 .. QpCount * (MaxUpdates + 1) - 1 :
        m # n => Cqn(m) # Cqn(n) /\ Qpn(m) # Qpn(n)

\* The numbers fit the fields of the commands: 15 is the largest log_sq_size, user access
\* regions and queue pairs are numbered with 24 bits and ports with 16.
NumbersFit ==
    /\ Entries <= 2 ^ 15
    /\ \A n \in 0 .. QpCount * (MaxUpdates + 1) - 1 : QpUar(n) < 2 ^ 24
    /\ \A i \in Index : RemoteQpn(i) < 2 ^ 24 /\ RemoteLid(i) < 2 ^ 16

VARIABLES
    host,      \* link layer, cqe version, GID table, fabric support, device count
    phase,     \* where the host thread is: "constructing", "creating", "workspace",
               \* "ready", "destroying", "recreating", "thrown", "exited", "destroyed"
    next,      \* the loop index of the running function
    heap,      \* ctrl_buf_heap
    qps,       \* qps[i]: its offsets, numbers, state and contexts on the device
    devctx,    \* qp_devctxs[i] on the GPU
    objs,      \* the driver's objects that exist: UARs, completion queues, queue pairs
    created,   \* creations of a queue pair so far
    disabled,  \* ibgda_disabled_
    updates,   \* calls of update_local_qpns so far
    leaks      \* the failures of Leaking so far, only read by the properties

poolVars == <<host, phase, next, heap, qps, devctx, objs, created, disabled, updates, leaks>>

NoQp == [state |-> "none"]

PoolInit ==
    /\ host \in Hosts
    /\ next = 0 /\ heap = EmptyHeap
    /\ qps = [i \in Index |-> NoQp]
    /\ devctx = [i \in Index |-> NoQp]
    /\ objs = {} /\ created = 0 /\ disabled = FALSE /\ updates = 0
    /\ leaks = {}

\* The device context the host copies for a queue pair.
Devctx(q) == [qpn |-> q.qpn, mask |-> q.num_wqebb - 1, wq |-> q.wq_offset,
              cq |-> q.send_cq.cq_offset, dbr |-> q.dbr_offset, bf |-> q.uar]

-----------------------------------------------------------------------------
(* mlx5gda.cpp.  These operators work on what they may change, a record of *)
(* the heap and the driver's objects, and return it with their result.     *)

Uar(page) == <<"uar", page>>
CqObj(cqn) == <<"cq", cqn>>
QpObj(qpn) == <<"qp", qpn>>

\* struct mlx5gda_cq and struct mlx5gda_qp; ctx is what the device keeps of each.
Cq(uar, cqn, cqe, cq_offset, dbr_offset, ctx) ==
    [uar |-> uar, cqn |-> cqn, cqe |-> cqe, cq_offset |-> cq_offset,
     dbr_offset |-> dbr_offset, ctx |-> ctx]
Qp(send_cq, uar, qpn, num_wqebb, wq_offset, dbr_offset, ctx) ==
    [state |-> "reset", send_cq |-> send_cq, uar |-> uar, port_num |-> 1,
     link_layer |-> host.link, qpn |-> qpn, num_wqebb |-> num_wqebb,
     wq_offset |-> wq_offset, dbr_offset |-> dbr_offset, ctx |-> ctx]

\* create_uar: a page that cannot be registered with CUDA is given back.
CreateUar(objs0, page, f) ==
    LET got == objs0 \cup {Uar(page)}
    IN IF f = "uar" THEN objs0
       ELSE IF f = "register" THEN got \ {Uar(page)} ELSE got

\* destroy_uar goes on when the page cannot be unregistered.
DestroyUar(objs0, page) == objs0 \ {Uar(page)}

\* The two blocks of a queue: its ring and then, unless the code stops between the
\* two or the ring has no room, its doorbell record.
AllocDbr(ring, stop) ==
    LET both(dbr) == [ring |-> ring.ret, dbr |-> dbr.ret, heap |-> dbr.heap]
    IN IF stop \/ ring.ret = Nowhere THEN both([ring EXCEPT !.ret = Nowhere])
       ELSE both(AlignedAlloc(ring.heap, DbrSize, DbrSize))
AllocQueue(h, stop) == AllocDbr(AlignedAlloc(h, RingSize, Page), stop)

\* mlx5gda_create_cq.  Its error exit frees the UAR and neither of its two blocks.
CreateCq(s, f, n) ==
    LET num_cqe == RoundUpPow2(Entries)
        cqn     == Cqn(n)
        Cmd(q)  == CreateCqCmd(Umem, q.ring, q.dbr, num_cqe, CqUar(n), Eqn)
        With(q) ==
            IF q.dbr = Nowhere \/ f = "cqObject"
            THEN [heap |-> q.heap, objs |-> s.objs, cq |-> NoQp]
            ELSE [heap |-> q.heap,
                  objs |-> s.objs \cup {Uar(CqUar(n)), CqObj(cqn)},
                  cq   |-> Cq(CqUar(n), cqn, num_cqe, q.ring, q.dbr, Apply(<< >>, Cmd(q)))]
    IN With(AllocQueue(s.heap, f = "cqRing"))

DestroyCq(s, cq) ==
    [heap |-> Free(Free(s.heap, cq.cq_offset), cq.dbr_offset),
     objs |-> s.objs \ {CqObj(cq.cqn), Uar(cq.uar)}]

\* Mutant: the doorbell of the work queue is forgotten.
DestroyQpKeepsDbr(s, q) ==
    LET rest == DestroyCq([s EXCEPT !.objs = DestroyUar(@ \ {QpObj(q.qpn)}, q.uar)],
                          q.send_cq)
    IN [rest EXCEPT !.heap = Free(@, q.wq_offset)]

\* mlx5gda_destroy_qp
DestroyQp(s, q) ==
    LET rest == DestroyCq([s EXCEPT !.objs = DestroyUar(@ \ {QpObj(q.qpn)}, q.uar)],
                          q.send_cq)
    IN [rest EXCEPT !.heap = Free(Free(@, q.wq_offset), q.dbr_offset)]

\* The answer of the device to the capability query (external): its general
\* capabilities, as they are set now, if that is what it was asked for.
HcaCap == IF Get(QueryCap, QueryHcaCapIn, "opcode") = Opcode.QUERY_HCA_CAP
             /\ Get(QueryCap, QueryHcaCapIn, "op_mod") = 1     \* general, current
          THEN Set(QueryHcaCapOut, [cqe_version |-> host.cqe]) ELSE {}

\* mlx5gda_create_rc_qp's error exit once it has a CQ: wq and dbr are the blocks
\* it has allocated, or Nowhere.
GiveUp(s, page, cq, wq, dbr) ==
    LET rest == DestroyCq([s EXCEPT !.objs = DestroyUar(@, page)], cq)
    IN [heap |-> Free(Free(rest.heap, wq), dbr), objs |-> rest.objs, qp |-> NoQp]

\* mlx5gda_create_rc_qp when a driver call fails at point f ("none": never).
CreateRcQp(s, f, n) ==
    LET num_wqebb == RoundUpPow2(Entries)
        page      == QpUar(n)
        qpn       == Qpn(n)
        Cmd(cq, q) == CreateQpCmd(Umem, q.ring, q.dbr, num_wqebb, page, cq.cqn, Pdn)
        WithQueue(cq, uars, q) ==
            IF q.dbr = Nowhere \/ f = "qpObject"
            THEN GiveUp([heap |-> q.heap, objs |-> uars], page, cq, q.ring, q.dbr)
            ELSE [heap |-> q.heap, objs |-> uars \cup {QpObj(qpn)},
                  qp   |-> Qp(cq, page, qpn, num_wqebb, q.ring, q.dbr,
                              Apply(<< >>, Cmd(cq, q)))]
        WithUar(c, uars) ==
            IF Uar(page) \notin uars
            THEN GiveUp([heap |-> c.heap, objs |-> uars], page, c.cq, Nowhere, Nowhere)
            ELSE WithQueue(c.cq, uars, AllocQueue(c.heap, FALSE))
        WithCq(c) ==
            IF c.cq = NoQp THEN [heap |-> c.heap, objs |-> c.objs, qp |-> NoQp]
            ELSE WithUar(c, CreateUar(c.objs, page, f))
    IN IF f = "query" \/ ~VersionSupported(HcaCap)
       THEN [heap |-> s.heap, objs |-> s.objs, qp |-> NoQp]
       ELSE WithCq(CreateCq(s, f, n))

\* The three modify functions on a queue pair whose driver calls succeed.  The
\* key index is 0.
Rst2Init(q) ==
    [q EXCEPT !.state = "init",
              !.ctx = Apply(q.ctx, Rst2InitCmd(q.qpn, q.port_num, 0, q.link_layer))]
Init2Rtr(q, remote, ah) ==
    [q EXCEPT !.state = "rtr",
              !.ctx = Apply(q.ctx, Init2RtrCmd(q.qpn, remote, ah, q.link_layer))]
Rtr2Rts(q) == [q EXCEPT !.state = "rts", !.ctx = Apply(q.ctx, Rtr2RtsCmd(q.qpn))]

-----------------------------------------------------------------------------
(* ep_buffer.cpp.                                                          *)

\* Mutants: one iteration too many; every context written to the first entry.
AdvancePastEnd(done) ==
    /\ phase' = IF next = QpCount THEN done ELSE phase
    /\ next' = IF next = QpCount THEN 0 ELSE next + 1
ContextAtZero(i, q) == devctx' = [devctx EXCEPT ![0] = Devctx(q)]

\* The end of a loop iteration, and what follows the last one.
Advance(done) ==
    /\ phase' = IF next = QpCount - 1 THEN done ELSE phase
    /\ next' = IF next = QpCount - 1 THEN 0 ELSE next + 1

CopyContext(i, q) == devctx' = [devctx EXCEPT ![i] = Devctx(q)]

\* One iteration of the creation loop of init_ibgda or update_local_qpns.  A
\* queue pair whose rst2init fails is neither stored nor destroyed.
CreateOne(f) ==
    LET made == CreateRcQp([heap |-> heap, objs |-> objs], f, created)
        bad  == made.qp = NoQp \/ f = "rst2init"
        done == IF phase = "creating" THEN "workspace" ELSE "ready"
    IN /\ phase \in {"creating", "recreating"}
       /\ heap' = made.heap /\ objs' = made.objs /\ created' = created + 1
       /\ leaks' = leaks \cup ({f} \cap Leaking)
       /\ IF bad
          THEN /\ disabled' = TRUE
               /\ phase' = done /\ next' = 0
               /\ UNCHANGED <<qps, devctx>>
          ELSE /\ qps' = [qps EXCEPT ![next] = Rst2Init(made.qp)]
               /\ CopyContext(next, made.qp)
               /\ Advance(done)
               /\ UNCHANGED disabled
       /\ UNCHANGED <<host, updates>>

\* Callers ask ibgda_disabled() before the first call only (a pool that init_ibgda
\* left incomplete is never updated, one that an update left incomplete may be).
UpdateLocalQpns ==
    /\ phase = "ready" /\ updates < MaxUpdates
    /\ disabled => updates > 0
    /\ phase' = "destroying" /\ next' = 0 /\ updates' = updates + 1
    /\ UNCHANGED <<host, heap, qps, devctx, objs, created, disabled, leaks>>

\* One iteration of the destruction loop.
DestroyOne ==
    /\ phase = "destroying"
    /\ IF qps[next] = NoQp THEN UNCHANGED <<heap, objs>>
       ELSE LET left == DestroyQp([heap |-> heap, objs |-> objs], qps[next])
            IN heap' = left.heap /\ objs' = left.objs
    /\ qps' = [qps EXCEPT ![next] = NoQp]
    /\ Advance("recreating")
    /\ UNCHANGED <<host, devctx, created, disabled, updates, leaks>>

\* The address vector of sync_ib for queue pair i, and the one of sync_roce.
IbAh(i) == [dlid |-> RemoteLid(i), gid |-> 0, sgid |-> 0, port |-> 0, global |-> FALSE]
RoceAh(i, gidIndex) ==
    [dlid |-> (LocalLid % 16384) + 49152, gid |-> RemoteGid(PeerRank(i)),
     sgid |-> gidIndex, port |-> 1, global |-> TRUE]

\* ibv_create_ah on an Ethernet port wants a port and a global route (external);
\* on InfiniBand init2rtr creates no address handle.
AhAccepted(ah) == host.link = "ib" \/ (ah.port # 0 /\ ah.global)

\* The loop of sync_ib or sync_roce over the queue pairs of the active ranks, to
\* which they connect with the address vectors ah.
\* A refusal makes the process exit; a queue pair that is not in INIT is refused.
ConnectAll(mask, ah) ==
    LET mine == {i \in Index : PeerRank(i) \in mask}
        ok   == \A i \in mine : qps[i].state = "init" /\ AhAccepted(ah[i])
    IN \/ /\ ok
          /\ qps' = [i \in Index |-> IF i \in mine
                                     THEN Rtr2Rts(Init2Rtr(qps[i], RemoteQpn(i), ah[i]))
                                     ELSE qps[i]]
          /\ UNCHANGED phase
       \/ /\ mine # {} /\ (~ok \/ "connect" \in Failures)
          /\ phase' = "exited" /\ UNCHANGED qps

-----------------------------------------------------------------------------
(* Properties.                                                             *)

Live == {i \in Index : qps[i] # NoQp}
BlocksOf(q) == {<<q.send_cq.cq_offset, RingSize>>, <<q.send_cq.dbr_offset, DbrSize>>,
                <<q.wq_offset, RingSize>>, <<q.dbr_offset, DbrSize>>}
ObjectsOf(q) == {CqObj(q.send_cq.cqn), Uar(q.send_cq.uar), QpObj(q.qpn), Uar(q.uar)}
Disjoint(a, b) == a[1] + a[2] <= b[1] \/ b[1] + b[2] <= a[1]

\* The rings and doorbells of the live queue pairs do not overlap, lie inside
\* the control buffer, and rings start on a page: the NIC and the GPU would
\* overwrite one queue pair's requests with another one's (memheap_aligned_alloc
\* and memheap_free under update_local_qpns).  After one of the failures of Leaking
\* the places of later blocks may overlap.
RingsPlaced ==
    leaks = {} =>
        /\ \A i, j \in Live : \A a \in BlocksOf(qps[i]), b \in BlocksOf(qps[j]) :
              <<i, a>> # <<j, b>> => Disjoint(a, b)
        /\ \A i \in Live :
              /\ \A a \in BlocksOf(qps[i]) : a[1] >= 0 /\ a[1] + a[2] <= HeapSize
              /\ qps[i].send_cq.cq_offset % Page = 0 /\ qps[i].wq_offset % Page = 0

\* What the GPU will post through belongs to a live queue pair, whenever a
\* kernel may be launched on the RDMA path.
DevctxCurrent ==
    phase = "ready" /\ ~disabled =>
        \A i \in Index : i \in Live /\ devctx[i] = Devctx(qps[i])

\* What failed creations and replaced queue pairs leave behind.  The objects in the
\* driver are exactly those of the live queue pairs unless a queue pair was
\* forgotten after its rst2init failed (the only exit that loses objects: the
\* others of mlx5gda_create_rc_qp and mlx5gda_create_cq give them back, whatever the
\* heap then looks like); and every block the heap counts as used belongs to a live
\* queue pair unless one of the three exits of Leaking was taken.
NothingLeaked ==
    /\ "rst2init" \notin leaks => objs = UNION {ObjectsOf(qps[i]) : i \in Live}
    /\ leaks = {} => \A k \in DOMAIN heap.allocs : heap.allocs[k].used =>
          \E i \in Live :
              <<heap.allocs[k].offset, heap.allocs[k].size>> \in BlocksOf(qps[i])

\* What the device must know of a connected queue pair: its own rings, doorbells
\* and completion queue, and its own remote end.
Intended(i, q) ==
    /\ q.ctx.wq_umem_offset = q.wq_offset /\ q.ctx.dbr_addr = q.dbr_offset
    /\ q.ctx.wq_umem_id = Umem /\ q.ctx.dbr_umem_id = Umem
    /\ q.ctx.wq_umem_valid = 1 /\ q.ctx.dbr_umem_valid = 1
    /\ 2 ^ q.ctx.log_sq_size * EntryBytes = RingSize
    /\ q.ctx.cqn_snd = q.send_cq.cqn /\ q.ctx.uar_page = q.uar /\ q.ctx.pd = Pdn
    /\ q.send_cq.ctx.cq_umem_offset = q.send_cq.cq_offset
    /\ q.send_cq.ctx.dbr_addr = q.send_cq.dbr_offset
    /\ 2 ^ q.send_cq.ctx.log_cq_size * EntryBytes = RingSize
    /\ q.send_cq.ctx.uar_page = q.send_cq.uar /\ q.send_cq.ctx.cqe_sz = CqeSize.B64
    /\ q.ctx.st = QpcStRc /\ q.ctx.pm_state = PmStateMigrated /\ q.ctx.rq_type = ZeroSizeRq
    /\ q.ctx.rwe = 1 /\ q.ctx.rae = 1 /\ q.ctx.atomic_mode = 3
    /\ q.ctx.vhca_port_num = 1
    /\ q.ctx.remote_qpn = RemoteQpn(i) /\ q.ctx.mtu = 5
    /\ q.ctx.retry_count = 7 /\ q.ctx.rnr_retry = 7
    /\ host.link = "ib" => q.ctx.rlid = RemoteLid(i)
    /\ host.link = "roce" =>
          q.ctx.rgid_rip = RemoteGid(PeerRank(i)) /\ q.ctx.udp_sport >= 49152

\* A connected queue pair is what the code meant it to be on the device, after
\* four commands written in three different layouts (init2rtr and rtr2rts fill
\* their buffers through rst2init_qp_in) and any number of recreations.
ContextAsIntended ==
    \A i \in Live : qps[i].state = "rts" => Intended(i, qps[i])
=============================================================================
