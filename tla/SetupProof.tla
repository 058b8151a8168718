----------------------------- MODULE SetupProof -----------------------------
(* Proofs about the life of one EpBuffer, for every number of queue pairs, *)
(* ranks and updates, every set of machines and of failing calls: the      *)
(* objects and paths it keeps, the places of the rings in the control      *)
(* buffer, and what the device makes of the commands of a queue pair.      *)
EXTENDS EpSetup, Radix, SequenceTheorems, WellFoundedInduction, TLAPS

-----------------------------------------------------------------------------
(* The heap's values.                                                      *)

Blocks == [offset : Int, size : Int, used : BOOLEAN]
HeapOK(h) == h \in [allocated : Int, allocs : Seq(Blocks)] /\ Len(h.allocs) <= MaxAllocs

\* The least of a nonempty set of table indexes.
LEMMA MinIn ==
    ASSUME NEW S \in SUBSET Nat, S # {}
    PROVE  Min(S) \in S /\ \A y \in S : Min(S) <= y
<1>1. \E x \in S : \A y \in S : ~ (<<y, x>> \in OpToRel(<, Nat))
  BY NatLessThanWellFounded, WFMin
<1>2. \E x \in S : \A y \in S : ~ (y < x)
  BY <1>1, Zenon DEF OpToRel
<1>3. \E x \in S : \A y \in S : x <= y
  BY <1>2
<1> QED
  BY <1>3 DEF Min

LEMMA AlignUpInt ==
    ASSUME NEW x \in Int, NEW a \in Nat \ {0}
    PROVE  AlignUp(x, a) \in Int
  BY DEF AlignUp

LEMMA RecordOK ==
    ASSUME NEW t \in Seq(Blocks), Len(t) <= MaxAllocs, NEW b \in Blocks
    PROVE  /\ Record(t, b) \in Seq(Blocks) /\ Len(Record(t, b)) <= MaxAllocs
           /\ Len(Record(t, b)) >= Len(t)
  BY HeapAssumption, AppendProperties DEF Record

LEMMA MakeHeap ==
    ASSUME NEW a \in Int, NEW t \in Seq(Blocks), Len(t) <= MaxAllocs
    PROVE  HeapOK([allocated |-> a, allocs |-> t])
  BY DEF HeapOK

LEMMA AllocOK ==
    ASSUME NEW h, HeapOK(h), NEW size \in Nat, NEW align \in Nat \ {0}
    PROVE  HeapOK(AlignedAlloc(h, size, align).heap)
<1> DEFINE free == {i \in DOMAIN h.allocs : Fits(h.allocs[i], size, align)}
<1>1. h.allocated \in Int /\ h.allocs \in Seq(Blocks) /\ Len(h.allocs) <= MaxAllocs
      /\ DOMAIN h.allocs = 1 .. Len(h.allocs) /\ Len(h.allocs) \in Nat
  BY DEF HeapOK
<1>2. CASE free # {}
  <2> DEFINE i == Min(free)
             b == h.allocs[i]
             at == AlignUp(b.offset, align)
             rest == b.offset + b.size - (at + size)
             front == IF at > b.offset
                      THEN Record(h.allocs, Block(b.offset, at - b.offset, FALSE))
                      ELSE h.allocs
             back == IF rest > 0 THEN Record(front, Block(at + size, rest, FALSE))
                     ELSE front
  <2>1. i \in DOMAIN h.allocs
    <3>1. free \in SUBSET Nat
      BY <1>1
    <3> QED
      BY <3>1, <1>2, MinIn
  <2>2. b \in Blocks /\ b.offset \in Int /\ b.size \in Int
    <3>1. b \in Blocks
      BY <1>1, <2>1, ElementOfSeq
    <3> QED
      BY <3>1 DEF Blocks
  <2>3. at \in Int /\ rest \in Int
    BY <2>2, AlignUpInt
  <2> HIDE DEF at, rest, b, i
  <2>4. front \in Seq(Blocks) /\ Len(front) <= MaxAllocs /\ i \in 1 .. Len(front)
    <3>1. Block(b.offset, at - b.offset, FALSE) \in Blocks
      BY <2>2, <2>3 DEF Block, Blocks
    <3>2. CASE at > b.offset
      <4> DEFINE r == Record(h.allocs, Block(b.offset, at - b.offset, FALSE))
      <4>1. r \in Seq(Blocks) /\ Len(r) <= MaxAllocs /\ Len(r) >= Len(h.allocs)
        BY <3>1, <1>1, RecordOK
      <4>2. front = r
        BY <3>2
      <4>3. Len(r) \in Nat
        BY <4>1, LenProperties
      <4> HIDE DEF r, front
      <4> QED
        BY <4>1, <4>2, <4>3, <1>1, <2>1, LenProperties
    <3>3. CASE ~ (at > b.offset)
      BY <3>3, <1>1, <2>1
    <3> QED
      BY <3>2, <3>3
  <2> HIDE DEF front
  <2>5. back \in Seq(Blocks) /\ Len(back) <= MaxAllocs /\ i \in 1 .. Len(back)
    <3>1. Block(at + size, rest, FALSE) \in Blocks
      BY <2>2, <2>3 DEF Block, Blocks
    <3>2. CASE rest > 0
      <4> DEFINE r == Record(front, Block(at + size, rest, FALSE))
      <4>1. r \in Seq(Blocks) /\ Len(r) <= MaxAllocs /\ Len(r) >= Len(front)
        BY <3>1, <2>4, RecordOK
      <4>2. back = r
        BY <3>2
      <4>3. Len(r) \in Nat
        BY <4>1, LenProperties
      <4> HIDE DEF r, back
      <4> QED
        BY <4>1, <4>2, <4>3, <2>4, LenProperties
    <3>3. CASE ~ (rest > 0)
      BY <3>3, <2>4
    <3> QED
      BY <3>2, <3>3
  <2> HIDE DEF back
  <2>6. [back EXCEPT ![i] = Block(at, size, TRUE)] \in Seq(Blocks)
        /\ Len([back EXCEPT ![i] = Block(at, size, TRUE)]) = Len(back)
    <3>1. Block(at, size, TRUE) \in Blocks
      BY <2>3 DEF Block, Blocks
    <3> DEFINE blk == Block(at, size, TRUE)
    <3>2. blk \in Blocks
      BY <3>1
    <3> HIDE DEF blk
    <3>3. [back EXCEPT ![i] = blk] \in Seq(Blocks) /\ Len([back EXCEPT ![i] = blk]) = Len(back)
      BY <3>2, <2>5, ExceptSeq
    <3> QED
      BY <3>3 DEF blk
  <2>7. AlignedAlloc(h, size, align).heap =
           [allocated |-> h.allocated + size, allocs |-> [back EXCEPT ![i] = Block(at, size, TRUE)]]
    BY <1>2 DEF AlignedAlloc, Reuse, i, b, at, rest, front, back
  <2> QED
    <3> DEFINE t == [back EXCEPT ![i] = Block(at, size, TRUE)]
    <3>1. t \in Seq(Blocks) /\ Len(t) <= MaxAllocs /\ h.allocated + size \in Int
      <4> HIDE DEF t
      <4>1. t \in Seq(Blocks) /\ Len(t) = Len(back)
        BY <2>6 DEF t
      <4> QED
        BY <1>1, <2>5, <4>1
    <3>2. AlignedAlloc(h, size, align).heap = [allocated |-> h.allocated + size, allocs |-> t]
      BY <2>7
    <3> HIDE DEF t
    <3> QED
      BY <3>1, <3>2, MakeHeap
<1>3. CASE free = {}
  <2> DEFINE at == AlignUp(h.allocated, align)
  <2>1. at \in Int
    BY <1>1, AlignUpInt
  <2>2. Block(at, size, TRUE) \in Blocks
    BY <2>1 DEF Block, Blocks
  <2>3. AlignedAlloc(h, size, align) = Bump(h, size, align)
    BY <1>3 DEF AlignedAlloc
  <2>4. CASE at + size <= HeapSize
    <3>1. Bump(h, size, align).heap =
              [allocated |-> at + size, allocs |-> Record(h.allocs, Block(at, size, TRUE))]
      BY <2>4 DEF Bump
    <3> HIDE DEF at
    <3>2. Record(h.allocs, Block(at, size, TRUE)) \in Seq(Blocks)
          /\ Len(Record(h.allocs, Block(at, size, TRUE))) <= MaxAllocs
      BY <1>1, <2>2, RecordOK
    <3> DEFINE t == Record(h.allocs, Block(at, size, TRUE))
    <3>3. AlignedAlloc(h, size, align).heap = [allocated |-> at + size, allocs |-> t]
          /\ t \in Seq(Blocks) /\ Len(t) <= MaxAllocs
      BY <2>3, <3>1, <3>2
    <3> HIDE DEF t
    <3>4. at + size \in Int
      BY <2>1
    <3> QED
      BY <3>3, <3>4, MakeHeap
  <2>5. CASE ~ (at + size <= HeapSize)
    BY <2>3, <2>5 DEF Bump
  <2> QED
    BY <2>4, <2>5
<1> QED
  BY <1>2, <1>3

LEMMA FreeOK ==
    ASSUME NEW h, HeapOK(h), NEW offset
    PROVE  HeapOK(Free(h, offset))
<1> DEFINE hit == {i \in DOMAIN h.allocs : h.allocs[i].used /\ h.allocs[i].offset = offset}
<1>1. h.allocated \in Int /\ h.allocs \in Seq(Blocks) /\ Len(h.allocs) <= MaxAllocs
      /\ DOMAIN h.allocs = 1 .. Len(h.allocs) /\ Len(h.allocs) \in Nat
  BY DEF HeapOK
<1>2. CASE offset # Nowhere /\ hit # {}
  <2> DEFINE i == Min(hit)
  <2>1. i \in DOMAIN h.allocs
    <3>1. hit \in SUBSET Nat
      BY <1>1
    <3> QED
      BY <3>1, <1>2, MinIn
  <2>2. Free(h, offset) = [allocated |-> h.allocated - h.allocs[i].size,
                           allocs |-> [h.allocs EXCEPT ![i].used = FALSE]]
    BY <1>2 DEF Free
  <2> HIDE DEF i
  <2>3. h.allocs[i] \in Blocks /\ h.allocs[i].size \in Int
    <3>1. h.allocs[i] \in Blocks
      BY <1>1, <2>1, ElementOfSeq
    <3> QED
      BY <3>1 DEF Blocks
  <2>4. [h.allocs[i] EXCEPT !.used = FALSE] \in Blocks
    BY <2>3 DEF Blocks
  <2>5. [h.allocs EXCEPT ![i].used = FALSE] \in Seq(Blocks)
        /\ Len([h.allocs EXCEPT ![i].used = FALSE]) = Len(h.allocs)
    BY <2>1, <2>4, <1>1, ExceptSeq
  <2> QED
    BY <1>1, <2>2, <2>3, <2>5 DEF HeapOK
<1>3. CASE offset = Nowhere \/ hit = {}
  BY <1>3 DEF Free
<1> QED
  BY <1>2, <1>3

-----------------------------------------------------------------------------
(* What the functions of mlx5gda.cpp return, whatever fails in them.       *)

QpFields == {"state", "send_cq", "uar", "port_num", "link_layer", "qpn", "num_wqebb",
             "wq_offset", "dbr_offset", "ctx"}
IsQp(q) == q = [f \in QpFields |-> q[f]]

LEMMA AllocQueueOK ==
    ASSUME NEW h, HeapOK(h), NEW stop \in BOOLEAN
    PROVE  HeapOK(AllocQueue(h, stop).heap)
<1> DEFINE a == AlignedAlloc(h, RingSize, Page)
<1>1. HeapOK(a.heap)
  BY AllocOK, PoolAssumption
<1>2. HeapOK(AlignedAlloc(a.heap, DbrSize, DbrSize).heap)
  <2>1. PICK g : g = a.heap
    OBVIOUS
  <2> HIDE DEF a
  <2>2. HeapOK(g)
    BY <1>1, <2>1
  <2>3. HeapOK(AlignedAlloc(g, DbrSize, DbrSize).heap)
    BY <2>2, AllocOK, PoolAssumption
  <2> QED
    BY <2>1, <2>3
<1>3. a = [ret |-> a.ret, heap |-> a.heap]
  <2>1. \E x, y : a = [ret |-> x, heap |-> y]
    BY Zenon DEF AlignedAlloc, Reuse, Bump
  <2> HIDE DEF a
  <2>2. PICK x, y : a = [ret |-> x, heap |-> y]
    BY <2>1
  <2> QED
    BY <2>2
<1> HIDE DEF a
<1>4. [a EXCEPT !.ret = Nowhere].heap = a.heap
  BY <1>3
<1>5. AllocQueue(h, stop) = AllocDbr(a, stop)
  BY DEF AllocQueue, a
<1> QED
  BY <1>1, <1>2, <1>4, <1>5 DEF AllocDbr

LEMMA CreateCqOK ==
    ASSUME NEW s, HeapOK(s.heap), NEW f, NEW n
    PROVE  HeapOK(CreateCq(s, f, n).heap)
<1>1. HeapOK(AllocQueue(s.heap, f = "cqRing").heap)
  BY AllocQueueOK
<1> QED
  BY <1>1 DEF CreateCq

LEMMA DestroyCqOK ==
    ASSUME NEW s, HeapOK(s.heap), NEW cq
    PROVE  HeapOK(DestroyCq(s, cq).heap)
  BY FreeOK DEF DestroyCq

LEMMA DestroyQpOK ==
    ASSUME NEW h, HeapOK(h), NEW o, NEW q
    PROVE  HeapOK(DestroyQp([heap |-> h, objs |-> o], q).heap)
<1> DEFINE s == [[heap |-> h, objs |-> o] EXCEPT !.objs = DestroyUar(@ \ {QpObj(q.qpn)}, q.uar)]
           rest == DestroyCq(s, q.send_cq)
<1>1. s.heap = h
  OBVIOUS
<1>2. HeapOK(rest.heap)
  BY <1>1, DestroyCqOK
<1>3. rest = [heap |-> rest.heap, objs |-> rest.objs]
  BY DEF DestroyCq
<1>4. DestroyQp([heap |-> h, objs |-> o], q) =
          [rest EXCEPT !.heap = Free(Free(@, q.wq_offset), q.dbr_offset)]
  BY DEF DestroyQp
<1> HIDE DEF rest
<1>5. HeapOK(Free(Free(rest.heap, q.wq_offset), q.dbr_offset))
  BY <1>2, FreeOK
<1> QED
  BY <1>3, <1>4, <1>5

LEMMA GiveUpOK ==
    ASSUME NEW h, HeapOK(h), NEW o, NEW page, NEW cq, NEW wq, NEW dbr
    PROVE  /\ HeapOK(GiveUp([heap |-> h, objs |-> o], page, cq, wq, dbr).heap)
           /\ GiveUp([heap |-> h, objs |-> o], page, cq, wq, dbr).qp = NoQp
<1> DEFINE s == [[heap |-> h, objs |-> o] EXCEPT !.objs = DestroyUar(@, page)]
           rest == DestroyCq(s, cq)
<1>1. s.heap = h
  OBVIOUS
<1>2. HeapOK(rest.heap)
  BY <1>1, DestroyCqOK
<1>3. GiveUp([heap |-> h, objs |-> o], page, cq, wq, dbr) =
          [heap |-> Free(Free(rest.heap, wq), dbr), objs |-> rest.objs, qp |-> NoQp]
  BY DEF GiveUp
<1> HIDE DEF rest
<1>4. HeapOK(Free(Free(rest.heap, wq), dbr))
  BY <1>2, FreeOK
<1> QED
  BY <1>3, <1>4

\* A creation leaves a well-formed heap, and a complete structure or none.
LEMMA CreateOK ==
    ASSUME NEW h, HeapOK(h), NEW o, NEW f, NEW n
    PROVE  LET made == CreateRcQp([heap |-> h, objs |-> o], f, n)
           IN /\ HeapOK(made.heap)
              /\ made.qp = NoQp \/ (IsQp(made.qp) /\ made.qp.state = "reset")
<1> DEFINE s == [heap |-> h, objs |-> o]
           made == CreateRcQp(s, f, n)
           c == CreateCq(s, f, n)
           uars == CreateUar(c.objs, QpUar(n), f)
           q == AllocQueue(c.heap, FALSE)
<1>1. CASE f = "query" \/ ~VersionSupported(HcaCap)
  <2>1. made = [heap |-> h, objs |-> o, qp |-> NoQp]
    BY <1>1 DEF CreateRcQp
  <2> QED
    BY <2>1
<1>2. CASE ~(f = "query" \/ ~VersionSupported(HcaCap))
  <2>1. HeapOK(c.heap)
    BY CreateCqOK
  <2>2. HeapOK(q.heap)
    BY <2>1, AllocQueueOK
  <2>3. CASE c.cq = NoQp
    <3>1. made = [heap |-> c.heap, objs |-> c.objs, qp |-> NoQp]
      BY <1>2, <2>3 DEF CreateRcQp
    <3> HIDE DEF c
    <3> QED
      BY <2>1, <3>1
  <2>4. CASE c.cq # NoQp /\ Uar(QpUar(n)) \notin uars
    <3>1. made = GiveUp([heap |-> c.heap, objs |-> uars], QpUar(n), c.cq, Nowhere, Nowhere)
      BY <1>2, <2>4 DEF CreateRcQp
    <3> QED
      BY <2>1, <3>1, GiveUpOK
  <2>5. CASE c.cq # NoQp /\ Uar(QpUar(n)) \in uars /\ (q.dbr = Nowhere \/ f = "qpObject")
    <3>1. made = GiveUp([heap |-> q.heap, objs |-> uars], QpUar(n), c.cq, q.ring, q.dbr)
      BY <1>2, <2>5 DEF CreateRcQp
    <3> HIDE DEF q, uars, c
    <3>2. HeapOK(made.heap) /\ made.qp = NoQp
      BY <2>2, <3>1, GiveUpOK
    <3> QED
      BY <3>2
  <2>6. CASE c.cq # NoQp /\ Uar(QpUar(n)) \in uars /\ ~(q.dbr = Nowhere \/ f = "qpObject")
    <3> DEFINE qpn == Qpn(n)
               ctx == Apply(<< >>, CreateQpCmd(Umem, q.ring, q.dbr, RoundUpPow2(Entries),
                                               QpUar(n), c.cq.cqn, Pdn))
               qp == Qp(c.cq, QpUar(n), qpn, RoundUpPow2(Entries), q.ring, q.dbr, ctx)
    <3>1. made = [heap |-> q.heap, objs |-> uars \cup {QpObj(qpn)}, qp |-> qp]
      BY <1>2, <2>6 DEF CreateRcQp
    <3>2. IsQp(qp) /\ qp.state = "reset"
      <4> HIDE DEF qpn, ctx, q, c
      <4> QED
        BY DEF IsQp, Qp, QpFields
    <3> HIDE DEF qp, q
    <3> QED
      BY <2>2, <3>1, <3>2
  <2> QED
    BY <2>3, <2>4, <2>5, <2>6
<1> QED
  BY <1>1, <1>2

-----------------------------------------------------------------------------
(* The calls of the constructor.                                           *)

Resources == IbgdaResources \cup ObjectResources

CallNames ==
    {"cuDeviceGet", "granularity", "cuMemCreate", "cuMemAddressReserve", "cuMemMap",
     "cuMemSetAccess", "cudaMalloc", "stream", "deviceName", "ibv_open_device",
     "ibv_query_port", "gidIndex", "ibv_query_gid", "ibv_alloc_pd", "mlx5dv_init_obj",
     "ibv_reg_mr", "ctrlBuf", "umem", "memheap_create"} \cup TableNames
CallSet == [name : CallNames, gets : SUBSET Resources, undo : SUBSET Resources,
            then : {"throw", "disable", "ignore"}]

\* What the object holds before each call that builds the communication buffer.
HeldBefore(s) == CASE s <= 3 -> {}
                   [] s = 4  -> {"memory"}
                   [] s = 5  -> {"memory", "range"}
                   [] OTHER  -> {"memory", "range", "mapping"}

LEMMA MemoryCallsAre ==
    /\ MemoryCalls \in Seq(CallSet) /\ Len(MemoryCalls) \in {1, 6}
    /\ \A s \in 1 .. Len(MemoryCalls) :
          LET c == MemoryCalls[s]
          IN /\ c.then = "throw"
             /\ c.name \notin {"gidIndex", "ibv_query_gid", "deviceName"}
             /\ HeldBefore(s) \ c.undo = {}
             /\ s < Len(MemoryCalls) => HeldBefore(s) \cup c.gets = HeldBefore(s + 1)
<1>1. CASE SupportFabricMem
  <2>1. MemoryCalls = FabricCalls
    BY <1>1 DEF MemoryCalls
  <2>2. FabricCalls \in Seq(CallSet) /\ Len(FabricCalls) = 6
    <3>1. /\ Call("cuDeviceGet", {}, {}, "throw") \in CallSet
          /\ Call("granularity", {}, {}, "throw") \in CallSet
          /\ Call("cuMemCreate", {"memory"}, {}, "throw") \in CallSet
          /\ Call("cuMemAddressReserve", {"range"}, {"memory"}, "throw") \in CallSet
          /\ Call("cuMemMap", {"mapping"}, {"memory", "range"}, "throw") \in CallSet
          /\ Call("cuMemSetAccess", {}, {"memory", "range", "mapping"}, "throw") \in CallSet
      BY DEF Call, CallSet, CallNames, Resources, ObjectResources
    <3> QED
      BY <3>1 DEF FabricCalls
  <2>3. \A s \in 1 .. 6 : s = 1 \/ s = 2 \/ s = 3 \/ s = 4 \/ s = 5 \/ s = 6
    OBVIOUS
  <2>4. /\ FabricCalls[1] = Call("cuDeviceGet", {}, {}, "throw")
        /\ FabricCalls[2] = Call("granularity", {}, {}, "throw")
        /\ FabricCalls[3] = Call("cuMemCreate", {"memory"}, {}, "throw")
        /\ FabricCalls[4] = Call("cuMemAddressReserve", {"range"}, {"memory"}, "throw")
        /\ FabricCalls[5] = Call("cuMemMap", {"mapping"}, {"memory", "range"}, "throw")
        /\ FabricCalls[6] = Call("cuMemSetAccess", {}, {"memory", "range", "mapping"}, "throw")
    BY DEF FabricCalls
  <2>5. \A s \in 1 .. 6 :
          LET c == FabricCalls[s]
          IN /\ c.then = "throw"
             /\ c.name \notin {"gidIndex", "ibv_query_gid", "deviceName"}
             /\ HeldBefore(s) \ c.undo = {}
             /\ s < 6 => HeldBefore(s) \cup c.gets = HeldBefore(s + 1)
    BY <2>3, <2>4 DEF Call, HeldBefore
  <2> QED
    BY <2>1, <2>2, <2>5
<1>2. CASE ~SupportFabricMem
  <2>1. MemoryCalls = MallocCalls
    BY <1>2 DEF MemoryCalls
  <2>2. MallocCalls \in Seq(CallSet) /\ Len(MallocCalls) = 1
        /\ MallocCalls[1] = Call("cudaMalloc", {"memory"}, {}, "throw")
    <3>1. Call("cudaMalloc", {"memory"}, {}, "throw") \in CallSet
      BY DEF Call, CallSet, CallNames, Resources, ObjectResources
    <3> QED
      BY <3>1 DEF MallocCalls
  <2> QED
    BY <2>1, <2>2 DEF Call, HeldBefore
<1> QED
  BY <1>1, <1>2

LEMMA OtherCallsAre ==
    /\ TableCalls \in Seq(CallSet) /\ Len(TableCalls) = 7
    /\ IbgdaCalls \in Seq(CallSet) /\ Len(IbgdaCalls) = 11
    /\ IbgdaCalls[11].then = "disable"
<1>1. TableCalls \in Seq(CallSet) /\ Len(TableCalls) = 7
  <2>1. \A x \in TableNames : Call(x, {x}, {}, "throw") \in CallSet
    BY DEF Call, CallSet, CallNames, Resources, ObjectResources
  <2>2. /\ Call("raddrs", {"raddrs"}, {}, "throw") \in CallSet
        /\ Call("rkeys", {"rkeys"}, {}, "throw") \in CallSet
        /\ Call("qp_devctxs", {"qp_devctxs"}, {}, "throw") \in CallSet
        /\ Call("nvlink_available", {"nvlink_available"}, {}, "throw") \in CallSet
        /\ Call("ipc_peer_ptrs_host", {"ipc_peer_ptrs_host"}, {}, "throw") \in CallSet
        /\ Call("ipc_peer_ptrs", {"ipc_peer_ptrs"}, {}, "throw") \in CallSet
    BY <2>1 DEF TableNames
  <2>3. Call("stream", {"stream"}, {}, "throw") \in CallSet
    BY DEF Call, CallSet, CallNames, Resources, ObjectResources
  <2> QED
    BY <2>2, <2>3 DEF TableCalls
<1>2. IbgdaCalls \in Seq(CallSet) /\ Len(IbgdaCalls) = 11
  <2>1. /\ Call("deviceName", {"deviceList"}, {}, "throw") \in CallSet
        /\ Call("ibv_open_device", {"context"}, {}, "disable") \in CallSet
        /\ Call("ibv_query_port", {}, {}, "disable") \in CallSet
        /\ Call("gidIndex", {}, {}, "disable") \in CallSet
        /\ Call("ibv_query_gid", {}, {}, "disable") \in CallSet
        /\ Call("ibv_alloc_pd", {"pd"}, {}, "disable") \in CallSet
        /\ Call("mlx5dv_init_obj", {"mpd"}, {}, "ignore") \in CallSet
        /\ Call("ibv_reg_mr", {"mr"}, {}, "ignore") \in CallSet
        /\ Call("ctrlBuf", {"ctrlBuf"}, {}, "throw") \in CallSet
        /\ Call("umem", {"umem"}, {"mr"}, "disable") \in CallSet
        /\ Call("memheap_create", {"heap"}, {}, "disable") \in CallSet
    BY DEF Call, CallSet, CallNames, Resources, IbgdaResources
  <2> QED
    BY <2>1 DEF IbgdaCalls
<1>3. IbgdaCalls[11].then = "disable"
  BY DEF IbgdaCalls, Call
<1> QED
  BY <1>1, <1>2, <1>3

\* The calls in their order: those that build the buffer come first, and the last one
\* is not among those whose failure nobody notices.
LEMMA CallsAre ==
    /\ Len(Calls) = Len(MemoryCalls) + 18
    /\ \A s \in 1 .. Len(Calls) : Calls[s] \in CallSet
    /\ \A s \in 1 .. Len(MemoryCalls) : Calls[s] = MemoryCalls[s]
    /\ Calls[Len(Calls)].then = "disable"
<1>1. PICK m \in Nat : m = Len(MemoryCalls) /\ m \in {1, 6}
  BY MemoryCallsAre
<1> DEFINE a == MemoryCalls \o TableCalls
<1>0. \A x, y \in Seq(CallSet) :
         /\ x \o y \in Seq(CallSet) /\ Len(x \o y) = Len(x) + Len(y)
         /\ \A s \in 1 .. Len(x) + Len(y) :
                (x \o y)[s] = IF s <= Len(x) THEN x[s] ELSE y[s - Len(x)]
  BY ConcatProperties
<1>2. /\ a \in Seq(CallSet) /\ Len(a) = m + 7
      /\ \A s \in 1 .. m + 7 :
            a[s] = IF s <= m THEN MemoryCalls[s] ELSE TableCalls[s - m]
  <2>1. MemoryCalls \in Seq(CallSet) /\ TableCalls \in Seq(CallSet) /\ Len(TableCalls) = 7
    BY MemoryCallsAre, OtherCallsAre
  <2>2. /\ a \in Seq(CallSet) /\ Len(a) = Len(MemoryCalls) + Len(TableCalls)
        /\ \A s \in 1 .. Len(MemoryCalls) + Len(TableCalls) :
               a[s] = IF s <= Len(MemoryCalls) THEN MemoryCalls[s]
                      ELSE TableCalls[s - Len(MemoryCalls)]
    BY <1>0, <2>1, Zenon
  <2> HIDE DEF a
  <2> QED
    BY <1>1, <2>1, <2>2
<1>3. Calls = a \o IbgdaCalls
  BY DEF Calls
<1> HIDE DEF a
<1>4. /\ Calls \in Seq(CallSet) /\ Len(Calls) = m + 18
      /\ \A s \in 1 .. m + 18 : Calls[s] = IF s <= m + 7 THEN a[s] ELSE IbgdaCalls[s - (m + 7)]
  <2> DEFINE b == a \o IbgdaCalls
  <2>1. m + 7 \in Nat /\ m + 7 + 11 = m + 18
    OBVIOUS
  <2>2. IbgdaCalls \in Seq(CallSet) /\ Len(IbgdaCalls) = 11
    BY OtherCallsAre
  <2>3. /\ b \in Seq(CallSet) /\ Len(b) = Len(a) + Len(IbgdaCalls)
        /\ \A s \in 1 .. Len(a) + Len(IbgdaCalls) :
               b[s] = IF s <= Len(a) THEN a[s] ELSE IbgdaCalls[s - Len(a)]
    BY <1>0, <1>2, <2>2, Zenon
  <2> HIDE DEF b
  <2>4. Calls = b
    BY <1>3 DEF b
  <2> QED
    BY <1>2, <2>1, <2>2, <2>3, <2>4
<1>5. \A s \in 1 .. Len(Calls) : Calls[s] \in CallSet
  BY <1>4, ElementOfSeq
<1>6. Calls[m + 18] = IbgdaCalls[11]
  BY <1>4
<1>7. \A s \in 1 .. m : Calls[s] = MemoryCalls[s]
  BY <1>2, <1>4
<1> QED
  BY <1>1, <1>4, <1>5, <1>6, <1>7, OtherCallsAre

-----------------------------------------------------------------------------
(* The inductive invariant.                                                *)

Phases == {"constructing", "creating", "workspace", "ready", "destroying",
           "recreating", "thrown", "exited", "destroyed"}

\* An entry of qps: nothing, or a complete structure that is initialized or connected.
Slot(q) == q = NoQp \/ (IsQp(q) /\ q.state \in {"init", "rts"})

Typed ==
    /\ host \in Hosts /\ phase \in Phases /\ next \in Index
    /\ HeapOK(heap)
    /\ qps = [i \in Index |-> qps[i]] /\ \A i \in Index : Slot(qps[i])
    /\ devctx = [i \in Index |-> devctx[i]]
    /\ disabled \in BOOLEAN /\ updates \in 0 .. MaxUpdates
    /\ held \subseteq Resources /\ leaks \subseteq Leaking
    /\ raddrs \subseteq Ranks /\ ibMask \subseteq Ranks /\ ipcMask \subseteq Ranks
    /\ nvlink \in [Ranks -> {0, 1}] /\ ptrs \in [Ranks -> {"null", "self", "peer"}]
    /\ p2p \in BOOLEAN

\* The calls of the constructor are taken in order, and while the buffer is built the
\* object holds what the calls so far acquired.
Building ==
    /\ step \in 1 .. Len(Calls) + 1
    /\ phase = "constructing" => step <= Len(Calls) /\ next = 0
    /\ phase \notin {"constructing", "thrown"} => step > Len(MemoryCalls)
    /\ phase = "constructing" /\ step <= Len(MemoryCalls) => held = HeldBefore(step)
    /\ MemoryUndone

\* The context of queue pair i is that of the queue pair.
Current(i) == qps[i] # NoQp /\ devctx[i] = Devctx(qps[i])

\* A creation loop has the contexts of the queue pairs before its index right, and all
\* of them when it ends without a failure.
Contexts ==
    /\ phase \in {"creating", "recreating"} => \A i \in 0 .. next - 1 : Current(i)
    /\ phase \in {"workspace", "ready"} /\ ~disabled => \A i \in Index : Current(i)

\* A rank marked reachable over NVLink has its pointer, and a rank that was connected
\* since the last creation has its address and all its queue pairs connected.
Paths ==
    /\ ~SupportFabricMem /\ phase # "destroyed" =>
          /\ \A r \in Ranks \ {Rank} : nvlink[r] = 1 => ptrs[r] = "peer"
          /\ p2p => \A r \in ipcMask : nvlink[r] = 1
    /\ ibMask \subseteq raddrs
    /\ ibMask # {} => phase \in {"ready", "exited", "destroyed"}
    /\ \A i \in Index : PeerRank(i) \in ibMask => qps[i].state = "rts"

SetupInv == Typed /\ Building /\ Contexts /\ Paths

-----------------------------------------------------------------------------
(* Each step keeps the invariant.                                          *)

\* What depends on the machine only.
LEMMA SameHost ==
    ASSUME host' = host
    PROVE  SupportFabricMem' = SupportFabricMem /\ MemoryCalls' = MemoryCalls /\ Calls' = Calls
<1>1. SupportFabricMem' = SupportFabricMem
  BY DEF SupportFabricMem
<1>2. MemoryCalls' = MemoryCalls
  BY <1>1 DEF MemoryCalls
<1> QED
  BY <1>1, <1>2 DEF Calls

LEMMA Lengths ==
    /\ Len(MemoryCalls) \in Nat \ {0} /\ Len(Calls) \in Nat
    /\ Len(Calls) = Len(MemoryCalls) + 18
<1>1. Len(MemoryCalls) \in {1, 6} /\ Len(Calls) = Len(MemoryCalls) + 18
  BY MemoryCallsAre, CallsAre
<1>2. \A m \in {1, 6} : m \in Nat \ {0} /\ m + 18 \in Nat
  OBVIOUS
<1> QED
  BY <1>1, <1>2

LEMMA PoolNumbers ==
    /\ QpCount \in Nat \ {0} /\ NumRanks \in Nat \ {0} /\ MaxUpdates \in Nat
    /\ 0 \in Index /\ Rank \in Ranks
  BY PoolAssumption, SetupAssumption DEF Index, Ranks

LEMMA InitSetup == Init => SetupInv
<1> SUFFICES ASSUME Init PROVE SetupInv
  OBVIOUS
<1> USE DEF Init, PoolInit
<1>1. HeapOK(heap)
  BY EmptySeq, HeapAssumption DEF EmptyHeap, HeapOK
<1>2. Typed
  <2>1. qps = [i \in Index |-> qps[i]] /\ \A i \in Index : Slot(qps[i])
    BY DEF Slot
  <2>2. devctx = [i \in Index |-> devctx[i]]
    OBVIOUS
  <2>3. /\ host \in Hosts /\ phase \in Phases /\ next \in Index
        /\ updates \in 0 .. MaxUpdates /\ held \subseteq Resources /\ leaks \subseteq Leaking
        /\ raddrs \subseteq Ranks /\ ibMask \subseteq Ranks /\ ipcMask \subseteq Ranks
    BY PoolNumbers DEF Phases
  <2>5. disabled \in BOOLEAN /\ p2p \in BOOLEAN
    BY Zenon
  <2>4. nvlink \in [Ranks -> {0, 1}] /\ ptrs \in [Ranks -> {"null", "self", "peer"}]
    OBVIOUS
  <2> QED
    BY <1>1, <2>1, <2>2, <2>3, <2>4, <2>5 DEF Typed
<1>3. Building
  BY Lengths, MemoryCallsAre DEF Building, MemoryUndone, HeldBefore
<1>4. Contexts
  BY DEF Contexts
<1>5. Paths
  BY DEF Paths
<1> QED
  BY <1>2, <1>3, <1>4, <1>5 DEF SetupInv

LEMMA CallSucceedsKeeps == SetupInv /\ CallSucceeds => SetupInv'
<1> SUFFICES ASSUME SetupInv, CallSucceeds PROVE SetupInv'
  OBVIOUS
<1>1. /\ phase = "constructing" /\ step' = step + 1 /\ next = 0
      /\ phase' = IF step = Len(Calls) THEN "creating" ELSE phase
      /\ held' = (held \cup Calls[step].gets) \ Released(Calls[step])
      /\ UNCHANGED <<host, next, heap, qps, devctx, objs, created, disabled, updates, leaks, linkVars>>
  BY DEF CallSucceeds, SetupInv, Building
<1>2. step \in 1 .. Len(Calls) /\ Calls[step] \in CallSet
  BY <1>1, CallsAre, Lengths DEF SetupInv, Building
<1>3. Typed'
  BY <1>1, <1>2 DEF SetupInv, Typed, Phases, CallSet, linkVars
<1>4. Building'
  <2>1. ASSUME step + 1 <= Len(MemoryCalls)
        PROVE  held' = HeldBefore(step + 1)
    <3>1. Calls[step] = MemoryCalls[step] /\ step \in 1 .. Len(MemoryCalls)
          /\ step < Len(MemoryCalls) /\ held = HeldBefore(step)
      BY <1>1, <1>2, <2>1, CallsAre, Lengths DEF SetupInv, Building
    <3>2. Released(Calls[step]) = {}
      BY <3>1, MemoryCallsAre DEF Released
    <3>3. HeldBefore(step) \cup Calls[step].gets = HeldBefore(step + 1)
      BY <3>1, MemoryCallsAre
    <3> QED
      BY <1>1, <3>1, <3>2, <3>3
  <2>2. Len(Calls)' = Len(Calls) /\ Len(MemoryCalls)' = Len(MemoryCalls)
    BY <1>1, SameHost
  <2>3. /\ step' \in 1 .. Len(Calls) + 1
        /\ phase' = "constructing" => step' <= Len(Calls) /\ next' = 0
        /\ phase' \notin {"constructing", "thrown"} => step' > Len(MemoryCalls)
        /\ phase' # "thrown"
    BY <1>1, <1>2, Lengths
  <2> QED
    BY <1>1, <2>1, <2>2, <2>3 DEF Building, MemoryUndone
<1>5. Contexts'
  BY <1>1 DEF Contexts
<1>6. Paths'
  BY <1>1, SameHost DEF SetupInv, Paths, linkVars
<1> QED
  BY <1>3, <1>4, <1>5, <1>6 DEF SetupInv

LEMMA CallFailsKeeps == SetupInv /\ CallFails => SetupInv'
<1> SUFFICES ASSUME SetupInv, CallFails PROVE SetupInv'
  OBVIOUS
<1> DEFINE c == Calls[step]
           kept == IF c.name = "deviceName" THEN held \cup c.gets ELSE held
<1>1. /\ phase = "constructing" /\ next = 0
      /\ held' = kept \ c.undo
      /\ \/ c.then = "throw" /\ phase' = "thrown" /\ UNCHANGED <<step, disabled>>
         \/ c.then = "disable" /\ phase' = "workspace" /\ disabled' = TRUE /\ UNCHANGED step
         \/ c.then = "ignore" /\ step' = step + 1 /\ UNCHANGED <<phase, disabled>>
      /\ UNCHANGED <<host, next, heap, qps, devctx, objs, created, updates, leaks, linkVars>>
  BY DEF CallFails, SetupInv, Building
<1>2. step \in 1 .. Len(Calls) /\ c \in CallSet
  BY <1>1, CallsAre, Lengths DEF SetupInv, Building
<1>3. Typed'
  <2>1. held' \subseteq Resources
    BY <1>1, <1>2 DEF SetupInv, Typed, CallSet
  <2> QED
    BY <1>1, <2>1 DEF SetupInv, Typed, Phases, linkVars
<1>4. step <= Len(MemoryCalls) => c.then = "throw" /\ held' = {}
  <2> SUFFICES ASSUME step <= Len(MemoryCalls) PROVE c.then = "throw" /\ held' = {}
    OBVIOUS
  <2>1. c = MemoryCalls[step] /\ step \in 1 .. Len(MemoryCalls) /\ held = HeldBefore(step)
    BY <1>1, <1>2, CallsAre, Lengths DEF SetupInv, Building
  <2>2. c.then = "throw" /\ c.name # "deviceName" /\ HeldBefore(step) \ c.undo = {}
    BY <2>1, MemoryCallsAre
  <2> QED
    BY <1>1, <2>1, <2>2
<1>5. c.then = "ignore" => step # Len(Calls)
  BY CallsAre
<1> HIDE DEF c, kept
<1>6. Building'
  <2>1. Len(Calls)' = Len(Calls) /\ Len(MemoryCalls)' = Len(MemoryCalls)
    BY <1>1, SameHost
  <2> QED
    BY <1>1, <1>2, <1>4, <1>5, <2>1, Lengths DEF Building, MemoryUndone
<1>7. Contexts'
  BY <1>1 DEF Contexts
<1>8. Paths'
  BY <1>1, SameHost DEF SetupInv, Paths, linkVars
<1> QED
  BY <1>3, <1>6, <1>7, <1>8 DEF SetupInv

LEMMA WorkspaceKeeps == SetupInv /\ Workspace => SetupInv'
<1> SUFFICES ASSUME SetupInv, Workspace PROVE SetupInv'
  OBVIOUS
<1>1. /\ phase = "workspace" /\ phase' \in {"ready", "thrown"}
      /\ held' \subseteq held \cup {"workspace"}
      /\ UNCHANGED <<host, next, heap, qps, devctx, objs, created, disabled, updates, leaks, step, linkVars>>
  BY DEF Workspace
<1>2. Typed'
  BY <1>1 DEF SetupInv, Typed, Phases, linkVars, Resources, ObjectResources
<1>3. Building'
  <2>1. Len(Calls)' = Len(Calls) /\ Len(MemoryCalls)' = Len(MemoryCalls)
    BY <1>1, SameHost
  <2> QED
    BY <1>1, <2>1, Lengths DEF SetupInv, Building, MemoryUndone
<1>4. Contexts'
  BY <1>1 DEF SetupInv, Contexts, Current, Devctx
<1>5. Paths'
  BY <1>1, SameHost DEF SetupInv, Paths, linkVars
<1> QED
  BY <1>2, <1>3, <1>4, <1>5 DEF SetupInv

\* The end of an iteration stays in range.
LEMMA AdvanceIn ==
    ASSUME next \in Index, NEW done, Advance(done)
    PROVE  /\ next' \in Index
           /\ IF next = QpCount - 1 THEN phase' = done /\ next' = 0
              ELSE phase' = phase /\ next' = next + 1
  BY PoolNumbers DEF Advance, Index

LEMMA Rst2InitIs ==
    ASSUME NEW q, IsQp(q)
    PROVE  /\ IsQp(Rst2Init(q)) /\ Rst2Init(q).state = "init"
           /\ Devctx(Rst2Init(q)) = Devctx(q)
<1> DEFINE x == Apply(q.ctx, Rst2InitCmd(q.qpn, q.port_num, 0, q.link_layer))
           z == [q EXCEPT !.state = "init", !.ctx = x]
<1>1. Rst2Init(q) = z
  BY DEF Rst2Init
<1> HIDE DEF x
<1>2. \A f \in QpFields : z[f] = IF f = "ctx" THEN x ELSE IF f = "state" THEN "init" ELSE q[f]
  BY DEF IsQp, QpFields
<1>3. IsQp(z)
  BY DEF IsQp, QpFields
<1> HIDE DEF z
<1>4. Devctx(z) = Devctx(q) /\ z.state = "init"
  BY <1>2 DEF Devctx, QpFields
<1> QED
  BY <1>1, <1>3, <1>4

LEMMA CreateOneKeeps ==
    ASSUME SetupInv, NEW f, CreateOne(f), UNCHANGED <<step, held, linkVars>>
    PROVE  SetupInv'
<1> DEFINE made == CreateRcQp([heap |-> heap, objs |-> objs], f, created)
           bad == made.qp = NoQp \/ f = "rst2init"
           done == IF phase = "creating" THEN "workspace" ELSE "ready"
<1>1. /\ phase \in {"creating", "recreating"} /\ heap' = made.heap
      /\ host' = host /\ updates' = updates /\ leaks' = leaks \cup ({f} \cap Leaking)
      /\ IF bad THEN /\ disabled' = TRUE /\ phase' = done /\ next' = 0
                     /\ UNCHANGED <<qps, devctx>>
         ELSE /\ qps' = [qps EXCEPT ![next] = Rst2Init(made.qp)]
              /\ CopyContext(next, made.qp) /\ Advance(done) /\ UNCHANGED disabled
  BY DEF CreateOne
<1>2. HeapOK(made.heap) /\ (made.qp = NoQp \/ (IsQp(made.qp) /\ made.qp.state = "reset"))
  BY CreateOK DEF SetupInv, Typed
<1> HIDE DEF made
<1>3. next \in Index /\ done \in {"workspace", "ready"} /\ ibMask = {} /\ ibMask' = {}
  BY <1>1 DEF SetupInv, Typed, Paths, linkVars
<1>4. next' \in Index /\ phase' \in {phase, done}
  BY <1>1, <1>3, PoolNumbers, AdvanceIn
<1>5. ASSUME ~bad
      PROVE  /\ qps' = [qps EXCEPT ![next] = Rst2Init(made.qp)]
             /\ devctx' = [devctx EXCEPT ![next] = Devctx(made.qp)]
             /\ IsQp(Rst2Init(made.qp)) /\ Rst2Init(made.qp).state = "init"
             /\ Devctx(Rst2Init(made.qp)) = Devctx(made.qp)
  BY <1>1, <1>2, <1>5, Rst2InitIs DEF CopyContext
<1>6. Typed'
  <2>1. qps' = [i \in Index |-> qps'[i]] /\ (\A i \in Index : Slot(qps'[i]))
        /\ devctx' = [i \in Index |-> devctx'[i]]
    <3>1. CASE bad
      BY <1>1, <3>1 DEF SetupInv, Typed
    <3>2. CASE ~bad
      <4>1. Slot(Rst2Init(made.qp))
        BY <1>5, <3>2 DEF Slot
      <4> QED
        BY <1>3, <1>5, <3>2, <4>1 DEF SetupInv, Typed
    <3> QED
      BY <3>1, <3>2
  <2>2. disabled' \in BOOLEAN
    BY <1>1, Zenon DEF SetupInv, Typed
  <2>3. phase' \in Phases
    BY <1>1, <1>3, <1>4 DEF Phases
  <2> QED
    BY <1>1, <1>2, <1>4, <2>1, <2>2, <2>3 DEF SetupInv, Typed, linkVars
<1>7. Building'
  <2>1. Len(Calls)' = Len(Calls) /\ Len(MemoryCalls)' = Len(MemoryCalls)
    BY <1>1, SameHost
  <2> QED
    BY <1>1, <1>3, <1>4, <2>1 DEF SetupInv, Building, MemoryUndone
<1>8. Contexts'
  <2>1. CASE bad
    BY <1>1, <1>3, <2>1 DEF Contexts
  <2>2. CASE ~bad
    <3>1. /\ next' \in Index
          /\ IF next = QpCount - 1 THEN phase' = done /\ next' = 0
             ELSE phase' = phase /\ next' = next + 1
      BY <1>1, <1>3, <2>2, AdvanceIn
    <3> DEFINE After(i) == qps'[i] # NoQp /\ devctx'[i] = Devctx(qps'[i])
    <3>2. After(next)
      <4>1. qps'[next] = Rst2Init(made.qp) /\ devctx'[next] = Devctx(made.qp)
        BY <1>3, <1>5, <2>2 DEF SetupInv, Typed
      <4>2. Rst2Init(made.qp) # NoQp
        BY <1>5, <2>2 DEF NoQp
      <4> QED
        BY <1>5, <2>2, <4>1, <4>2
    <3>3. ASSUME NEW i \in 0 .. next - 1 PROVE After(i)
      <4>1. i \in Index /\ i # next
        BY <1>3, PoolNumbers DEF Index
      <4>2. qps'[i] = qps[i] /\ devctx'[i] = devctx[i]
        BY <1>3, <1>5, <2>2, <4>1 DEF SetupInv, Typed
      <4>3. Current(i)
        BY <1>1 DEF SetupInv, Contexts
      <4> QED
        BY <4>2, <4>3 DEF Current
    <3> HIDE DEF After
    <3>4. \A i \in 0 .. next : After(i)
      BY <1>3, <3>2, <3>3, PoolNumbers DEF Index
    <3>5. \A i : After(i) => Current(i)'
      BY DEF After, Current, Devctx
    <3>6. CASE next = QpCount - 1
      <4>1. \A i \in Index : After(i)
        BY <3>4, <3>6 DEF Index
      <4>2. phase' = done
        BY <3>1, <3>6
      <4> QED
        BY <1>3, <3>5, <4>1, <4>2 DEF Contexts
    <3>7. CASE next # QpCount - 1
      <4>1. next' - 1 = next /\ phase' = phase
        BY <1>3, <3>1, <3>7, PoolNumbers DEF Index
      <4> QED
        BY <1>1, <3>4, <3>5, <4>1 DEF Contexts
    <3> QED
      BY <3>6, <3>7
  <2> QED
    BY <2>1, <2>2
<1>9. Paths'
  BY <1>1, <1>3, <1>4, SameHost DEF SetupInv, Paths, linkVars
<1> QED
  BY <1>6, <1>7, <1>8, <1>9 DEF SetupInv

LEMMA DestroyOneKeeps ==
    ASSUME SetupInv, DestroyOne, UNCHANGED <<step, held, linkVars>>
    PROVE  SetupInv'
<1>1. /\ phase = "destroying" /\ next \in Index
      /\ host' = host /\ devctx' = devctx /\ disabled' = disabled /\ updates' = updates
      /\ leaks' = leaks
      /\ qps' = [qps EXCEPT ![next] = NoQp]
      /\ heap' = heap \/ heap' = DestroyQp([heap |-> heap, objs |-> objs], qps[next]).heap
      /\ Advance("recreating")
  BY DEF DestroyOne, SetupInv, Typed
<1>2. next' \in Index /\ ((phase' = "recreating" /\ next' = 0) \/ phase' = "destroying")
  BY <1>1, AdvanceIn
<1>3. ibMask = {} /\ ibMask' = {}
  BY <1>1 DEF SetupInv, Paths, linkVars
<1>4. Typed'
  <2>1. HeapOK(heap')
    BY <1>1, DestroyQpOK DEF SetupInv, Typed
  <2>2. qps' = [i \in Index |-> qps'[i]] /\ \A i \in Index : Slot(qps'[i])
    BY <1>1 DEF SetupInv, Typed, Slot
  <2> QED
    BY <1>1, <1>2, <2>1, <2>2 DEF SetupInv, Typed, linkVars, Phases
<1>5. Building'
  <2>1. Len(Calls)' = Len(Calls) /\ Len(MemoryCalls)' = Len(MemoryCalls)
    BY <1>1, SameHost
  <2> QED
    BY <1>1, <1>2, <2>1 DEF SetupInv, Building, MemoryUndone
<1>6. Contexts'
  BY <1>2 DEF Contexts
<1>7. Paths'
  BY <1>1, <1>2, <1>3, SameHost DEF SetupInv, Paths, linkVars
<1> QED
  BY <1>4, <1>5, <1>6, <1>7 DEF SetupInv

LEMMA UpdateKeeps == SetupInv /\ Update => SetupInv'
<1> SUFFICES ASSUME SetupInv, Update PROVE SetupInv'
  OBVIOUS
<1>1. /\ phase = "ready" /\ updates < MaxUpdates /\ phase' = "destroying" /\ next' = 0
      /\ updates' = updates + 1 /\ ibMask' = {}
      /\ UNCHANGED <<host, heap, qps, devctx, objs, created, disabled, leaks>>
      /\ UNCHANGED <<step, held, raddrs, nvlink, ptrs, p2p, ipcMask>>
  BY DEF Update, UpdateLocalQpns
<1>2. Typed'
  BY <1>1, PoolNumbers DEF SetupInv, Typed, Phases
<1>3. Building'
  <2>1. Len(Calls)' = Len(Calls) /\ Len(MemoryCalls)' = Len(MemoryCalls)
    BY <1>1, SameHost
  <2> QED
    BY <1>1, <2>1 DEF SetupInv, Building, MemoryUndone
<1>4. Contexts'
  BY <1>1 DEF Contexts
<1>5. Paths'
  BY <1>1, SameHost DEF SetupInv, Paths
<1> QED
  BY <1>2, <1>3, <1>4, <1>5 DEF SetupInv

\* A connection changes the state of a queue pair and what the device knows of it.
LEMMA ConnectIs ==
    ASSUME NEW q, IsQp(q), NEW remote, NEW ah
    PROVE  LET z == Rtr2Rts(Init2Rtr(q, remote, ah))
           IN /\ IsQp(z) /\ z.state = "rts" /\ Devctx(z) = Devctx(q)
              /\ \A f \in QpFields \ {"state", "ctx"} : z[f] = q[f]
<1> DEFINE x == Apply(q.ctx, Init2RtrCmd(q.qpn, remote, ah, q.link_layer))
           y == [q EXCEPT !.state = "rtr", !.ctx = x]
           w == Apply(y.ctx, Rtr2RtsCmd(y.qpn))
           z == [y EXCEPT !.state = "rts", !.ctx = w]
<1>1. Rtr2Rts(Init2Rtr(q, remote, ah)) = z
  BY DEF Rtr2Rts, Init2Rtr
<1> HIDE DEF x, w
<1>2. /\ \A f \in QpFields \ {"state", "ctx"} : y[f] = q[f]
      /\ IsQp(y)
  BY DEF IsQp, QpFields
<1> HIDE DEF y
<1>3. /\ \A f \in QpFields \ {"state", "ctx"} : z[f] = y[f]
      /\ IsQp(z) /\ z.state = "rts"
  BY <1>2 DEF IsQp, QpFields
<1> HIDE DEF z
<1>4. Devctx(z) = Devctx(q)
  BY <1>2, <1>3 DEF Devctx, QpFields
<1> QED
  BY <1>1, <1>2, <1>3, <1>4

LEMMA SyncKeeps ==
    ASSUME SetupInv, NEW mask \in ActiveMasks, NEW ah, Sync(mask, ah)
    PROVE  SetupInv'
<1>1. /\ phase = "ready" /\ ~disabled
      /\ UNCHANGED <<host, next, heap, devctx, objs, created, disabled, updates, leaks, step, held,
                     nvlink, ptrs, p2p, ipcMask>>
      /\ mask \subseteq Ranks
  BY DEF Sync, ActiveMasks
<1>2. CASE phase' = "exited" /\ UNCHANGED <<qps, raddrs, ibMask>>
  <2>1. Typed'
    BY <1>1, <1>2 DEF SetupInv, Typed, Phases
  <2>2. Building'
    <3>1. Len(Calls)' = Len(Calls) /\ Len(MemoryCalls)' = Len(MemoryCalls)
      BY <1>1, SameHost
    <3> QED
      BY <1>1, <1>2, <3>1 DEF SetupInv, Building, MemoryUndone
  <2>3. Contexts'
    BY <1>2 DEF Contexts
  <2>4. Paths'
    BY <1>1, <1>2, SameHost DEF SetupInv, Paths
  <2> QED
    BY <2>1, <2>2, <2>3, <2>4 DEF SetupInv
<1>3. CASE /\ phase' = phase /\ raddrs' = raddrs \cup mask /\ ibMask' = ibMask \cup mask
           /\ \A i \in Index : PeerRank(i) \in mask => qps[i].state = "init"
           /\ qps' = [i \in Index |-> IF PeerRank(i) \in mask
                                      THEN Rtr2Rts(Init2Rtr(qps[i], RemoteQpn(i), ah[i]))
                                      ELSE qps[i]]
  <2>1. ASSUME NEW i \in Index, PeerRank(i) \in mask
        PROVE  IsQp(qps'[i]) /\ qps'[i].state = "rts" /\ Devctx(qps'[i]) = Devctx(qps[i])
    <3>1. IsQp(qps[i])
      BY <1>3, <2>1 DEF SetupInv, Typed, Slot, NoQp
    <3>2. qps'[i] = Rtr2Rts(Init2Rtr(qps[i], RemoteQpn(i), ah[i]))
      BY <1>3, <2>1
    <3> QED
      BY <3>1, <3>2, ConnectIs
  <2>2. \A i \in Index : PeerRank(i) \notin mask => qps'[i] = qps[i]
    BY <1>3
  <2>3. Typed'
    <3>1. qps' = [i \in Index |-> qps'[i]]
      BY <1>3
    <3>2. \A i \in Index : Slot(qps'[i])
      BY <2>1, <2>2 DEF SetupInv, Typed, Slot
    <3> QED
      BY <1>1, <1>3, <3>1, <3>2 DEF SetupInv, Typed
  <2>4. Building'
    <3>1. Len(Calls)' = Len(Calls) /\ Len(MemoryCalls)' = Len(MemoryCalls)
      BY <1>1, SameHost
    <3> QED
      BY <1>1, <1>3, <3>1 DEF SetupInv, Building, MemoryUndone
  <2>5. Contexts'
    <3>1. ASSUME NEW i \in Index PROVE qps'[i] # NoQp /\ devctx'[i] = Devctx(qps'[i])
      <4>1. qps[i] # NoQp /\ devctx[i] = Devctx(qps[i])
        BY <1>1 DEF SetupInv, Contexts, Current
      <4>2. CASE PeerRank(i) \in mask
        BY <1>1, <2>1, <4>1, <4>2 DEF NoQp
      <4>3. CASE PeerRank(i) \notin mask
        BY <1>1, <2>2, <4>1, <4>3
      <4> QED
        BY <4>2, <4>3
    <3>2. \A i \in Index : Current(i)'
      BY <3>1 DEF Current, Devctx
    <3> QED
      BY <1>1, <1>3, <3>2 DEF Contexts
  <2>6. Paths'
    <3>1. \A i \in Index : PeerRank(i) \in ibMask' => qps'[i].state = "rts"
      BY <1>3, <2>1, <2>2 DEF SetupInv, Paths
    <3>2. (\A i \in Index : PeerRank(i) \in ibMask => qps[i].state = "rts")'
      BY <3>1 DEF PeerRank
    <3> QED
      BY <1>1, <1>3, <3>2, SameHost DEF SetupInv, Paths
  <2> QED
    BY <2>3, <2>4, <2>5, <2>6 DEF SetupInv
<1> QED
  <2>1. CASE Rank \in mask /\ "mr" \notin held
    BY <1>2, <2>1 DEF Sync
  <2>2. CASE ~(Rank \in mask /\ "mr" \notin held)
    <3>1. /\ ConnectAll(mask, ah)
          /\ raddrs' = IF phase' = "ready" THEN raddrs \cup mask ELSE raddrs
          /\ ibMask' = IF phase' = "ready" THEN ibMask \cup mask ELSE ibMask
      BY <2>2 DEF Sync
    <3>2. CASE phase' = "exited" /\ UNCHANGED qps
      BY <1>2, <3>1, <3>2
    <3>3. CASE /\ phase' = phase
               /\ \A i \in Index : PeerRank(i) \in mask => qps[i].state = "init"
               /\ qps' = [i \in Index |-> IF PeerRank(i) \in mask
                                          THEN Rtr2Rts(Init2Rtr(qps[i], RemoteQpn(i), ah[i]))
                                          ELSE qps[i]]
      BY <1>1, <1>3, <3>1, <3>3
    <3> QED
      BY <3>1, <3>2, <3>3 DEF ConnectAll
  <2> QED
    BY <2>1, <2>2

LEMMA SyncNvlinkKeeps ==
    ASSUME SetupInv, NEW mask \in ActiveMasks, SyncNvlink(mask)
    PROVE  SetupInv'
<1>1. /\ phase = "ready" /\ ipcMask' = mask /\ mask \subseteq Ranks
      /\ UNCHANGED <<poolVars, step, held, raddrs, ibMask>>
  BY DEF SyncNvlink, ActiveMasks
<1>2. UNCHANGED <<host, phase, next, heap, qps, devctx, objs, created, disabled, updates, leaks>>
  BY <1>1 DEF poolVars
<1>3. /\ nvlink' \in [Ranks -> {0, 1}] /\ ptrs' \in [Ranks -> {"null", "self", "peer"}]
      /\ p2p' \in BOOLEAN
      /\ ~SupportFabricMem =>
            /\ \A r \in Ranks \ {Rank} : nvlink'[r] = 1 => ptrs'[r] = "peer"
            /\ p2p' => \A r \in mask : nvlink'[r] = 1
  <2>1. CASE SupportFabricMem
    <3>1. SyncFabric(mask)
      BY <2>1 DEF SyncNvlink
    <3>2. nvlink' \in [Ranks -> {0, 1}] /\ ptrs' \in [Ranks -> {"null", "self", "peer"}]
      BY <3>1 DEF SyncFabric, SetupInv, Typed
    <3>3. p2p' \in BOOLEAN
      BY <3>1, Zenon DEF SyncFabric
    <3> QED
      BY <2>1, <3>2, <3>3
  <2>2. CASE ~SupportFabricMem
    <3>1. PICK out \in [mask \ {Rank} -> IpcOutcomes] : SyncIpc(mask, out)
      BY <2>2 DEF SyncNvlink
    <3> DEFINE tried == {r \in mask \ {Rank} : Node(r) = Node(Rank)}
    <3>3. /\ nvlink' = [r \in Ranks |->
                            IF r = Rank \/ (r \in tried /\ out[r] = "ok") THEN 1 ELSE 0]
          /\ ptrs' = [r \in Ranks |->
                        IF r \in tried /\ out[r] = "ok" THEN "peer"
                        ELSE IF r = Rank /\ r \in mask THEN "self" ELSE ptrs[r]]
          /\ p2p' = AllMapped(mask, nvlink', ptrs')
      BY <3>1 DEF SyncIpc
    <3>4. p2p' \in BOOLEAN /\ (p2p' => \A r \in mask : nvlink'[r] = 1)
      BY <3>3, Zenon DEF AllMapped
    <3>5. nvlink' \in [Ranks -> {0, 1}] /\ ptrs' \in [Ranks -> {"null", "self", "peer"}]
      BY <3>3 DEF SetupInv, Typed
    <3>6. \A r \in Ranks \ {Rank} : nvlink'[r] = 1 => ptrs'[r] = "peer"
      BY <3>3
    <3> QED
      BY <3>4, <3>5, <3>6
  <2> QED
    BY <2>1, <2>2
<1>4. Typed'
  BY <1>1, <1>2, <1>3 DEF SetupInv, Typed
<1>5. Building'
  <2>1. Len(Calls)' = Len(Calls) /\ Len(MemoryCalls)' = Len(MemoryCalls)
    BY <1>2, SameHost
  <2> QED
    BY <1>1, <1>2, <2>1 DEF SetupInv, Building, MemoryUndone
<1>6. Contexts'
  BY <1>2 DEF SetupInv, Contexts, Current, Devctx
<1>7. Paths'
  BY <1>1, <1>2, <1>3, SameHost DEF SetupInv, Paths
<1> QED
  BY <1>4, <1>5, <1>6, <1>7 DEF SetupInv

LEMMA DestroyKeeps == SetupInv /\ Destroy => SetupInv'
<1> SUFFICES ASSUME SetupInv, Destroy PROVE SetupInv'
  OBVIOUS
<1>1. /\ phase = "ready" /\ phase' = "destroyed" /\ held' \subseteq held
      /\ ptrs' = [r \in Ranks |-> "null"]
      /\ UNCHANGED <<host, next, heap, qps, devctx, objs, created, disabled, updates, leaks, step,
                     raddrs, nvlink, p2p, ibMask, ipcMask>>
  BY DEF Destroy
<1>2. Typed'
  BY <1>1 DEF SetupInv, Typed, Phases
<1>3. Building'
  <2>1. Len(Calls)' = Len(Calls) /\ Len(MemoryCalls)' = Len(MemoryCalls)
    BY <1>1, SameHost
  <2> QED
    BY <1>1, <2>1 DEF SetupInv, Building, MemoryUndone
<1>4. Contexts'
  BY <1>1 DEF Contexts
<1>5. Paths'
  BY <1>1, SameHost DEF SetupInv, Paths
<1> QED
  BY <1>2, <1>3, <1>4, <1>5 DEF SetupInv

LEMMA SetupStep == SetupInv /\ [Next]_vars => SetupInv'
<1> SUFFICES ASSUME SetupInv, [Next]_vars PROVE SetupInv'
  OBVIOUS
<1>1. CASE UNCHANGED vars
  <2>1. UNCHANGED <<host, phase, next, heap, qps, devctx, objs, created, disabled, updates, leaks>>
        /\ UNCHANGED <<step, held, raddrs, nvlink, ptrs, p2p, ibMask, ipcMask>>
    BY <1>1 DEF vars, poolVars, linkVars
  <2>2. Typed'
    BY <2>1 DEF SetupInv, Typed
  <2>3. Building'
    <3>1. Len(Calls)' = Len(Calls) /\ Len(MemoryCalls)' = Len(MemoryCalls)
      BY <2>1, SameHost
    <3> QED
      BY <2>1, <3>1 DEF SetupInv, Building, MemoryUndone
  <2>4. Contexts'
    BY <2>1 DEF SetupInv, Contexts, Current, Devctx
  <2>5. Paths'
    BY <2>1, SameHost DEF SetupInv, Paths
  <2> QED
    BY <2>2, <2>3, <2>4, <2>5 DEF SetupInv
<1>2. CASE CallSucceeds
  BY <1>2, CallSucceedsKeeps
<1>3. CASE CallFails
  BY <1>3, CallFailsKeeps
<1>4. CASE Workspace
  BY <1>4, WorkspaceKeeps
<1>5. CASE Pool
  BY <1>5, CreateOneKeeps, DestroyOneKeeps DEF Pool
<1>6. CASE Update
  BY <1>6, UpdateKeeps
<1>7. CASE \E mask \in ActiveMasks : SyncIb(mask) \/ SyncRoce(mask) \/ SyncNvlink(mask)
  <2>1. PICK mask \in ActiveMasks : SyncIb(mask) \/ SyncRoce(mask) \/ SyncNvlink(mask)
    BY <1>7
  <2>2. CASE SyncIb(mask)
    BY <2>2, SyncKeeps DEF SyncIb
  <2>3. CASE SyncRoce(mask)
    BY <2>3, SyncKeeps DEF SyncRoce
  <2>4. CASE SyncNvlink(mask)
    BY <2>4, SyncNvlinkKeeps
  <2> QED
    BY <2>1, <2>2, <2>3, <2>4
<1>8. CASE Destroy
  BY <1>8, DestroyKeeps
<1>9. CASE Idle
  BY <1>1, <1>9 DEF Idle
<1> QED
  BY <1>1, <1>2, <1>3, <1>4, <1>5, <1>6, <1>7, <1>8, <1>9 DEF Next

LEMMA SetupInvariance == Spec => []SetupInv
  BY InitSetup, SetupStep, PTL DEF Spec

-----------------------------------------------------------------------------
(* Theorems.                                                               *)

\* The object's life is well-typed: loop indexes stay inside the pool, the calls of the
\* constructor inside their sequence, and the table of the heap inside its bound
\* (EpBuffer::EpBuffer, init_ibgda, update_local_qpns, memheap_aligned_alloc).
THEOREM TypeCorrect == Spec => []TypeOK
<1>1. SetupInv => TypeOK
  <2> SUFFICES ASSUME SetupInv PROVE TypeOK
    OBVIOUS
  <2>1. heap.allocated \in Int /\ Len(heap.allocs) <= MaxAllocs
    BY DEF SetupInv, Typed, HeapOK
  <2>2. \A i \in Live : qps[i].state \in {"init", "rts"}
    BY DEF SetupInv, Typed, Slot, Live
  <2>3. held \subseteq IbgdaResources \cup ObjectResources
    BY DEF SetupInv, Typed, Resources
  <2> QED
    BY <2>1, <2>2, <2>3 DEF SetupInv, Typed, Building, TypeOK, Phases
<1> QED
  BY <1>1, SetupInvariance, PTL

\* A constructor that throws while it builds the communication buffer has given back
\* what it took, whichever call failed (the error exits before the tables).  It says
\* nothing of the later throws, which leave the buffer and the tables allocated.
THEOREM MemoryCorrect == Spec => []MemoryUndone
<1>1. SetupInv => MemoryUndone
  BY DEF SetupInv, Building
<1> QED
  BY <1>1, SetupInvariance, PTL

\* Whenever a kernel may post through the queue pairs, the context on the GPU of each is
\* that of a live queue pair, through failed creations and updates (init_ibgda,
\* update_local_qpns).
THEOREM DevctxCorrect == Spec => []DevctxCurrent
<1>1. SetupInv => DevctxCurrent
  BY DEF SetupInv, Contexts, Current, DevctxCurrent, Live
<1> QED
  BY <1>1, SetupInvariance, PTL

\* Without fabric memory the fast path reaches every active rank, whatever failed and in
\* whichever order the set-ups were called (sync_ib, sync_roce,
\* sync_nvlink_ipc_handles, use_fast_path).
THEOREM FastPathCorrect == Spec => []FastPathReaches
<1>1. SetupInv => FastPathReaches
  <2> SUFFICES ASSUME SetupInv, ~SupportFabricMem, phase = "ready", UseFastPath,
                      disabled \/ ibMask = ipcMask, NEW r \in ipcMask \ {Rank}
               PROVE  Reaches(r)
    BY DEF FastPathReaches, FastPathComplete
  <2>1. r \in Ranks /\ nvlink[r] \in {0, 1} /\ (nvlink[r] = 1 => ptrs[r] = "peer")
    BY DEF SetupInv, Typed, Paths
  <2>2. CASE nvlink[r] = 1
    BY <2>1, <2>2 DEF Reaches
  <2>3. CASE nvlink[r] # 1
    <3>1. ~p2p
      BY <2>3 DEF SetupInv, Paths
    <3>2. ~disabled /\ r \in ibMask
      BY <3>1 DEF UseFastPath
    <3>3. r \in raddrs /\ \A i \in Index : PeerRank(i) = r => qps[i].state = "rts"
      BY <3>2 DEF SetupInv, Paths
    <3> QED
      BY <2>3, <3>2, <3>3 DEF Reaches, NoQp
  <2> QED
    BY <2>2, <2>3
<1> QED
  BY <1>1, SetupInvariance, PTL

-----------------------------------------------------------------------------
(* The places of rings and doorbells.  The pool asks the heap for a ring   *)
(* and a doorbell at a time, in the same order in every round of           *)
(* creations, so pair k is always at the same place.                       *)

Stride == RingSize + Page
Pair   == RingSize + DbrSize
RingAt(k) == k * Stride
DbrAt(k)  == k * Stride + RingSize

\* The running total when the table has K pairs and all are used.
Top(K) == IF K = 0 THEN 0 ELSE DbrAt(K - 1) + DbrSize

LEMMA Sizes ==
    ASSUME Geometry
    PROVE  /\ RingSize \in Nat \ {0} /\ DbrSize \in Nat \ {0} /\ Page \in Nat \ {0}
           /\ Stride \in Nat \ {0} /\ Pair \in Nat \ {0} /\ DbrSize <= Page
           /\ RingSize < Stride /\ QpCount \in Nat \ {0}
           /\ HeapSize \in Nat /\ MaxAllocs \in Nat
<1>1. /\ RingSize \in Nat \ {0} /\ DbrSize \in Nat \ {0} /\ Page \in Nat \ {0}
      /\ QpCount \in Nat \ {0} /\ HeapSize \in Nat /\ MaxAllocs \in Nat
  BY PoolAssumption, HeapAssumption
<1>2. DbrSize <= Page
  <2>1. SUFFICES ASSUME Page < DbrSize PROVE FALSE
    BY <1>1
  <2>2. Page \in 0 .. DbrSize - 1 /\ Page # 0
    BY <1>1, <2>1
  <2>3. Page % DbrSize = Page
    BY <1>1, <2>2, RemainderSmall, Page \in Int
  <2> QED
    BY <2>2, <2>3 DEF Geometry
<1> QED
  BY <1>1, <1>2 DEF Stride, Pair

\* The multiple of the alignment that is not below an offset.
LEMMA AlignIs ==
    ASSUME NEW a \in Nat \ {0}, NEW m \in Nat, NEW x \in Int, m * a - a < x, x <= m * a
    PROVE  AlignUp(x, a) = m * a
<1>1. PICK b \in 0 .. a - 1 : x + a - 1 = m * a + b
  <2>1. m * a \in Int
    OBVIOUS
  <2>2. PICK y \in Int : y = m * a
    BY <2>1
  <2>3. x + a - 1 - y \in 0 .. a - 1
    BY <2>2
  <2> QED
    BY <2>2, <2>3
<1>2. (m * a + b) \div a = m
  BY RadixDivision
<1> QED
  BY <1>1, <1>2 DEF AlignUp

LEMMA Multiple ==
    ASSUME NEW x \in Nat, NEW d \in Nat \ {0}, x % d = 0
    PROVE  \E q \in Nat : x = q * d
<1>1. x = (x \div d) * d + (x % d) /\ x \div d \in Nat
  OBVIOUS
<1> QED
  BY <1>1

LEMMA PlaceInt ==
    ASSUME Geometry, NEW k \in Nat
    PROVE  RingAt(k) \in Nat /\ DbrAt(k) \in Nat
  BY Sizes DEF RingAt, DbrAt

\* Rings lie on pages and doorbells on their own size.
LEMMA PlaceAligned ==
    ASSUME Geometry, NEW k \in Nat
    PROVE  /\ AlignUp(RingAt(k), Page) = RingAt(k) /\ AlignUp(DbrAt(k), DbrSize) = DbrAt(k)
           /\ RingAt(k) % Page = 0
<1>1. PICK p \in Nat : RingSize = p * Page
  BY Sizes, Multiple DEF Geometry
<1>2. PICK d \in Nat : Page = d * DbrSize
  BY Sizes, Multiple DEF Geometry
<1>3. PICK m \in Nat : m = k * (p + 1)
  OBVIOUS
<1>4. RingAt(k) = m * Page
  <2>1. RingAt(k) = k * (p * Page + Page)
    BY <1>1 DEF RingAt, Stride
  <2>2. p * Page + Page = (p + 1) * Page
    BY Sizes
  <2>3. k * ((p + 1) * Page) = (k * (p + 1)) * Page
    BY Sizes
  <2> QED
    BY <1>3, <2>1, <2>2, <2>3
<1>5. PICK n \in Nat : n = (m + p) * d
  OBVIOUS
<1>6. DbrAt(k) = n * DbrSize
  <2>1. DbrAt(k) = m * Page + p * Page
    BY <1>1, <1>4 DEF DbrAt, RingAt
  <2>2. m * Page + p * Page = (m + p) * Page
    BY Sizes
  <2>3. (m + p) * (d * DbrSize) = ((m + p) * d) * DbrSize
    BY Sizes
  <2> QED
    BY <1>2, <1>5, <2>1, <2>2, <2>3
<1>7. AlignUp(RingAt(k), Page) = m * Page
  BY <1>4, Sizes, AlignIs, PlaceInt
<1>8. AlignUp(DbrAt(k), DbrSize) = n * DbrSize
  BY <1>6, Sizes, AlignIs, PlaceInt
<1>9. RingAt(k) % Page = 0
  <2>1. PICK b \in 0 .. Page - 1 : b = 0
    BY Sizes
  <2>2. PICK x \in Int : x = RingAt(k)
    BY PlaceInt
  <2>3. x = m * Page + b
    BY <1>4, <2>1, <2>2, Sizes
  <2>4. x % Page = b
    BY <2>3, RemainderUnique, Sizes, m \in Int
  <2> QED
    BY <2>1, <2>2, <2>4
<1> QED
  BY <1>4, <1>6, <1>7, <1>8, <1>9

\* A fresh ring is placed behind the last pair of a full table.
LEMMA TopAligned ==
    ASSUME Geometry, NEW K \in Nat
    PROVE  Top(K) \in Nat /\ AlignUp(Top(K), Page) = RingAt(K)
<1>1. PICK p \in Nat : RingSize = p * Page
  BY Sizes, Multiple DEF Geometry
<1>2. PICK m \in Nat : m = K * (p + 1)
  OBVIOUS
<1>3. RingAt(K) = m * Page
  <2>1. RingAt(K) = K * (p * Page + Page)
    BY <1>1 DEF RingAt, Stride
  <2>2. p * Page + Page = (p + 1) * Page
    BY Sizes
  <2>3. K * ((p + 1) * Page) = (K * (p + 1)) * Page
    BY Sizes
  <2> QED
    BY <1>2, <2>1, <2>2, <2>3
<1>4. CASE K = 0
  <2>1. RingAt(0) = 0 /\ Top(0) = 0
    BY Sizes DEF RingAt, Top
  <2> QED
    BY <1>4, <2>1, PlaceAligned, 0 \in Nat
<1>5. CASE K # 0
  <2>1. RingAt(K) = RingAt(K - 1) + Stride /\ K - 1 \in Nat
    BY <1>5, Sizes DEF RingAt
  <2>2. Top(K) = RingAt(K - 1) + RingSize + DbrSize
    BY <1>5 DEF Top, DbrAt, RingAt
  <2>3. RingAt(K - 1) \in Nat
    BY <2>1, PlaceInt
  <2>4. Top(K) \in Nat /\ RingAt(K) - Page < Top(K) /\ Top(K) <= RingAt(K)
    BY <2>1, <2>2, <2>3, Sizes DEF Stride
  <2>5. AlignUp(Top(K), Page) = m * Page
    BY <1>3, <2>4, Sizes, AlignIs
  <2> QED
    BY <1>3, <2>4, <2>5
<1> QED
  BY <1>4, <1>5

\* Different pairs are at different places, rings and doorbells too.
LEMMA PlacesApart ==
    ASSUME Geometry, NEW j \in Nat, NEW k \in Nat
    PROVE  /\ j < k => DbrAt(j) + DbrSize <= RingAt(k)
           /\ RingAt(j) + RingSize = DbrAt(j) /\ RingAt(j) >= 0
<1>1. ASSUME j < k PROVE DbrAt(j) + DbrSize <= RingAt(k)
  <2>1. RingAt(j) + Stride <= RingAt(k)
    BY <1>1, Sizes, StrideOrder DEF RingAt
  <2>2. DbrAt(j) = RingAt(j) + RingSize
    BY DEF DbrAt, RingAt
  <2> QED
    BY <2>1, <2>2, Sizes, PlaceInt DEF Stride
<1> QED
  BY <1>1, Sizes, PlaceInt DEF DbrAt, RingAt

LEMMA PlacesDistinct ==
    ASSUME Geometry, NEW j \in Nat, NEW k \in Nat
    PROVE  /\ RingAt(j) = RingAt(k) => j = k
           /\ DbrAt(j) = DbrAt(k) => j = k
           /\ RingAt(j) # DbrAt(k)
<1>0. PICK a \in Nat, b \in Nat, c \in Nat, d \in Nat, x \in Nat \ {0}, y \in Nat \ {0} :
         a = RingAt(j) /\ b = DbrAt(j) /\ c = RingAt(k) /\ d = DbrAt(k)
         /\ x = RingSize /\ y = DbrSize
  BY PlaceInt, Sizes
<1>1. a + x = b /\ c + x = d
  BY <1>0, PlacesApart
<1>2. CASE j < k
  <2>1. b + y <= c
    BY <1>0, <1>2, PlacesApart
  <2> QED
    BY <1>0, <1>1, <2>1
<1>3. CASE k < j
  <2>1. d + y <= a
    BY <1>0, <1>3, PlacesApart
  <2> QED
    BY <1>0, <1>1, <2>1
<1>4. CASE j = k
  BY <1>0, <1>1, <1>4
<1> QED
  BY <1>2, <1>3, <1>4

-----------------------------------------------------------------------------
(* The table of blocks.                                                    *)

\* A table of E entries: ring and doorbell of pair 0, of pair 1, ...; the used ones are
\* the rings of R and the doorbells of D.
TableOf(t, E, R, D) ==
    /\ t \in Seq(Blocks) /\ Len(t) = E
    /\ \A k \in Nat : 2 * k + 1 <= E =>
          /\ t[2 * k + 1].offset = RingAt(k) /\ t[2 * k + 1].size = RingSize
          /\ t[2 * k + 1].used <=> k \in R
    /\ \A k \in Nat : 2 * k + 2 <= E =>
          /\ t[2 * k + 2].offset = DbrAt(k) /\ t[2 * k + 2].size = DbrSize
          /\ t[2 * k + 2].used <=> k \in D

Shape(h, E, R, D, a) == h = [allocated |-> a, allocs |-> h.allocs] /\ TableOf(h.allocs, E, R, D)

LEMMA OddEven == \A i \in Nat \ {0} : \E k \in Nat : i = 2 * k + 1 \/ i = 2 * k + 2
<1> SUFFICES ASSUME NEW i \in Nat \ {0} PROVE \E k \in Nat : i = 2 * k + 1 \/ i = 2 * k + 2
  OBVIOUS
<1>1. (i - 1) \div 2 \in Nat /\ (i - 1 = 2 * ((i - 1) \div 2) \/ i - 1 = 2 * ((i - 1) \div 2) + 1)
  OBVIOUS
<1> QED
  BY <1>1

\* memheap_free of a block that no other used entry shares its offset with.
LEMMA FreeAt ==
    ASSUME NEW h, NEW t \in Seq(Blocks), NEW a \in Int, h = [allocated |-> a, allocs |-> t],
           NEW i \in 1 .. Len(t), t[i].used, t[i].offset # Nowhere,
           \A j \in 1 .. Len(t) : t[j].used /\ t[j].offset = t[i].offset => j = i
    PROVE  Free(h, t[i].offset) = [allocated |-> a - t[i].size, allocs |-> [t EXCEPT ![i].used = FALSE]]
<1> DEFINE o == t[i].offset
           hit == {j \in DOMAIN t : t[j].used /\ t[j].offset = o}
<1>1. DOMAIN t = 1 .. Len(t)
  BY LenProperties
<1>2. hit = {i}
  BY <1>1
<1>3. Min(hit) = i
  BY <1>2, MinIn, i \in Nat
<1>4. h.allocs = t /\ h.allocated = a
  OBVIOUS
<1> HIDE DEF o
<1>5. o # Nowhere
  BY DEF o
<1>6. Free(h, o) = [allocated |-> h.allocated - h.allocs[Min(hit)].size,
                    allocs    |-> [h.allocs EXCEPT ![Min(hit)].used = FALSE]]
  BY <1>2, <1>4, <1>5 DEF Free
<1> QED
  BY <1>3, <1>4, <1>6 DEF o

\* An entry that is given back keeps its place.
LEMMA FreedTable ==
    ASSUME NEW t \in Seq(Blocks), NEW i \in 1 .. Len(t)
    PROVE  LET u == [t EXCEPT ![i].used = FALSE]
           IN /\ u \in Seq(Blocks) /\ Len(u) = Len(t)
              /\ \A j \in 1 .. Len(t) : u[j].offset = t[j].offset /\ u[j].size = t[j].size
              /\ \A j \in 1 .. Len(t) : u[j].used <=> t[j].used /\ j # i
<1> DEFINE b == [t[i] EXCEPT !.used = FALSE]
           u == [t EXCEPT ![i] = b]
<1>1. t[i] \in Blocks
  BY ElementOfSeq
<1>2. b \in Blocks /\ b.offset = t[i].offset /\ b.size = t[i].size /\ ~b.used
  BY <1>1 DEF Blocks
<1>3. [t EXCEPT ![i].used = FALSE] = u
  OBVIOUS
<1> HIDE DEF b
<1>4. u \in Seq(Blocks) /\ Len(u) = Len(t)
      /\ \A j \in 1 .. Len(t) : u[j] = IF j = i THEN b ELSE t[j]
  BY <1>2, ExceptSeq
<1> HIDE DEF u
<1> QED
  BY <1>2, <1>3, <1>4

LEMMA FreeRing ==
    ASSUME Geometry, NEW h, NEW E \in Nat, NEW R, NEW D, NEW a \in Int,
           Shape(h, E, R, D, a), NEW k \in Nat, k \in R, 2 * k + 1 <= E
    PROVE  Shape(Free(h, RingAt(k)), E, R \ {k}, D, a - RingSize)
<1> DEFINE t == h.allocs
           i == 2 * k + 1
           u == [t EXCEPT ![i].used = FALSE]
<1>1. /\ t \in Seq(Blocks) /\ Len(t) = E /\ i \in 1 .. Len(t)
      /\ t[i].used /\ t[i].offset = RingAt(k) /\ t[i].size = RingSize
      /\ h = [allocated |-> a, allocs |-> t]
  BY DEF Shape, TableOf
<1>2. RingAt(k) # Nowhere
  BY PlaceInt DEF Nowhere
<1>3. ASSUME NEW j \in 1 .. Len(t), t[j].used, t[j].offset = RingAt(k) PROVE j = i
  <2>1. PICK m \in Nat : j = 2 * m + 1 \/ j = 2 * m + 2
    <3>1. j \in Nat \ {0}
      BY <1>1
    <3> QED
      BY <3>1, OddEven
  <2>2. CASE j = 2 * m + 1
    <3>1. RingAt(m) = RingAt(k)
      BY <1>1, <1>3, <2>2 DEF Shape, TableOf
    <3> QED
      BY <2>2, <3>1, PlacesDistinct
  <2>3. CASE j = 2 * m + 2
    <3>1. DbrAt(m) = RingAt(k)
      BY <1>1, <1>3, <2>3 DEF Shape, TableOf
    <3> QED
      BY <3>1, PlacesDistinct
  <2> QED
    BY <2>1, <2>2, <2>3
<1> HIDE DEF t, i, u
<1>4. Free(h, t[i].offset) = [allocated |-> a - t[i].size, allocs |-> u]
  BY <1>1, <1>2, <1>3, FreeAt DEF u
<1>5. /\ u \in Seq(Blocks) /\ Len(u) = Len(t)
      /\ \A j \in 1 .. Len(t) : u[j].offset = t[j].offset /\ u[j].size = t[j].size
      /\ \A j \in 1 .. Len(t) : u[j].used <=> t[j].used /\ j # i
  BY <1>1, FreedTable DEF u
<1>6. TableOf(t, E, R, D)
  BY DEF Shape, t
<1>7. TableOf(u, E, R \ {k}, D)
  <2>1. ASSUME NEW m \in Nat, 2 * m + 1 <= E
        PROVE  /\ u[2 * m + 1].offset = RingAt(m) /\ u[2 * m + 1].size = RingSize
               /\ u[2 * m + 1].used <=> m \in R \ {k}
    <3>1. 2 * m + 1 \in 1 .. E /\ (2 * m + 1 = i <=> m = k)
      BY <2>1 DEF i
    <3>2. t[2 * m + 1].used <=> m \in R
      BY <1>6, <2>1 DEF TableOf
    <3>3. u[2 * m + 1].used <=> m \in R \ {k}
      BY <1>1, <1>5, <3>1, <3>2
    <3>4. u[2 * m + 1].offset = RingAt(m) /\ u[2 * m + 1].size = RingSize
      <4>1. t[2 * m + 1].offset = RingAt(m) /\ t[2 * m + 1].size = RingSize
        BY <1>6, <2>1 DEF TableOf
      <4> QED
        BY <1>1, <1>5, <3>1, <4>1
    <3> QED
      BY <3>3, <3>4
  <2>2. ASSUME NEW m \in Nat, 2 * m + 2 <= E
        PROVE  /\ u[2 * m + 2].offset = DbrAt(m) /\ u[2 * m + 2].size = DbrSize
               /\ u[2 * m + 2].used <=> m \in D
    <3>1. 2 * m + 2 \in 1 .. E /\ 2 * m + 2 # i
      BY <2>2 DEF i
    <3> QED
      BY <1>1, <1>5, <1>6, <2>2, <3>1 DEF TableOf
  <2> QED
    BY <1>1, <1>5, <2>1, <2>2 DEF TableOf
<1> QED
  BY <1>1, <1>4, <1>7 DEF Shape

LEMMA FreeDbr ==
    ASSUME Geometry, NEW h, NEW E \in Nat, NEW R, NEW D, NEW a \in Int,
           Shape(h, E, R, D, a), NEW k \in Nat, k \in D, 2 * k + 2 <= E
    PROVE  Shape(Free(h, DbrAt(k)), E, R, D \ {k}, a - DbrSize)
<1> DEFINE t == h.allocs
           i == 2 * k + 2
           u == [t EXCEPT ![i].used = FALSE]
<1>1. /\ t \in Seq(Blocks) /\ Len(t) = E /\ i \in 1 .. Len(t)
      /\ t[i].used /\ t[i].offset = DbrAt(k) /\ t[i].size = DbrSize
      /\ h = [allocated |-> a, allocs |-> t]
  BY DEF Shape, TableOf
<1>2. DbrAt(k) # Nowhere
  BY PlaceInt DEF Nowhere
<1>3. ASSUME NEW j \in 1 .. Len(t), t[j].used, t[j].offset = DbrAt(k) PROVE j = i
  <2>1. PICK m \in Nat : j = 2 * m + 1 \/ j = 2 * m + 2
    <3>1. j \in Nat \ {0}
      BY <1>1
    <3> QED
      BY <3>1, OddEven
  <2>2. CASE j = 2 * m + 1
    <3>1. RingAt(m) = DbrAt(k)
      BY <1>1, <1>3, <2>2 DEF Shape, TableOf
    <3> QED
      BY <3>1, PlacesDistinct
  <2>3. CASE j = 2 * m + 2
    <3>1. DbrAt(m) = DbrAt(k)
      BY <1>1, <1>3, <2>3 DEF Shape, TableOf
    <3> QED
      BY <2>3, <3>1, PlacesDistinct
  <2> QED
    BY <2>1, <2>2, <2>3
<1> HIDE DEF t, i, u
<1>4. Free(h, t[i].offset) = [allocated |-> a - t[i].size, allocs |-> u]
  BY <1>1, <1>2, <1>3, FreeAt DEF u
<1>5. /\ u \in Seq(Blocks) /\ Len(u) = Len(t)
      /\ \A j \in 1 .. Len(t) : u[j].offset = t[j].offset /\ u[j].size = t[j].size
      /\ \A j \in 1 .. Len(t) : u[j].used <=> t[j].used /\ j # i
  BY <1>1, FreedTable DEF u
<1>6. TableOf(t, E, R, D)
  BY DEF Shape, t
<1>7. TableOf(u, E, R, D \ {k})
  <2>1. ASSUME NEW m \in Nat, 2 * m + 1 <= E
        PROVE  /\ u[2 * m + 1].offset = RingAt(m) /\ u[2 * m + 1].size = RingSize
               /\ u[2 * m + 1].used <=> m \in R
    <3>1. 2 * m + 1 \in 1 .. E /\ 2 * m + 1 # i
      BY <2>1 DEF i
    <3> QED
      BY <1>1, <1>5, <1>6, <2>1, <3>1 DEF TableOf
  <2>2. ASSUME NEW m \in Nat, 2 * m + 2 <= E
        PROVE  /\ u[2 * m + 2].offset = DbrAt(m) /\ u[2 * m + 2].size = DbrSize
               /\ u[2 * m + 2].used <=> m \in D \ {k}
    <3>1. 2 * m + 2 \in 1 .. E /\ (2 * m + 2 = i <=> m = k)
      BY <2>2 DEF i
    <3>2. t[2 * m + 2].used <=> m \in D
      BY <1>6, <2>2 DEF TableOf
    <3>3. u[2 * m + 2].used <=> m \in D \ {k}
      BY <1>1, <1>5, <3>1, <3>2
    <3>4. u[2 * m + 2].offset = DbrAt(m) /\ u[2 * m + 2].size = DbrSize
      <4>1. t[2 * m + 2].offset = DbrAt(m) /\ t[2 * m + 2].size = DbrSize
        BY <1>6, <2>2 DEF TableOf
      <4> QED
        BY <1>1, <1>5, <3>1, <4>1
    <3> QED
      BY <3>3, <3>4
  <2> QED
    BY <1>1, <1>5, <2>1, <2>2 DEF TableOf
<1> QED
  BY <1>1, <1>4, <1>7 DEF Shape

\* The table after an entry is taken again, and after a block is added to it; an
\* allocation that succeeded; the first n entries are used.
Retaken(t, i, size) == [t EXCEPT ![i] = Block(t[i].offset, size, TRUE)]
Grown(t, at, size) == Append(t, Block(at, size, TRUE))
Got(at, a, t) == [ret |-> at, heap |-> [allocated |-> a, allocs |-> t]]
UsedTo(t, n) == \A j \in 1 .. n : t[j].used

\* The first free entry of the table has just the size and alignment.
CanReuse(h, t, a, size, align, i) ==
    /\ t \in Seq(Blocks) /\ a \in Int /\ h = [allocated |-> a, allocs |-> t]
    /\ size \in Nat \ {0} /\ align \in Nat \ {0} /\ i \in 1 .. Len(t)
    /\ ~t[i].used /\ t[i].size = size /\ AlignUp(t[i].offset, align) = t[i].offset
    /\ UsedTo(t, i - 1)

\* All entries are used, and there is room in the table and in the buffer.
CanBump(h, t, a, size, align, at) ==
    /\ t \in Seq(Blocks) /\ a \in Int /\ h = [allocated |-> a, allocs |-> t]
    /\ size \in Nat \ {0} /\ align \in Nat \ {0} /\ at \in Nat
    /\ AlignUp(a, align) = at /\ at + size <= HeapSize /\ Len(t) < MaxAllocs
    /\ UsedTo(t, Len(t))

\* memheap_aligned_alloc in these two cases.
LEMMA ReuseAt ==
    ASSUME NEW h, NEW t, NEW a, NEW size, NEW align, NEW i, CanReuse(h, t, a, size, align, i)
    PROVE  AlignedAlloc(h, size, align) = Got(t[i].offset, a + size, Retaken(t, i, size))
<1>0. /\ t \in Seq(Blocks) /\ a \in Int /\ h = [allocated |-> a, allocs |-> t]
      /\ size \in Nat \ {0} /\ align \in Nat \ {0} /\ i \in 1 .. Len(t)
      /\ ~t[i].used /\ t[i].size = size /\ AlignUp(t[i].offset, align) = t[i].offset
      /\ UsedTo(t, i - 1)
  BY DEF CanReuse
<1> USE <1>0
<1> DEFINE free == {j \in DOMAIN t : Fits(t[j], size, align)}
           o == t[i].offset
<1>1. DOMAIN t = 1 .. Len(t) /\ Len(t) \in Nat
  BY LenProperties
<1>2. o \in Int
  <2>1. t[i] \in Blocks
    BY ElementOfSeq
  <2> QED
    BY <2>1 DEF Blocks
<1>3. i \in free
  BY <1>1, <1>2 DEF Fits
<1>4. \A j \in free : j >= i
  BY <1>1 DEF Fits, UsedTo
<1>5. Min(free) = i
  <2>1. free \in SUBSET Nat /\ free # {}
    BY <1>1, <1>3
  <2>2. Min(free) \in free /\ \A y \in free : Min(free) <= y
    BY <2>1, MinIn
  <2>3. Min(free) \in Nat
    BY <2>1, <2>2
  <2> HIDE DEF free
  <2> QED
    BY <1>3, <1>4, <2>2, <2>3
<1>6. AlignedAlloc(h, size, align) = Reuse(h, i, size, align)
  BY <1>3, <1>5 DEF AlignedAlloc
<1> HIDE DEF free
<1>7. o + t[i].size - (AlignUp(o, align) + size) = 0 /\ ~(AlignUp(o, align) > o)
  BY <1>2
<1>8. h.allocs = t /\ h.allocated = a
  OBVIOUS
<1>9. Reuse(h, i, size, align) =
          [ret |-> o, heap |-> [allocated |-> a + size,
                                allocs |-> [t EXCEPT ![i] = Block(o, size, TRUE)]]]
  <2> DEFINE at == AlignUp(o, align)
             rest == o + t[i].size - (at + size)
             front == IF at > o THEN Record(t, Block(o, at - o, FALSE)) ELSE t
             back == IF rest > 0 THEN Record(front, Block(at + size, rest, FALSE)) ELSE front
  <2>1. Reuse(h, i, size, align) =
            [ret |-> at, heap |-> [allocated |-> a + size,
                                   allocs |-> [back EXCEPT ![i] = Block(at, size, TRUE)]]]
    BY <1>8 DEF Reuse
  <2>2. back = t /\ at = o
    <3>1. at = o /\ ~(at > o) /\ rest = 0
      BY <1>7
    <3>2. front = t
      BY <3>1
    <3> HIDE DEF at, rest, front
    <3>3. ~(rest > 0)
      BY <3>1
    <3> QED
      BY <3>1, <3>2, <3>3
  <2> HIDE DEF back, at
  <2> QED
    BY <2>1, <2>2
<1> QED
  BY <1>6, <1>9 DEF Got, Retaken

LEMMA BumpAt ==
    ASSUME NEW h, NEW t, NEW a, NEW size, NEW align, NEW at, CanBump(h, t, a, size, align, at)
    PROVE  AlignedAlloc(h, size, align) = Got(at, at + size, Grown(t, at, size))
<1>0. /\ t \in Seq(Blocks) /\ a \in Int /\ h = [allocated |-> a, allocs |-> t]
      /\ size \in Nat \ {0} /\ align \in Nat \ {0} /\ at \in Nat
      /\ AlignUp(a, align) = at /\ at + size <= HeapSize /\ Len(t) < MaxAllocs
      /\ UsedTo(t, Len(t))
  BY DEF CanBump
<1> USE <1>0
<1>1. DOMAIN t = 1 .. Len(t)
  BY LenProperties
<1>2. {j \in DOMAIN t : Fits(t[j], size, align)} = {}
  BY <1>1 DEF Fits, UsedTo
<1>3. AlignedAlloc(h, size, align) = Bump(h, size, align)
  BY <1>2 DEF AlignedAlloc
<1> QED
  BY <1>3 DEF Bump, Record, Got, Grown

IsGrown(u, t, at, size) ==
    /\ u \in Seq(Blocks) /\ Len(u) = Len(t) + 1
    /\ \A j \in 1 .. Len(t) : u[j] = t[j]
    /\ u[Len(t) + 1].offset = at /\ u[Len(t) + 1].size = size /\ u[Len(t) + 1].used

LEMMA GrownTable ==
    ASSUME NEW t \in Seq(Blocks), NEW at \in Int, NEW size \in Int
    PROVE  IsGrown(Grown(t, at, size), t, at, size)
<1> DEFINE b == Block(at, size, TRUE)
<1>1. b \in Blocks /\ b.offset = at /\ b.size = size /\ b.used
  BY DEF Block, Blocks
<1>2. Grown(t, at, size) = Append(t, b)
  BY DEF Grown
<1> HIDE DEF b
<1>3. /\ Append(t, b) \in Seq(Blocks) /\ Len(Append(t, b)) = Len(t) + 1
      /\ \A j \in 1 .. Len(t) : Append(t, b)[j] = t[j]
      /\ Append(t, b)[Len(t) + 1] = b
  BY <1>1, AppendProperties
<1> QED
  BY <1>1, <1>2, <1>3 DEF IsGrown

IsRetaken(u, t, i) ==
    /\ u \in Seq(Blocks) /\ Len(u) = Len(t)
    /\ \A j \in 1 .. Len(t) : u[j].offset = t[j].offset /\ u[j].size = t[j].size
    /\ \A j \in 1 .. Len(t) : u[j].used <=> t[j].used \/ j = i

LEMMA RetakenTable ==
    ASSUME NEW h, NEW t, NEW a, NEW size, NEW align, NEW i, CanReuse(h, t, a, size, align, i)
    PROVE  IsRetaken(Retaken(t, i, size), t, i)
<1>0. t \in Seq(Blocks) /\ i \in 1 .. Len(t) /\ size \in Int /\ t[i].size = size
  BY DEF CanReuse
<1> DEFINE b == Block(t[i].offset, size, TRUE)
           u == [t EXCEPT ![i] = b]
<1>1. t[i] \in Blocks
  BY <1>0, ElementOfSeq
<1>2. b \in Blocks /\ b.offset = t[i].offset /\ b.size = t[i].size /\ b.used
  BY <1>0, <1>1 DEF Blocks, Block
<1>3. Retaken(t, i, size) = u
  BY DEF Retaken
<1> HIDE DEF b
<1>4. u \in Seq(Blocks) /\ Len(u) = Len(t)
      /\ \A j \in 1 .. Len(t) : u[j] = IF j = i THEN b ELSE t[j]
  BY <1>0, <1>2, ExceptSeq
<1> HIDE DEF u
<1> QED
  BY <1>0, <1>2, <1>3, <1>4 DEF IsRetaken

\* A ring, then a doorbell, while the table has entries given back ...
LEMMA RingReuse ==
    ASSUME Geometry, NEW h, NEW K \in Nat, NEW n \in Nat, n < K, NEW a \in Int,
           Shape(h, 2 * K, (0 .. n - 1), (0 .. n - 1), a)
    PROVE  LET r == AlignedAlloc(h, RingSize, Page)
           IN r.ret = RingAt(n) /\ Shape(r.heap, 2 * K, (0 .. n), (0 .. n - 1), a + RingSize)
<1> DEFINE t == h.allocs
           i == 2 * n + 1
           u == Retaken(t, i, RingSize)
<1>1. TableOf(t, 2 * K, (0 .. n - 1), (0 .. n - 1)) /\ h = [allocated |-> a, allocs |-> t]
  BY DEF Shape
<1> HIDE DEF t
<1>2. /\ t \in Seq(Blocks) /\ Len(t) = 2 * K /\ i \in 1 .. Len(t)
      /\ t[i].offset = RingAt(n) /\ t[i].size = RingSize /\ ~t[i].used
  <2>1. t \in Seq(Blocks) /\ Len(t) = 2 * K
    BY <1>1 DEF TableOf
  <2>2. 2 * n + 1 <= 2 * K /\ i \in 1 .. 2 * K
    OBVIOUS
  <2>3. t[i].offset = RingAt(n) /\ t[i].size = RingSize
    BY <1>1, <2>2 DEF TableOf
  <2>4. t[i].used <=> n \in (0 .. n - 1)
    BY <1>1, <2>2 DEF TableOf
  <2>5. ~t[i].used
    BY <2>4
  <2> QED
    BY <2>1, <2>2, <2>3, <2>5
<1>3. UsedTo(t, i - 1)
  <2> SUFFICES ASSUME NEW j \in 1 .. i - 1 PROVE t[j].used
    BY DEF UsedTo
  <2>1. PICK m \in Nat : j = 2 * m + 1 \/ j = 2 * m + 2
    BY OddEven, j \in Nat \ {0}
  <2>2. CASE j = 2 * m + 1
    <3>1. m \in (0 .. n - 1) /\ 2 * m + 1 <= 2 * K
      BY <2>2
    <3> QED
      BY <1>1, <2>2, <3>1 DEF TableOf
  <2>3. CASE j = 2 * m + 2
    <3>1. m \in (0 .. n - 1) /\ 2 * m + 2 <= 2 * K
      BY <2>3
    <3> QED
      BY <1>1, <2>3, <3>1 DEF TableOf
  <2> QED
    BY <2>1, <2>2, <2>3
<1>4. AlignUp(t[i].offset, Page) = t[i].offset
  BY <1>2, PlaceAligned
<1> HIDE DEF i, u
<1>5. AlignedAlloc(h, RingSize, Page) = Got(t[i].offset, a + RingSize, u) /\ IsRetaken(u, t, i)
  <2>1. CanReuse(h, t, a, RingSize, Page, i)
    BY <1>1, <1>2, <1>3, <1>4, Sizes DEF CanReuse
  <2> QED
    BY <2>1, ReuseAt, RetakenTable DEF u
<1>6. /\ u \in Seq(Blocks) /\ Len(u) = Len(t)
      /\ \A j \in 1 .. Len(t) : u[j].offset = t[j].offset /\ u[j].size = t[j].size
      /\ \A j \in 1 .. Len(t) : u[j].used <=> t[j].used \/ j = i
  BY <1>5 DEF IsRetaken
<1>7. TableOf(u, 2 * K, (0 .. n), (0 .. n - 1))
  <2>1. ASSUME NEW m \in Nat, 2 * m + 1 <= 2 * K
        PROVE  /\ u[2 * m + 1].offset = RingAt(m) /\ u[2 * m + 1].size = RingSize
               /\ u[2 * m + 1].used <=> m \in (0 .. n)
    <3>1. 2 * m + 1 \in 1 .. 2 * K /\ (2 * m + 1 = i <=> m = n)
      BY <2>1 DEF i
    <3>2. t[2 * m + 1].used <=> m \in (0 .. n - 1)
      BY <1>1, <2>1 DEF TableOf
    <3>3. u[2 * m + 1].used <=> m \in (0 .. n)
      BY <1>2, <1>6, <3>1, <3>2
    <3>4. t[2 * m + 1].offset = RingAt(m) /\ t[2 * m + 1].size = RingSize
      BY <1>1, <2>1 DEF TableOf
    <3>5. u[2 * m + 1].offset = RingAt(m) /\ u[2 * m + 1].size = RingSize
      BY <1>2, <1>6, <3>1, <3>4
    <3> QED
      BY <3>3, <3>5
  <2>2. ASSUME NEW m \in Nat, 2 * m + 2 <= 2 * K
        PROVE  /\ u[2 * m + 2].offset = DbrAt(m) /\ u[2 * m + 2].size = DbrSize
               /\ u[2 * m + 2].used <=> m \in (0 .. n - 1)
    <3>1. 2 * m + 2 \in 1 .. 2 * K /\ 2 * m + 2 # i
      BY <2>2 DEF i
    <3>2. t[2 * m + 2].used <=> m \in (0 .. n - 1)
      BY <1>1, <2>2 DEF TableOf
    <3>3. u[2 * m + 2].used <=> m \in (0 .. n - 1)
      BY <1>2, <1>6, <3>1, <3>2
    <3>4. t[2 * m + 2].offset = DbrAt(m) /\ t[2 * m + 2].size = DbrSize
      BY <1>1, <2>2 DEF TableOf
    <3>5. u[2 * m + 2].offset = DbrAt(m) /\ u[2 * m + 2].size = DbrSize
      BY <1>2, <1>6, <3>1, <3>4
    <3> QED
      BY <3>3, <3>5
  <2> QED
    BY <1>2, <1>6, <2>1, <2>2 DEF TableOf
<1> QED
  BY <1>2, <1>5, <1>7 DEF Shape, Got

LEMMA DbrReuse ==
    ASSUME Geometry, NEW h, NEW K \in Nat, NEW n \in Nat, n < K, NEW a \in Int,
           Shape(h, 2 * K, (0 .. n), (0 .. n - 1), a)
    PROVE  LET r == AlignedAlloc(h, DbrSize, DbrSize)
           IN r.ret = DbrAt(n) /\ Shape(r.heap, 2 * K, (0 .. n), (0 .. n), a + DbrSize)
<1> DEFINE t == h.allocs
           i == 2 * n + 2
           u == Retaken(t, i, DbrSize)
<1>1. TableOf(t, 2 * K, (0 .. n), (0 .. n - 1)) /\ h = [allocated |-> a, allocs |-> t]
  BY DEF Shape
<1> HIDE DEF t
<1>2. /\ t \in Seq(Blocks) /\ Len(t) = 2 * K /\ i \in 1 .. Len(t)
      /\ t[i].offset = DbrAt(n) /\ t[i].size = DbrSize /\ ~t[i].used
  <2>1. t \in Seq(Blocks) /\ Len(t) = 2 * K
    BY <1>1 DEF TableOf
  <2>2. 2 * n + 2 <= 2 * K /\ i \in 1 .. 2 * K
    OBVIOUS
  <2>3. t[i].offset = DbrAt(n) /\ t[i].size = DbrSize
    BY <1>1, <2>2 DEF TableOf
  <2>4. t[i].used <=> n \in (0 .. n - 1)
    BY <1>1, <2>2 DEF TableOf
  <2>5. ~t[i].used
    BY <2>4
  <2> QED
    BY <2>1, <2>2, <2>3, <2>5
<1>3. UsedTo(t, i - 1)
  <2> SUFFICES ASSUME NEW j \in 1 .. i - 1 PROVE t[j].used
    BY DEF UsedTo
  <2>1. PICK m \in Nat : j = 2 * m + 1 \/ j = 2 * m + 2
    BY OddEven, j \in Nat \ {0}
  <2>2. CASE j = 2 * m + 1
    <3>1. m \in (0 .. n) /\ 2 * m + 1 <= 2 * K
      BY <2>2
    <3> QED
      BY <1>1, <2>2, <3>1 DEF TableOf
  <2>3. CASE j = 2 * m + 2
    <3>1. m \in (0 .. n - 1) /\ 2 * m + 2 <= 2 * K
      BY <2>3
    <3> QED
      BY <1>1, <2>3, <3>1 DEF TableOf
  <2> QED
    BY <2>1, <2>2, <2>3
<1>4. AlignUp(t[i].offset, DbrSize) = t[i].offset
  BY <1>2, PlaceAligned
<1> HIDE DEF i, u
<1>5. AlignedAlloc(h, DbrSize, DbrSize) = Got(t[i].offset, a + DbrSize, u) /\ IsRetaken(u, t, i)
  <2>1. CanReuse(h, t, a, DbrSize, DbrSize, i)
    BY <1>1, <1>2, <1>3, <1>4, Sizes DEF CanReuse
  <2> QED
    BY <2>1, ReuseAt, RetakenTable DEF u
<1>6. /\ u \in Seq(Blocks) /\ Len(u) = Len(t)
      /\ \A j \in 1 .. Len(t) : u[j].offset = t[j].offset /\ u[j].size = t[j].size
      /\ \A j \in 1 .. Len(t) : u[j].used <=> t[j].used \/ j = i
  BY <1>5 DEF IsRetaken
<1>7. TableOf(u, 2 * K, (0 .. n), (0 .. n))
  <2>1. ASSUME NEW m \in Nat, 2 * m + 1 <= 2 * K
        PROVE  /\ u[2 * m + 1].offset = RingAt(m) /\ u[2 * m + 1].size = RingSize
               /\ u[2 * m + 1].used <=> m \in (0 .. n)
    <3>1. 2 * m + 1 \in 1 .. 2 * K /\ 2 * m + 1 # i
      BY <2>1 DEF i
    <3>2. t[2 * m + 1].used <=> m \in (0 .. n)
      BY <1>1, <2>1 DEF TableOf
    <3>3. u[2 * m + 1].used <=> m \in (0 .. n)
      BY <1>2, <1>6, <3>1, <3>2
    <3>4. t[2 * m + 1].offset = RingAt(m) /\ t[2 * m + 1].size = RingSize
      BY <1>1, <2>1 DEF TableOf
    <3>5. u[2 * m + 1].offset = RingAt(m) /\ u[2 * m + 1].size = RingSize
      BY <1>2, <1>6, <3>1, <3>4
    <3> QED
      BY <3>3, <3>5
  <2>2. ASSUME NEW m \in Nat, 2 * m + 2 <= 2 * K
        PROVE  /\ u[2 * m + 2].offset = DbrAt(m) /\ u[2 * m + 2].size = DbrSize
               /\ u[2 * m + 2].used <=> m \in (0 .. n)
    <3>1. 2 * m + 2 \in 1 .. 2 * K /\ (2 * m + 2 = i <=> m = n)
      BY <2>2 DEF i
    <3>2. t[2 * m + 2].used <=> m \in (0 .. n - 1)
      BY <1>1, <2>2 DEF TableOf
    <3>3. u[2 * m + 2].used <=> m \in (0 .. n)
      BY <1>2, <1>6, <3>1, <3>2
    <3>4. t[2 * m + 2].offset = DbrAt(m) /\ t[2 * m + 2].size = DbrSize
      BY <1>1, <2>2 DEF TableOf
    <3>5. u[2 * m + 2].offset = DbrAt(m) /\ u[2 * m + 2].size = DbrSize
      BY <1>2, <1>6, <3>1, <3>4
    <3> QED
      BY <3>3, <3>5
  <2> QED
    BY <1>2, <1>6, <2>1, <2>2 DEF TableOf
<1> QED
  BY <1>2, <1>5, <1>7 DEF Shape, Got

LEMMA PairFits ==
    ASSUME Geometry, NEW n \in Nat, n < 2 * QpCount
    PROVE  RingAt(n) + RingSize <= HeapSize /\ DbrAt(n) + DbrSize <= HeapSize
<1>1. PICK s \in Nat, q \in Int : s = Stride /\ q = 2 * QpCount
  BY Sizes
<1>2. n * s + s <= q * s
  BY <1>1, StrideOrder
<1>3. q * s <= HeapSize
  BY <1>1 DEF Geometry, Stride
<1>4. PICK x \in Nat : x = RingAt(n) /\ x = n * s
  BY <1>1, PlaceInt DEF RingAt
<1>5. PICK y \in Int : y = q * s
  OBVIOUS
<1>6. x + s <= HeapSize
  BY <1>2, <1>3, <1>4, <1>5, Sizes
<1>7. DbrAt(n) = x + RingSize
  BY <1>4 DEF RingAt, DbrAt
<1> QED
  BY <1>1, <1>4, <1>6, <1>7, Sizes DEF Stride

\* ... and when all its entries are used.
LEMMA RingBump ==
    ASSUME Geometry, NEW h, NEW n \in Nat, n < 2 * QpCount, Shape(h, 2 * n, (0 .. n - 1), (0 .. n - 1), Top(n))
    PROVE  LET r == AlignedAlloc(h, RingSize, Page)
           IN r.ret = RingAt(n) /\ Shape(r.heap, 2 * n + 1, (0 .. n), (0 .. n - 1), RingAt(n) + RingSize)
<1> DEFINE t == h.allocs
           u == Grown(t, RingAt(n), RingSize)
<1>1. TableOf(t, 2 * n, (0 .. n - 1), (0 .. n - 1)) /\ h = [allocated |-> Top(n), allocs |-> t]
  BY DEF Shape
<1> HIDE DEF t, u
<1>2. t \in Seq(Blocks) /\ Len(t) = 2 * n
  BY <1>1 DEF TableOf
<1>3. UsedTo(t, Len(t))
  <2> SUFFICES ASSUME NEW j \in 1 .. Len(t) PROVE t[j].used
    BY DEF UsedTo
  <2>1. PICK m \in Nat : j = 2 * m + 1 \/ j = 2 * m + 2
    <3>1. j \in Nat \ {0}
      BY <1>2
    <3> QED
      BY <3>1, OddEven
  <2>2. CASE j = 2 * m + 1
    <3>1. m \in (0 .. n - 1) /\ 2 * m + 1 <= 2 * n
      BY <1>2, <2>2
    <3> QED
      BY <1>1, <2>2, <3>1 DEF TableOf
  <2>3. CASE j = 2 * m + 2
    <3>1. m \in (0 .. n - 1) /\ 2 * m + 2 <= 2 * n
      BY <1>2, <2>3
    <3> QED
      BY <1>1, <2>3, <3>1 DEF TableOf
  <2> QED
    BY <2>1, <2>2, <2>3
<1>4. Top(n) \in Int /\ AlignUp(Top(n), Page) = RingAt(n) /\ RingAt(n) \in Nat
  BY TopAligned, PlaceAligned, PlaceInt
<1>5. RingAt(n) + RingSize <= HeapSize /\ Len(t) < MaxAllocs
  <2>0. 4 * QpCount <= MaxAllocs /\ QpCount \in Nat /\ MaxAllocs \in Nat
    BY Sizes DEF Geometry
  <2>1. Len(t) < MaxAllocs
    BY <1>2, <2>0
  <2> QED
    BY <2>1, PairFits
<1>6. AlignedAlloc(h, RingSize, Page) = Got(RingAt(n), RingAt(n) + RingSize, u)
  <2>1. CanBump(h, t, Top(n), RingSize, Page, RingAt(n))
    BY <1>1, <1>2, <1>3, <1>4, <1>5, Sizes DEF CanBump
  <2> QED
    BY <2>1, BumpAt DEF u
<1>7. /\ u \in Seq(Blocks) /\ Len(u) = 2 * n + 1
      /\ \A j \in 1 .. 2 * n : u[j] = t[j]
      /\ u[2 * n + 1].offset = RingAt(n) /\ u[2 * n + 1].size = RingSize /\ u[2 * n + 1].used
  <2>1. Len(t) + 1 = 2 * n + 1
    BY <1>2
  <2>2. /\ u \in Seq(Blocks) /\ Len(u) = Len(t) + 1
        /\ \A j \in 1 .. Len(t) : u[j] = t[j]
        /\ u[Len(t) + 1].offset = RingAt(n) /\ u[Len(t) + 1].size = RingSize /\ u[Len(t) + 1].used
    <3>1. RingAt(n) \in Int /\ RingSize \in Int
      BY <1>4, Sizes
    <3>2. IsGrown(u, t, RingAt(n), RingSize)
      BY <1>2, <3>1, GrownTable DEF u
    <3> QED
      BY <3>2 DEF IsGrown
  <2> QED
    BY <1>2, <2>1, <2>2
<1>8. TableOf(u, 2 * n + 1, (0 .. n), (0 .. n - 1))
  <2>1. ASSUME NEW m \in Nat, 2 * m + 1 <= 2 * n + 1
        PROVE  /\ u[2 * m + 1].offset = RingAt(m) /\ u[2 * m + 1].size = RingSize
               /\ u[2 * m + 1].used <=> m \in (0 .. n)
    <3>1. CASE m = n
      <4>1. m \in (0 .. n)
        BY <3>1
      <4> QED
        BY <1>7, <3>1, <4>1
    <3>2. CASE m # n
      <4>1. 2 * m + 1 \in 1 .. 2 * n /\ 2 * m + 1 <= 2 * n /\ (m \in (0 .. n - 1) <=> m \in (0 .. n))
        BY <2>1, <3>2
      <4>2. t[2 * m + 1].offset = RingAt(m) /\ t[2 * m + 1].size = RingSize /\ (t[2 * m + 1].used <=> m \in (0 .. n - 1))
        BY <1>1, <4>1 DEF TableOf
      <4>3. u[2 * m + 1] = t[2 * m + 1]
        BY <1>7, <4>1
      <4> QED
        BY <4>1, <4>2, <4>3
    <3> QED
      BY <3>1, <3>2
  <2>2. ASSUME NEW m \in Nat, 2 * m + 2 <= 2 * n + 1
        PROVE  /\ u[2 * m + 2].offset = DbrAt(m) /\ u[2 * m + 2].size = DbrSize
               /\ u[2 * m + 2].used <=> m \in (0 .. n - 1)
    <3>1. 2 * m + 2 \in 1 .. 2 * n /\ 2 * m + 2 <= 2 * n
      BY <2>2
    <3>2. t[2 * m + 2].offset = DbrAt(m) /\ t[2 * m + 2].size = DbrSize /\ (t[2 * m + 2].used <=> m \in (0 .. n - 1))
      BY <1>1, <3>1 DEF TableOf
    <3>3. u[2 * m + 2] = t[2 * m + 2]
      BY <1>7, <3>1
    <3> QED
      BY <3>2, <3>3
  <2> QED
    BY <1>7, <2>1, <2>2 DEF TableOf
<1> QED
  BY <1>6, <1>8 DEF Shape, Got

LEMMA DbrBump ==
    ASSUME Geometry, NEW h, NEW n \in Nat, n < 2 * QpCount, Shape(h, 2 * n + 1, (0 .. n), (0 .. n - 1), DbrAt(n))
    PROVE  LET r == AlignedAlloc(h, DbrSize, DbrSize)
           IN r.ret = DbrAt(n) /\ Shape(r.heap, 2 * n + 2, (0 .. n), (0 .. n), DbrAt(n) + DbrSize)
<1> DEFINE t == h.allocs
           u == Grown(t, DbrAt(n), DbrSize)
<1>1. TableOf(t, 2 * n + 1, (0 .. n), (0 .. n - 1)) /\ h = [allocated |-> DbrAt(n), allocs |-> t]
  BY DEF Shape
<1> HIDE DEF t, u
<1>2. t \in Seq(Blocks) /\ Len(t) = 2 * n + 1
  BY <1>1 DEF TableOf
<1>3. UsedTo(t, Len(t))
  <2> SUFFICES ASSUME NEW j \in 1 .. Len(t) PROVE t[j].used
    BY DEF UsedTo
  <2>1. PICK m \in Nat : j = 2 * m + 1 \/ j = 2 * m + 2
    <3>1. j \in Nat \ {0}
      BY <1>2
    <3> QED
      BY <3>1, OddEven
  <2>2. CASE j = 2 * m + 1
    <3>1. m \in (0 .. n) /\ 2 * m + 1 <= 2 * n + 1
      BY <1>2, <2>2
    <3> QED
      BY <1>1, <2>2, <3>1 DEF TableOf
  <2>3. CASE j = 2 * m + 2
    <3>1. m \in (0 .. n - 1) /\ 2 * m + 2 <= 2 * n + 1
      BY <1>2, <2>3
    <3> QED
      BY <1>1, <2>3, <3>1 DEF TableOf
  <2> QED
    BY <2>1, <2>2, <2>3
<1>4. DbrAt(n) \in Int /\ AlignUp(DbrAt(n), DbrSize) = DbrAt(n) /\ DbrAt(n) \in Nat
  BY TopAligned, PlaceAligned, PlaceInt
<1>5. DbrAt(n) + DbrSize <= HeapSize /\ Len(t) < MaxAllocs
  <2>0. 4 * QpCount <= MaxAllocs /\ QpCount \in Nat /\ MaxAllocs \in Nat
    BY Sizes DEF Geometry
  <2>1. Len(t) < MaxAllocs
    BY <1>2, <2>0
  <2> QED
    BY <2>1, PairFits
<1>6. AlignedAlloc(h, DbrSize, DbrSize) = Got(DbrAt(n), DbrAt(n) + DbrSize, u)
  <2>1. CanBump(h, t, DbrAt(n), DbrSize, DbrSize, DbrAt(n))
    BY <1>1, <1>2, <1>3, <1>4, <1>5, Sizes DEF CanBump
  <2> QED
    BY <2>1, BumpAt DEF u
<1>7. /\ u \in Seq(Blocks) /\ Len(u) = 2 * n + 2
      /\ \A j \in 1 .. 2 * n + 1 : u[j] = t[j]
      /\ u[2 * n + 2].offset = DbrAt(n) /\ u[2 * n + 2].size = DbrSize /\ u[2 * n + 2].used
  <2>1. Len(t) + 1 = 2 * n + 2
    BY <1>2
  <2>2. /\ u \in Seq(Blocks) /\ Len(u) = Len(t) + 1
        /\ \A j \in 1 .. Len(t) : u[j] = t[j]
        /\ u[Len(t) + 1].offset = DbrAt(n) /\ u[Len(t) + 1].size = DbrSize /\ u[Len(t) + 1].used
    <3>1. DbrAt(n) \in Int /\ DbrSize \in Int
      BY <1>4, Sizes
    <3>2. IsGrown(u, t, DbrAt(n), DbrSize)
      BY <1>2, <3>1, GrownTable DEF u
    <3> QED
      BY <3>2 DEF IsGrown
  <2> QED
    BY <1>2, <2>1, <2>2
<1>8. TableOf(u, 2 * n + 2, (0 .. n), (0 .. n))
  <2>1. ASSUME NEW m \in Nat, 2 * m + 1 <= 2 * n + 2
        PROVE  /\ u[2 * m + 1].offset = RingAt(m) /\ u[2 * m + 1].size = RingSize
               /\ u[2 * m + 1].used <=> m \in (0 .. n)
    <3>1. 2 * m + 1 \in 1 .. 2 * n + 1 /\ 2 * m + 1 <= 2 * n + 1
      BY <2>1
    <3>2. t[2 * m + 1].offset = RingAt(m) /\ t[2 * m + 1].size = RingSize /\ (t[2 * m + 1].used <=> m \in (0 .. n))
      BY <1>1, <3>1 DEF TableOf
    <3>3. u[2 * m + 1] = t[2 * m + 1]
      BY <1>7, <3>1
    <3> QED
      BY <3>2, <3>3
  <2>2. ASSUME NEW m \in Nat, 2 * m + 2 <= 2 * n + 2
        PROVE  /\ u[2 * m + 2].offset = DbrAt(m) /\ u[2 * m + 2].size = DbrSize
               /\ u[2 * m + 2].used <=> m \in (0 .. n)
    <3>1. CASE m = n
      <4>1. m \in (0 .. n)
        BY <3>1
      <4> QED
        BY <1>7, <3>1, <4>1
    <3>2. CASE m # n
      <4>1. 2 * m + 2 \in 1 .. 2 * n + 1 /\ 2 * m + 2 <= 2 * n + 1 /\ (m \in (0 .. n - 1) <=> m \in (0 .. n))
        BY <2>2, <3>2
      <4>2. t[2 * m + 2].offset = DbrAt(m) /\ t[2 * m + 2].size = DbrSize /\ (t[2 * m + 2].used <=> m \in (0 .. n - 1))
        BY <1>1, <4>1 DEF TableOf
      <4>3. u[2 * m + 2] = t[2 * m + 2]
        BY <1>7, <4>1
      <4> QED
        BY <4>1, <4>2, <4>3
    <3> QED
      BY <3>1, <3>2
  <2> QED
    BY <1>7, <2>1, <2>2 DEF TableOf
<1> QED
  BY <1>6, <1>8 DEF Shape, Got

-----------------------------------------------------------------------------
(* Pairs of a ring and a doorbell.                                         *)

\* The running total when c of the K pairs of the table are used.
Level(K, c) == Top(K) - (K - c) * Pair

LEMMA LevelSteps ==
    ASSUME Geometry, NEW K \in Nat, NEW c \in Int
    PROVE  /\ Level(K, c) \in Int /\ Level(K, c + 1) = Level(K, c) + Pair
           /\ Level(K, c - 1) = Level(K, c) - Pair /\ Level(K, K) = Top(K)
<1>1. PICK p \in Int, t \in Int : p = Pair /\ t = Top(K)
  BY Sizes, TopAligned
<1>2. /\ (K - (c + 1)) * p = (K - c) * p - p /\ (K - (c - 1)) * p = (K - c) * p + p
      /\ (K - K) * p = 0 /\ (K - c) * p \in Int
  OBVIOUS
<1>3. PICK x \in Int : x = (K - c) * p
  BY <1>2
<1> QED
  BY <1>1, <1>2, <1>3 DEF Level

\* The heap between two calls of the pool: the used pairs of the table are S, c of them.
Pairs(h, S, c) ==
    \E K \in 0 .. 2 * QpCount :
        /\ \A k \in S : k \in 0 .. K - 1
        /\ c <= K
        /\ Shape(h, 2 * K, S, S, Level(K, c))

\* A ring and a doorbell are taken at the first unused pair.
LEMMA AllocPair ==
    ASSUME Geometry, NEW h, NEW n \in Nat, n < 2 * QpCount, Pairs(h, 0 .. n - 1, n)
    PROVE  LET q == AllocQueue(h, FALSE)
           IN /\ q.ring = RingAt(n) /\ q.dbr = DbrAt(n) /\ Pairs(q.heap, 0 .. n, n + 1)
              /\ q = [ring |-> q.ring, dbr |-> q.dbr, heap |-> q.heap]
<1> DEFINE r == AlignedAlloc(h, RingSize, Page)
           d == AlignedAlloc(r.heap, DbrSize, DbrSize)
<1>1. PICK K \in 0 .. 2 * QpCount : n <= K /\ Shape(h, 2 * K, 0 .. n - 1, 0 .. n - 1, Level(K, n))
  BY DEF Pairs
<1>2. /\ r.ret = RingAt(n) /\ d.ret = DbrAt(n) /\ Pairs(d.heap, 0 .. n, n + 1)
  <2>1. CASE n < K
    <3>1. K \in Nat /\ Level(K, n) \in Int /\ Level(K, n) + RingSize \in Int
      <4>1. K \in Nat /\ n \in Int /\ RingSize \in Int
        BY Sizes
      <4>2. Level(K, n) \in Int
        BY <4>1, LevelSteps
      <4> QED
        BY <4>1, <4>2
    <3>2. r.ret = RingAt(n) /\ Shape(r.heap, 2 * K, 0 .. n, 0 .. n - 1, Level(K, n) + RingSize)
      BY <1>1, <2>1, <3>1, RingReuse
    <3> HIDE DEF r
    <3>3. d.ret = DbrAt(n)
          /\ Shape(d.heap, 2 * K, 0 .. n, 0 .. n, Level(K, n) + RingSize + DbrSize)
      BY <2>1, <3>1, <3>2, DbrReuse
    <3> HIDE DEF d
    <3>4. Level(K, n + 1) = Level(K, n) + RingSize + DbrSize
      <4>1. n \in Int /\ RingSize \in Int /\ DbrSize \in Int
        BY Sizes
      <4>2. Level(K, n + 1) = Level(K, n) + Pair
        BY <3>1, <4>1, LevelSteps
      <4> QED
        BY <3>1, <4>1, <4>2 DEF Pair
    <3>5. n + 1 <= K /\ \A k \in 0 .. n : k \in 0 .. K - 1
      BY <2>1
    <3>6. Pairs(d.heap, 0 .. n, n + 1)
      BY <3>3, <3>4, <3>5 DEF Pairs
    <3> QED
      BY <3>2, <3>3, <3>6
  <2>2. CASE n = K
    <3>1. Level(K, n) = Top(n)
      BY <2>2, LevelSteps
    <3>2. Shape(h, 2 * n, 0 .. n - 1, 0 .. n - 1, Top(n))
      BY <1>1, <2>2, <3>1
    <3>3. r.ret = RingAt(n)
          /\ Shape(r.heap, 2 * n + 1, 0 .. n, 0 .. n - 1, RingAt(n) + RingSize)
      BY <3>2, RingBump
    <3>4. RingAt(n) + RingSize = DbrAt(n)
      BY DEF RingAt, DbrAt
    <3> HIDE DEF r
    <3>5. d.ret = DbrAt(n)
          /\ Shape(d.heap, 2 * n + 2, 0 .. n, 0 .. n, DbrAt(n) + DbrSize)
      BY <3>3, <3>4, DbrBump
    <3> HIDE DEF d
    <3>6. DbrAt(n) + DbrSize = Top(n + 1) /\ n + 1 \in Nat /\ 2 * (n + 1) = 2 * n + 2
      BY DEF Top
    <3>7. Level(n + 1, n + 1) = Top(n + 1)
      BY <3>6, LevelSteps
    <3>8. Shape(d.heap, 2 * (n + 1), 0 .. n, 0 .. n, Level(n + 1, n + 1))
      BY <3>5, <3>6, <3>7
    <3>9. n + 1 \in 0 .. 2 * QpCount /\ (\A k \in 0 .. n : k \in 0 .. (n + 1) - 1)
      BY Sizes
    <3>10. Pairs(d.heap, 0 .. n, n + 1)
      BY <3>8, <3>9 DEF Pairs
    <3> QED
      BY <3>3, <3>5, <3>10
  <2> QED
    BY <1>1, <2>1, <2>2
<1>3. AllocQueue(h, FALSE) = AllocDbr(r, FALSE)
  BY DEF AllocQueue
<1>4. RingAt(n) # Nowhere
  BY PlaceInt DEF Nowhere
<1> HIDE DEF r
<1>5. AllocDbr(r, FALSE) = [ring |-> r.ret, dbr |-> d.ret, heap |-> d.heap]
  BY <1>2, <1>4 DEF AllocDbr
<1>6. PICK q, g : q = AllocQueue(h, FALSE) /\ g = d.heap
  OBVIOUS
<1> HIDE DEF d
<1>7. q = [ring |-> RingAt(n), dbr |-> DbrAt(n), heap |-> g]
  BY <1>2, <1>3, <1>5, <1>6
<1>8. q.ring = RingAt(n) /\ q.dbr = DbrAt(n) /\ q.heap = g
  BY <1>7
<1> QED
  BY <1>2, <1>6, <1>7, <1>8

\* A ring and its doorbell are given back.
LEMMA FreePair ==
    ASSUME Geometry, NEW h, NEW S, NEW k \in Nat, k \in S, NEW c \in Int, Pairs(h, S, c)
    PROVE  Pairs(Free(Free(h, RingAt(k)), DbrAt(k)), S \ {k}, c - 1)
<1>1. PICK K \in 0 .. 2 * QpCount :
         (\A j \in S : j \in 0 .. K - 1) /\ c <= K /\ Shape(h, 2 * K, S, S, Level(K, c))
  BY DEF Pairs
<1>2. 2 * k + 1 <= 2 * K /\ 2 * k + 2 <= 2 * K /\ 2 * K \in Nat /\ K \in Nat
  BY <1>1
<1>3. Level(K, c) \in Int /\ Level(K, c) - RingSize \in Int
  BY <1>2, LevelSteps, Sizes
<1>4. Shape(Free(h, RingAt(k)), 2 * K, S \ {k}, S, Level(K, c) - RingSize)
  BY <1>1, <1>2, <1>3, FreeRing
<1>5. Shape(Free(Free(h, RingAt(k)), DbrAt(k)), 2 * K, S \ {k}, S \ {k},
            Level(K, c) - RingSize - DbrSize)
  BY <1>2, <1>3, <1>4, FreeDbr
<1>6. Level(K, c) - RingSize - DbrSize = Level(K, c - 1)
  <2>1. RingSize \in Int /\ DbrSize \in Int
    BY Sizes
  <2>2. Level(K, c - 1) = Level(K, c) - Pair
    BY <1>2, LevelSteps
  <2> QED
    BY <1>3, <2>1, <2>2 DEF Pair
<1>7. c - 1 <= K /\ \A j \in S \ {k} : j \in 0 .. K - 1
  BY <1>1
<1> QED
  BY <1>5, <1>6, <1>7 DEF Pairs

-----------------------------------------------------------------------------
(* What a creation and a destruction do to the heap and the driver.        *)

\* The objects the driver makes in the n-th creation.
ObjectsAt(n) == {CqObj(Cqn(n)), Uar(CqUar(n)), QpObj(Qpn(n)), Uar(QpUar(n))}

\* A completion queue at pair k, a queue pair at pairs 2 * i and 2 * i + 1, both of the
\* n-th creation.
CqAt(cq, k, n) ==
    /\ cq.cq_offset = RingAt(k) /\ cq.dbr_offset = DbrAt(k)
    /\ cq.cqn = Cqn(n) /\ cq.uar = CqUar(n)
QpAt(q, i, n) ==
    /\ CqAt(q.send_cq, 2 * i, n)
    /\ q.wq_offset = RingAt(2 * i + 1) /\ q.dbr_offset = DbrAt(2 * i + 1)
    /\ q.qpn = Qpn(n) /\ q.uar = QpUar(n)

LEMMA FreeNowhere == \A h : Free(h, Nowhere) = h
  BY DEF Free

\* The completion queue of the c-th creation has been made at pair n.
CqMade(r, o, n, c) ==
    /\ Pairs(r.heap, 0 .. n, n + 1)
    /\ r.objs = o \cup {Uar(CqUar(c)), CqObj(Cqn(c))}
    /\ r.cq # NoQp /\ CqAt(r.cq, n, c)

LEMMA CreateCqIs ==
    ASSUME Geometry, NEW h, NEW o, NEW f, f \notin {"cqRing", "cqObject"}, NEW c,
           NEW n \in Nat, n < 2 * QpCount, Pairs(h, 0 .. n - 1, n)
    PROVE  CqMade(CreateCq([heap |-> h, objs |-> o], f, c), o, n, c)
<1> DEFINE s == [heap |-> h, objs |-> o]
           q == AllocQueue(h, FALSE)
           num == RoundUpPow2(Entries)
           ctx == Apply(<< >>, CreateCqCmd(Umem, q.ring, q.dbr, num, CqUar(c), Eqn))
           cq == Cq(CqUar(c), Cqn(c), num, q.ring, q.dbr, ctx)
           new == o \cup {Uar(CqUar(c)), CqObj(Cqn(c))}
<1>1. q.ring = RingAt(n) /\ q.dbr = DbrAt(n) /\ Pairs(q.heap, 0 .. n, n + 1)
  BY AllocPair
<1>2. q.dbr # Nowhere
  <2>1. DbrAt(n) # Nowhere
    BY PlaceInt DEF Nowhere
  <2> HIDE DEF q
  <2> QED
    BY <1>1, <2>1
<1>3. AllocQueue(s.heap, f = "cqRing") = q
  <2>1. (f = "cqRing") = FALSE
    OBVIOUS
  <2>2. s.heap = h
    OBVIOUS
  <2> QED
    BY <2>1, <2>2
<1>4. CreateCq(s, f, c) = [heap |-> q.heap, objs |-> new, cq |-> cq]
  <2> HIDE DEF q
  <2> QED
    BY <1>2, <1>3 DEF CreateCq
<1> HIDE DEF q, num, ctx
<1>5. /\ cq.cq_offset = q.ring /\ cq.dbr_offset = q.dbr /\ cq.cqn = Cqn(c)
      /\ cq.uar = CqUar(c) /\ DOMAIN cq # DOMAIN NoQp
  BY DEF Cq, NoQp
<1>6. cq # NoQp /\ CqAt(cq, n, c)
  BY <1>1, <1>5 DEF CqAt
<1> HIDE DEF cq, new
<1>7. PICK r : r = CreateCq(s, f, c)
  OBVIOUS
<1>8. r.heap = q.heap /\ r.objs = new /\ r.cq = cq
  BY <1>4, <1>7
<1> QED
  BY <1>1, <1>6, <1>7, <1>8 DEF new, CqMade

LEMMA GiveUpIs ==
    ASSUME NEW h, NEW o, NEW page, NEW cq, NEW wq, NEW dbr
    PROVE  LET r == GiveUp([heap |-> h, objs |-> o], page, cq, wq, dbr)
           IN /\ r.heap = Free(Free(Free(Free(h, cq.cq_offset), cq.dbr_offset), wq), dbr)
              /\ r.objs = (o \ {Uar(page)}) \ {CqObj(cq.cqn), Uar(cq.uar)}
              /\ r.qp = NoQp
<1> DEFINE s == [[heap |-> h, objs |-> o] EXCEPT !.objs = DestroyUar(@, page)]
           rest == DestroyCq(s, cq)
<1>1. s.heap = h /\ s.objs = o \ {Uar(page)}
  BY DEF DestroyUar
<1>2. rest.heap = Free(Free(h, cq.cq_offset), cq.dbr_offset)
      /\ rest.objs = (o \ {Uar(page)}) \ {CqObj(cq.cqn), Uar(cq.uar)}
  <2> HIDE DEF s
  <2> QED
    BY <1>1 DEF DestroyCq
<1>3. GiveUp([heap |-> h, objs |-> o], page, cq, wq, dbr) =
          [heap |-> Free(Free(rest.heap, wq), dbr), objs |-> rest.objs, qp |-> NoQp]
  BY DEF GiveUp
<1> HIDE DEF rest
<1> QED
  BY <1>2, <1>3

LEMMA DestroyIs ==
    ASSUME NEW h, NEW o, NEW q
    PROVE  LET r == DestroyQp([heap |-> h, objs |-> o], q)
               cq == q.send_cq
           IN /\ r.heap = Free(Free(Free(Free(h, cq.cq_offset), cq.dbr_offset), q.wq_offset),
                               q.dbr_offset)
              /\ r.objs = o \ ObjectsOf(q)
<1> DEFINE s == [[heap |-> h, objs |-> o] EXCEPT !.objs = DestroyUar(@ \ {QpObj(q.qpn)}, q.uar)]
           rest == DestroyCq(s, q.send_cq)
<1>1. s.heap = h /\ s.objs = (o \ {QpObj(q.qpn)}) \ {Uar(q.uar)}
  BY DEF DestroyUar
<1>2. /\ rest = [heap |-> rest.heap, objs |-> rest.objs]
      /\ rest.heap = Free(Free(h, q.send_cq.cq_offset), q.send_cq.dbr_offset)
      /\ rest.objs = ((o \ {QpObj(q.qpn)}) \ {Uar(q.uar)})
                        \ {CqObj(q.send_cq.cqn), Uar(q.send_cq.uar)}
  <2> HIDE DEF s
  <2> QED
    BY <1>1 DEF DestroyCq
<1>3. DestroyQp([heap |-> h, objs |-> o], q) =
          [rest EXCEPT !.heap = Free(Free(@, q.wq_offset), q.dbr_offset)]
  BY DEF DestroyQp
<1> HIDE DEF rest
<1>4. /\ DestroyQp([heap |-> h, objs |-> o], q).heap =
             Free(Free(rest.heap, q.wq_offset), q.dbr_offset)
      /\ DestroyQp([heap |-> h, objs |-> o], q).objs = rest.objs
  BY <1>2, <1>3
<1>5. rest.objs = o \ ObjectsOf(q)
  BY <1>2 DEF ObjectsOf
<1> QED
  BY <1>2, <1>4, <1>5

\* Under the failures that undo their work, a creation takes the next two pairs and
\* makes four objects, or leaves heap and driver as they were.
LEMMA CreateIs ==
    ASSUME Geometry, NEW h, NEW o, NEW f, f \notin {"cqRing", "cqObject"}, NEW c \in Nat,
           NEW i \in Index, Pairs(h, 0 .. 2 * i - 1, 2 * i), o \cap ObjectsAt(c) = {}
    PROVE  LET made == CreateRcQp([heap |-> h, objs |-> o], f, c)
           IN \/ /\ made.qp = NoQp /\ made.objs = o
                 /\ Pairs(made.heap, 0 .. 2 * i - 1, 2 * i)
              \/ /\ made.qp # NoQp /\ made.objs = o \cup ObjectsAt(c)
                 /\ Pairs(made.heap, 0 .. 2 * i + 1, 2 * i + 2)
                 /\ QpAt(made.qp, i, c)
<1> DEFINE s == [heap |-> h, objs |-> o]
           made == CreateRcQp(s, f, c)
           r == CreateCq(s, f, c)
           uars == CreateUar(r.objs, QpUar(c), f)
           q == AllocQueue(r.heap, FALSE)
           mine == {Uar(CqUar(c)), CqObj(Cqn(c))}
           Kept == made.qp = NoQp /\ made.objs = o /\ Pairs(made.heap, 0 .. 2 * i - 1, 2 * i)
           Done == /\ made.qp # NoQp /\ made.objs = o \cup ObjectsAt(c)
                   /\ Pairs(made.heap, 0 .. 2 * i + 1, 2 * i + 2) /\ QpAt(made.qp, i, c)
<1>0. i \in Nat /\ 2 * i \in Nat /\ 2 * i + 1 < 2 * QpCount /\ 2 * i < 2 * QpCount
  BY PoolNumbers DEF Index
<1> SUFFICES Kept \/ Done
  OBVIOUS
<1>1. CASE f = "query" \/ ~VersionSupported(HcaCap)
  <2>1. made = [heap |-> h, objs |-> o, qp |-> NoQp]
    BY <1>1 DEF CreateRcQp
  <2> HIDE DEF made
  <2>2. made.heap = h /\ made.objs = o /\ made.qp = NoQp
    BY <2>1
  <2> QED
    BY <2>2
<1>2. CASE ~(f = "query" \/ ~VersionSupported(HcaCap))
  <2>1. /\ Pairs(r.heap, 0 .. 2 * i, 2 * i + 1) /\ r.objs = o \cup mine
        /\ r.cq # NoQp /\ CqAt(r.cq, 2 * i, c)
    <3>1. PICK n \in Nat : n = 2 * i
      BY <1>0
    <3>2. n < 2 * QpCount /\ Pairs(h, 0 .. n - 1, n)
      BY <1>0, <3>1
    <3>3. CqMade(r, o, n, c)
      BY <3>2, CreateCqIs
    <3> HIDE DEF r
    <3> QED
      BY <3>1, <3>3 DEF CqMade
  <2>2. Uar(QpUar(c)) \notin o \cup mine
    <3>1. Uar(QpUar(c)) \notin o
      BY DEF ObjectsAt
    <3>2. QpUar(c) # CqUar(c)
      BY DEF QpUar, CqUar
    <3>3. Uar(QpUar(c)) \notin mine
      BY <3>2 DEF Uar, CqObj
    <3> QED
      BY <3>1, <3>3
  <2>3. \/ uars = o \cup mine /\ Uar(QpUar(c)) \notin uars
        \/ uars = (o \cup mine) \cup {Uar(QpUar(c))}
    <3> HIDE DEF r, mine
    <3> QED
      BY <2>1, <2>2 DEF CreateUar
  <2>4. o \cap mine = {}
    BY DEF ObjectsAt
  <2>5. uars \ {Uar(QpUar(c))} = o \cup mine
    <3> HIDE DEF uars, mine
    <3> QED
      BY <2>2, <2>3
  <2>6. (uars \ {Uar(QpUar(c))}) \ {CqObj(r.cq.cqn), Uar(r.cq.uar)} = o
    <3> HIDE DEF uars, r
    <3> QED
      BY <2>1, <2>4, <2>5 DEF CqAt
  <2>7. Free(Free(r.heap, r.cq.cq_offset), r.cq.dbr_offset) =
            Free(Free(r.heap, RingAt(2 * i)), DbrAt(2 * i))
    <3> HIDE DEF r
    <3> QED
      BY <2>1 DEF CqAt
  <2>8. CASE Uar(QpUar(c)) \notin uars
    <3>1. made = GiveUp([heap |-> r.heap, objs |-> uars], QpUar(c), r.cq, Nowhere, Nowhere)
      BY <1>2, <2>1, <2>8 DEF CreateRcQp
    <3> HIDE DEF made, r, uars
    <3>2. /\ made.heap = Free(Free(Free(Free(r.heap, r.cq.cq_offset), r.cq.dbr_offset),
                                   Nowhere), Nowhere)
          /\ made.objs = (uars \ {Uar(QpUar(c))}) \ {CqObj(r.cq.cqn), Uar(r.cq.uar)}
          /\ made.qp = NoQp
      BY <3>1, GiveUpIs
    <3>3. made.heap = Free(Free(r.heap, RingAt(2 * i)), DbrAt(2 * i))
      BY <2>7, <3>2, FreeNowhere
    <3>4. Pairs(made.heap, (0 .. 2 * i) \ {2 * i}, (2 * i + 1) - 1)
      <4>1. PICK k \in Nat, e \in Int, S \in SUBSET Int :
               k = 2 * i /\ e = 2 * i + 1 /\ S = 0 .. 2 * i
        BY <1>0
      <4>2. PICK g : g = r.heap
        OBVIOUS
      <4>3. k \in S /\ Pairs(g, S, e)
        BY <1>0, <2>1, <4>1, <4>2
      <4>4. Pairs(Free(Free(g, RingAt(k)), DbrAt(k)), S \ {k}, e - 1)
        BY <4>3, FreePair
      <4> QED
        BY <3>3, <4>1, <4>2, <4>4
    <3>5. (0 .. 2 * i) \ {2 * i} = 0 .. 2 * i - 1 /\ (2 * i + 1) - 1 = 2 * i
      BY <1>0
    <3> QED
      BY <2>6, <3>2, <3>4, <3>5
  <2>9. CASE Uar(QpUar(c)) \in uars
    <3>0. 2 * i + 1 \in Nat /\ (2 * i + 1) - 1 = 2 * i /\ (2 * i + 1) + 1 = 2 * i + 2
      BY <1>0
    <3>1. /\ q.ring = RingAt(2 * i + 1) /\ q.dbr = DbrAt(2 * i + 1)
          /\ Pairs(q.heap, 0 .. 2 * i + 1, 2 * i + 2)
      <4> HIDE DEF r
      <4>1. Pairs(r.heap, 0 .. (2 * i + 1) - 1, 2 * i + 1)
        BY <2>1, <3>0
      <4>2. /\ q.ring = RingAt(2 * i + 1) /\ q.dbr = DbrAt(2 * i + 1)
            /\ Pairs(q.heap, 0 .. 2 * i + 1, (2 * i + 1) + 1)
        BY <1>0, <3>0, <4>1, AllocPair
      <4> HIDE DEF q
      <4> QED
        BY <3>0, <4>2
    <3>2. q.dbr # Nowhere
      <4>1. DbrAt(2 * i + 1) # Nowhere
        BY <3>0, PlaceInt DEF Nowhere
      <4> HIDE DEF q
      <4> QED
        BY <3>1, <4>1
    <3>3. CASE f = "qpObject"
      <4>1. made = GiveUp([heap |-> q.heap, objs |-> uars], QpUar(c), r.cq, q.ring, q.dbr)
        BY <1>2, <2>1, <2>9, <3>3 DEF CreateRcQp
      <4> HIDE DEF made, r, uars, q
      <4>2. /\ made.heap = Free(Free(Free(Free(q.heap, r.cq.cq_offset), r.cq.dbr_offset),
                                     q.ring), q.dbr)
            /\ made.objs = (uars \ {Uar(QpUar(c))}) \ {CqObj(r.cq.cqn), Uar(r.cq.uar)}
            /\ made.qp = NoQp
        BY <4>1, GiveUpIs
      <4>3. PICK g : g = Free(Free(q.heap, RingAt(2 * i)), DbrAt(2 * i))
        OBVIOUS
      <4>4. made.heap = Free(Free(g, RingAt(2 * i + 1)), DbrAt(2 * i + 1))
        BY <2>1, <3>1, <4>2, <4>3 DEF CqAt
      <4>5. Pairs(g, (0 .. 2 * i + 1) \ {2 * i}, (2 * i + 2) - 1)
        <5>1. PICK k \in Nat, e \in Int, S \in SUBSET Int :
                 k = 2 * i /\ e = 2 * i + 2 /\ S = 0 .. 2 * i + 1
          BY <1>0
        <5>2. k \in S /\ Pairs(q.heap, S, e) /\ g = Free(Free(q.heap, RingAt(k)), DbrAt(k))
          BY <1>0, <3>1, <4>3, <5>1
        <5>3. Pairs(g, S \ {k}, e - 1)
          BY <5>2, FreePair
        <5> QED
          BY <5>1, <5>3
      <4>6. 2 * i + 1 \in (0 .. 2 * i + 1) \ {2 * i} /\ (2 * i + 2) - 1 \in Int
        BY <1>0
      <4>7. Pairs(made.heap, ((0 .. 2 * i + 1) \ {2 * i}) \ {2 * i + 1}, ((2 * i + 2) - 1) - 1)
        <5>0. PICK S : S = (0 .. 2 * i + 1) \ {2 * i}
          OBVIOUS
        <5>1. PICK k \in Nat, e \in Int : k = 2 * i + 1 /\ e = (2 * i + 2) - 1
          BY <3>0, <4>6
        <5>2. k \in S /\ Pairs(g, S, e) /\ made.heap = Free(Free(g, RingAt(k)), DbrAt(k))
          BY <4>4, <4>5, <4>6, <5>0, <5>1
        <5>3. Pairs(made.heap, S \ {k}, e - 1)
          BY <5>2, FreePair
        <5> QED
          BY <5>0, <5>1, <5>3
      <4>8. /\ ((0 .. 2 * i + 1) \ {2 * i}) \ {2 * i + 1} = 0 .. 2 * i - 1
            /\ ((2 * i + 2) - 1) - 1 = 2 * i
        BY <1>0
      <4> QED
        BY <2>6, <4>2, <4>7, <4>8
    <3>4. CASE f # "qpObject"
      <4> DEFINE ctx == Apply(<< >>, CreateQpCmd(Umem, q.ring, q.dbr, RoundUpPow2(Entries),
                                                 QpUar(c), r.cq.cqn, Pdn))
                 num == RoundUpPow2(Entries)
                 qp == Qp(r.cq, QpUar(c), Qpn(c), num, q.ring, q.dbr, ctx)
      <4>1. made = [heap |-> q.heap, objs |-> uars \cup {QpObj(Qpn(c))}, qp |-> qp]
        BY <1>2, <2>1, <2>9, <3>2, <3>4 DEF CreateRcQp
      <4> HIDE DEF ctx, num, q, r, uars
      <4>2. /\ qp.send_cq = r.cq /\ qp.wq_offset = q.ring /\ qp.dbr_offset = q.dbr
            /\ qp.qpn = Qpn(c) /\ qp.uar = QpUar(c) /\ qp.state = "reset"
        BY DEF Qp
      <4>3. QpAt(qp, i, c) /\ qp # NoQp
        <5>1. NoQp.state = "none"
          BY DEF NoQp
        <5> HIDE DEF qp
        <5> QED
          BY <2>1, <3>1, <4>2, <5>1 DEF QpAt
      <4>4. uars \cup {QpObj(Qpn(c))} = o \cup ObjectsAt(c)
        BY <2>3, <2>9 DEF ObjectsAt
      <4> HIDE DEF qp, made
      <4>5. /\ made.heap = q.heap /\ made.objs = uars \cup {QpObj(Qpn(c))} /\ made.qp = qp
        BY <4>1
      <4> QED
        BY <3>1, <4>3, <4>4, <4>5
    <3> QED
      BY <3>3, <3>4
  <2> QED
    BY <2>8, <2>9
<1> QED
  BY <1>1, <1>2

\* The numbers of the n-th creation, and the places of the queue pair of index i.
MadeAs(q, n) ==
    /\ q.send_cq.cqn = Cqn(n) /\ q.send_cq.uar = CqUar(n)
    /\ q.qpn = Qpn(n) /\ q.uar = QpUar(n)
PlacedAt(q, i) ==
    /\ q.send_cq.cq_offset = RingAt(2 * i) /\ q.send_cq.dbr_offset = DbrAt(2 * i)
    /\ q.wq_offset = RingAt(2 * i + 1) /\ q.dbr_offset = DbrAt(2 * i + 1)

LEMMA CreateCqObjects ==
    ASSUME NEW h, NEW o, NEW f, NEW c
    PROVE  LET r == CreateCq([heap |-> h, objs |-> o], f, c)
           IN \/ r.cq = NoQp /\ r.objs = o
              \/ /\ r.cq # NoQp /\ r.objs = o \cup {Uar(CqUar(c)), CqObj(Cqn(c))}
                 /\ r.cq.cqn = Cqn(c) /\ r.cq.uar = CqUar(c)
<1> DEFINE s == [heap |-> h, objs |-> o]
           r == CreateCq(s, f, c)
           q == AllocQueue(h, f = "cqRing")
           num == RoundUpPow2(Entries)
           ctx == Apply(<< >>, CreateCqCmd(Umem, q.ring, q.dbr, num, CqUar(c), Eqn))
           cq == Cq(CqUar(c), Cqn(c), num, q.ring, q.dbr, ctx)
           new == o \cup {Uar(CqUar(c)), CqObj(Cqn(c))}
<1>1. AllocQueue(s.heap, f = "cqRing") = q
  <2>1. s.heap = h
    OBVIOUS
  <2> QED
    BY <2>1
<1>2. CASE q.dbr = Nowhere \/ f = "cqObject"
  <2>1. r = [heap |-> q.heap, objs |-> o, cq |-> NoQp]
    <3> HIDE DEF q
    <3> QED
      BY <1>1, <1>2 DEF CreateCq
  <2> HIDE DEF r, q
  <2>2. r.cq = NoQp /\ r.objs = o
    BY <2>1
  <2> QED
    BY <2>2 DEF r
<1>3. CASE ~(q.dbr = Nowhere \/ f = "cqObject")
  <2>1. r = [heap |-> q.heap, objs |-> new, cq |-> cq]
    <3> HIDE DEF q
    <3> QED
      BY <1>1, <1>3 DEF CreateCq
  <2> HIDE DEF q, num, ctx
  <2>2. cq.cqn = Cqn(c) /\ cq.uar = CqUar(c) /\ DOMAIN cq # DOMAIN NoQp
    BY DEF Cq, NoQp
  <2> HIDE DEF cq, new, r
  <2>3. r.objs = new /\ r.cq = cq /\ cq # NoQp
    BY <2>1, <2>2
  <2> QED
    BY <2>2, <2>3 DEF new, r
<1> QED
  BY <1>2, <1>3

\* Wherever a creation fails and whatever the heap looks like, it leaves the driver
\* with the four objects of the queue pair it returns, or with nothing new.
LEMMA CreateObjects ==
    ASSUME NEW h, NEW o, NEW f, NEW c \in Nat
    PROVE  LET made == CreateRcQp([heap |-> h, objs |-> o], f, c)
           IN /\ made.qp # NoQp => MadeAs(made.qp, c)
              /\ o \cap ObjectsAt(c) = {} =>
                    made.objs = IF made.qp = NoQp THEN o ELSE o \cup ObjectsAt(c)
<1> DEFINE s == [heap |-> h, objs |-> o]
           made == CreateRcQp(s, f, c)
           r == CreateCq(s, f, c)
           uars == CreateUar(r.objs, QpUar(c), f)
           q == AllocQueue(r.heap, FALSE)
           mine == {Uar(CqUar(c)), CqObj(Cqn(c))}
           Kept == made.qp = NoQp /\ (o \cap ObjectsAt(c) = {} => made.objs = o)
           Done == /\ made.qp # NoQp /\ MadeAs(made.qp, c)
                   /\ o \cap ObjectsAt(c) = {} => made.objs = o \cup ObjectsAt(c)
<1> SUFFICES Kept \/ Done
  OBVIOUS
<1>1. CASE f = "query" \/ ~VersionSupported(HcaCap)
  <2>1. made = [heap |-> h, objs |-> o, qp |-> NoQp]
    BY <1>1 DEF CreateRcQp
  <2> HIDE DEF made
  <2>2. made.objs = o /\ made.qp = NoQp
    BY <2>1
  <2> QED
    BY <2>2
<1>2. CASE ~(f = "query" \/ ~VersionSupported(HcaCap)) /\ r.cq = NoQp
  <2>1. made = [heap |-> r.heap, objs |-> r.objs, qp |-> NoQp]
    BY <1>2 DEF CreateRcQp
  <2>2. r.objs = o
    BY <1>2, CreateCqObjects
  <2> HIDE DEF made, r
  <2>3. made.objs = o /\ made.qp = NoQp
    BY <2>1, <2>2
  <2> QED
    BY <2>3
<1>3. CASE ~(f = "query" \/ ~VersionSupported(HcaCap)) /\ r.cq # NoQp
  <2>1. r.objs = o \cup mine /\ r.cq.cqn = Cqn(c) /\ r.cq.uar = CqUar(c)
    BY <1>3, CreateCqObjects
  <2>2. o \cap ObjectsAt(c) = {} => Uar(QpUar(c)) \notin o \cup mine /\ o \cap mine = {}
    <3>1. QpUar(c) # CqUar(c)
      BY DEF QpUar, CqUar
    <3>2. Uar(QpUar(c)) \notin mine
      BY <3>1 DEF Uar, CqObj
    <3> QED
      BY <3>2 DEF ObjectsAt
  <2>3. \/ uars = (o \cup mine) \cup {Uar(QpUar(c))}
        \/ uars \in {o \cup mine, (o \cup mine) \ {Uar(QpUar(c))}}
    <3> HIDE DEF r, mine
    <3> QED
      BY <2>1 DEF CreateUar
  <2>4. o \cap ObjectsAt(c) = {} =>
           (uars \ {Uar(QpUar(c))}) \ {CqObj(r.cq.cqn), Uar(r.cq.uar)} = o
    <3>1. {CqObj(r.cq.cqn), Uar(r.cq.uar)} = mine
      <4> HIDE DEF r
      <4> QED
        BY <2>1
    <3>2. uars \ {Uar(QpUar(c))} = (o \cup mine) \ {Uar(QpUar(c))}
      <4> HIDE DEF uars, mine
      <4> QED
        BY <2>3
    <3> HIDE DEF uars, mine, r
    <3> QED
      BY <2>2, <3>1, <3>2
  <2>5. CASE Uar(QpUar(c)) \notin uars
    <3>1. made = GiveUp([heap |-> r.heap, objs |-> uars], QpUar(c), r.cq, Nowhere, Nowhere)
      BY <1>3, <2>5 DEF CreateRcQp
    <3> HIDE DEF made, r, uars
    <3>2. /\ made.objs = (uars \ {Uar(QpUar(c))}) \ {CqObj(r.cq.cqn), Uar(r.cq.uar)}
          /\ made.qp = NoQp
      BY <3>1, GiveUpIs
    <3> QED
      BY <2>4, <3>2
  <2>6. CASE Uar(QpUar(c)) \in uars /\ (q.dbr = Nowhere \/ f = "qpObject")
    <3>1. made = GiveUp([heap |-> q.heap, objs |-> uars], QpUar(c), r.cq, q.ring, q.dbr)
      BY <1>3, <2>6 DEF CreateRcQp
    <3> HIDE DEF made, r, uars, q
    <3>2. /\ made.objs = (uars \ {Uar(QpUar(c))}) \ {CqObj(r.cq.cqn), Uar(r.cq.uar)}
          /\ made.qp = NoQp
      BY <3>1, GiveUpIs
    <3> QED
      BY <2>4, <3>2
  <2>7. CASE Uar(QpUar(c)) \in uars /\ ~(q.dbr = Nowhere \/ f = "qpObject")
    <3> DEFINE ctx == Apply(<< >>, CreateQpCmd(Umem, q.ring, q.dbr, RoundUpPow2(Entries),
                                               QpUar(c), r.cq.cqn, Pdn))
               num == RoundUpPow2(Entries)
               qp == Qp(r.cq, QpUar(c), Qpn(c), num, q.ring, q.dbr, ctx)
    <3>1. made = [heap |-> q.heap, objs |-> uars \cup {QpObj(Qpn(c))}, qp |-> qp]
      BY <1>3, <2>7 DEF CreateRcQp
    <3> HIDE DEF ctx, num, q, r, uars
    <3>2. /\ qp.send_cq = r.cq /\ qp.qpn = Qpn(c) /\ qp.uar = QpUar(c)
          /\ qp.state = "reset"
      BY DEF Qp
    <3>3. MadeAs(qp, c) /\ qp # NoQp
      <4>1. NoQp.state = "none"
        BY DEF NoQp
      <4> HIDE DEF qp
      <4> QED
        BY <2>1, <3>2, <4>1 DEF MadeAs
    <3>4. o \cap ObjectsAt(c) = {} => uars \cup {QpObj(Qpn(c))} = o \cup ObjectsAt(c)
      <4>1. uars = (o \cup mine) \cup {Uar(QpUar(c))} \/ Uar(QpUar(c)) \in o \cup mine
        <5> HIDE DEF uars, mine
        <5> QED
          BY <2>3, <2>7
      <4>2. o \cap ObjectsAt(c) = {} => uars = (o \cup mine) \cup {Uar(QpUar(c))}
        BY <2>2, <4>1
      <4> QED
        BY <4>2 DEF ObjectsAt
    <3> HIDE DEF qp, made
    <3>5. made.objs = uars \cup {QpObj(Qpn(c))} /\ made.qp = qp
      BY <3>1
    <3> QED
      BY <3>3, <3>4, <3>5
  <2> QED
    BY <2>5, <2>6, <2>7
<1> QED
  BY <1>1, <1>2, <1>3

-----------------------------------------------------------------------------
(* The pool: which pairs and objects belong to which queue pair.           *)

\* The queue pairs lo .. top - 1 exist, each at its places, and the pairs in use are
\* theirs: a creation loop adds them at the end, a destruction loop removes them from
\* the front.
Shaped ==
    /\ \E lo, top \in 0 .. QpCount :
          /\ lo <= top
          /\ Pairs(heap, 2 * lo .. 2 * top - 1, 2 * (top - lo))
          /\ \A i \in Index : qps[i] # NoQp <=> lo <= i /\ i < top
          /\ phase \in {"constructing", "creating", "recreating"} => top = next
          /\ phase # "destroying" => lo = 0
          /\ phase = "destroying" => lo = next \/ (lo = top /\ top <= next)
    /\ \A i \in Index : qps[i] # NoQp => PlacedAt(qps[i], i)

\* So it is until one of the exits that leak was taken.
PoolShape == leaks = {} => Shaped

\* How many queue pairs can have been created.
Budget(p, u, n) ==
    QpCount * u + (IF p \in {"constructing", "creating", "recreating"} THEN n
                   ELSE IF p = "destroying" THEN 0 ELSE QpCount)

\* The objects in the driver are those of the queue pairs.
Accounted == \A x : x \in objs <=> \E i \in Index : qps[i] # NoQp /\ x \in ObjectsOf(qps[i])

\* Every queue pair has the numbers of a creation of its own, a creation loop never
\* replaces one, a destruction loop leaves none behind, and no object of the driver is
\* lost unless a queue pair was forgotten.  None of this depends on the heap.
PoolObjects ==
    /\ created \in Nat /\ created <= Budget(phase, updates, next)
    /\ \A i \in Index : qps[i] # NoQp => \E n \in 0 .. created - 1 : MadeAs(qps[i], n)
    /\ \A i, j \in Index :
          qps[i] # NoQp /\ qps[j] # NoQp /\ qps[i].uar = qps[j].uar => i = j
    /\ phase \in {"constructing", "creating", "recreating"} =>
          \A i \in Index : i >= next => qps[i] = NoQp
    /\ phase = "destroying" => \A i \in Index : i < next => qps[i] = NoQp
    /\ "rst2init" \notin leaks => Accounted

LEMMA ObjectsAre ==
    ASSUME NEW q, NEW n, MadeAs(q, n)
    PROVE  ObjectsOf(q) = ObjectsAt(n)
  BY DEF MadeAs, ObjectsOf, ObjectsAt

LEMMA QpAtIs ==
    ASSUME NEW q, NEW i, NEW n, QpAt(q, i, n)
    PROVE  MadeAs(q, n) /\ PlacedAt(q, i)
  BY DEF QpAt, CqAt, MadeAs, PlacedAt

\* Different creations make different objects.
LEMMA ObjectsApart ==
    ASSUME Distinct, NEW m \in 0 .. QpCount * (MaxUpdates + 1) - 1,
           NEW n \in 0 .. QpCount * (MaxUpdates + 1) - 1, m # n
    PROVE  ObjectsAt(m) \cap ObjectsAt(n) = {}
<1>1. Cqn(m) # Cqn(n) /\ Qpn(m) # Qpn(n)
  BY DEF Distinct
<1>2. CqUar(m) # CqUar(n) /\ CqUar(m) # QpUar(n) /\ QpUar(m) # CqUar(n) /\ QpUar(m) # QpUar(n)
  BY DEF CqUar, QpUar
<1>3. "uar" # "cq" /\ "uar" # "qp" /\ "cq" # "qp"
  OBVIOUS
<1> QED
  BY <1>1, <1>2, <1>3 DEF ObjectsAt, CqObj, QpObj, Uar

LEMMA BudgetBound ==
    ASSUME NEW u \in 0 .. MaxUpdates, NEW n \in Index, NEW c \in Nat,
           c <= QpCount * u + n
    PROVE  c \in 0 .. QpCount * (MaxUpdates + 1) - 1
<1>1. PICK q \in Nat \ {0}, m \in Nat : q = QpCount /\ m = MaxUpdates
  BY PoolAssumption
<1>2. PICK d \in Nat : m = u + d
  BY <1>1
<1>3. q * (m + 1) = q * u + q * d + q /\ q * d \in Nat /\ q * u \in Nat
  BY <1>2
<1>4. n < q /\ n \in Nat
  BY <1>1 DEF Index
<1>5. PICK x \in Nat, y \in Nat : x = q * u /\ y = q * d
  BY <1>3
<1>6. c <= x + n /\ q * (m + 1) = x + y + q
  BY <1>1, <1>3, <1>5
<1>7. c <= q * (m + 1) - 1
  BY <1>4, <1>6
<1> QED
  BY <1>1, <1>7

LEMMA NoPairs == ASSUME Geometry PROVE Pairs(EmptyHeap, {}, 0)
<1>1. Level(0, 0) = 0
  BY LevelSteps DEF Top
<1>2. TableOf(<< >>, 2 * 0, {}, {})
  BY EmptySeq DEF TableOf
<1>3. Shape(EmptyHeap, 2 * 0, {}, {}, Level(0, 0))
  BY <1>1, <1>2 DEF Shape, EmptyHeap
<1>4. 0 \in 0 .. 2 * QpCount /\ 0 <= 0
  BY Sizes
<1> QED
  BY <1>3, <1>4 DEF Pairs

LEMMA PoolStart == ASSUME Geometry, Init PROVE PoolShape /\ PoolObjects
<1>1. /\ phase = "constructing" /\ next = 0 /\ heap = EmptyHeap /\ objs = {} /\ created = 0
      /\ updates = 0 /\ \A i \in Index : qps[i] = NoQp
  BY DEF Init, PoolInit
<1>2. 0 \in 0 .. QpCount /\ 2 * 0 .. 2 * 0 - 1 = {} /\ 2 * (0 - 0) = 0 /\ 0 \in Int
  BY Sizes
<1>3. Shaped
  <2>1. Pairs(heap, 2 * 0 .. 2 * 0 - 1, 2 * (0 - 0))
    BY <1>1, <1>2, NoPairs
  <2>2. \A i \in Index : ~(0 <= i /\ i < 0)
    BY DEF Index
  <2> QED
    BY <1>1, <1>2, <2>1, <2>2 DEF Shaped
<1>4. PoolObjects
  BY <1>1, Sizes DEF PoolObjects, Budget, Accounted
<1> QED
  BY <1>3, <1>4 DEF PoolShape

\* Two structures that differ at most in what the device knows of the queue pair.
Alike(p, q) ==
    /\ p = NoQp <=> q = NoQp
    /\ p.send_cq = q.send_cq /\ p.wq_offset = q.wq_offset /\ p.dbr_offset = q.dbr_offset
    /\ p.qpn = q.qpn /\ p.uar = q.uar

LEMMA AlikeAt ==
    ASSUME NEW p, NEW q, Alike(p, q), NEW i, NEW n
    PROVE  /\ MadeAs(q, n) => MadeAs(p, n)
           /\ PlacedAt(q, i) => PlacedAt(p, i)
           /\ ObjectsOf(p) = ObjectsOf(q)
  BY DEF Alike, MadeAs, PlacedAt, ObjectsOf

\* Steps that neither create nor destroy a queue pair.
LEMMA PoolFrame ==
    ASSUME PoolShape, PoolObjects, SetupInv, \A i \in Index : Alike(qps'[i], qps[i]),
           heap' = heap, objs' = objs, created' = created, updates' = updates, next' = next,
           leaks' = leaks,
           \/ phase' = phase
           \/ phase = "constructing" /\ phase' = "creating"
           \/ phase # "destroying" /\ phase' \in {"workspace", "ready", "thrown", "exited", "destroyed"}
    PROVE  PoolShape' /\ PoolObjects'
<1>1. \A i \in Index : qps'[i] # NoQp <=> qps[i] # NoQp
  BY DEF Alike
<1>2. next \in Index /\ QpCount \in Nat \ {0} /\ updates \in Nat
  BY PoolNumbers DEF SetupInv, Typed
<1>3. ASSUME Shaped PROVE Shaped'
  <2>1. PICK lo \in 0 .. QpCount, top \in 0 .. QpCount :
           /\ lo <= top
           /\ Pairs(heap, 2 * lo .. 2 * top - 1, 2 * (top - lo))
           /\ \A i \in Index : qps[i] # NoQp <=> lo <= i /\ i < top
           /\ phase \in {"constructing", "creating", "recreating"} => top = next
           /\ phase # "destroying" => lo = 0
           /\ phase = "destroying" => lo = next \/ (lo = top /\ top <= next)
    BY <1>3 DEF Shaped
  <2>2. /\ phase' \in {"constructing", "creating", "recreating"} => top = next'
        /\ phase' # "destroying" => lo = 0
        /\ phase' = "destroying" => lo = next' \/ (lo = top /\ top <= next')
    BY <2>1
  <2>3. \A i \in Index : qps'[i] # NoQp <=> lo <= i /\ i < top
    BY <1>1, <2>1
  <2>4. Pairs(heap', 2 * lo .. 2 * top - 1, 2 * (top - lo))
    BY <2>1
  <2>5. \A i \in Index : qps'[i] # NoQp => PlacedAt(qps'[i], i)
    BY <1>1, <1>3, AlikeAt DEF Shaped
  <2>6. (\A i \in Index : qps[i] # NoQp => PlacedAt(qps[i], i))'
    BY <2>5 DEF PlacedAt
  <2> QED
    BY <2>1, <2>2, <2>3, <2>4, <2>6 DEF Shaped
<1>4. PoolObjects'
  <2>1. created' \in Nat /\ created' <= Budget(phase', updates', next')
    <3>1. created \in Nat /\ created <= Budget(phase, updates, next)
      BY DEF PoolObjects
    <3>2. PICK b \in Int : b = QpCount * updates
      BY <1>2
    <3>3. next <= QpCount /\ next \in Nat
      BY <1>2 DEF Index
    <3>4. Budget(phase, updates, next) <= Budget(phase', updates, next)
      BY <1>2, <3>2, <3>3 DEF Budget
    <3>5. Budget(phase, updates, next) \in Int /\ Budget(phase', updates, next) \in Int
      BY <1>2, <3>2, <3>3 DEF Budget
    <3> QED
      BY <3>1, <3>4, <3>5
  <2>2. \A i \in Index : qps'[i] # NoQp => \E n \in 0 .. created' - 1 : MadeAs(qps'[i], n)
    BY <1>1, AlikeAt DEF PoolObjects
  <2>3. \A i, j \in Index :
           qps'[i] # NoQp /\ qps'[j] # NoQp /\ qps'[i].uar = qps'[j].uar => i = j
    BY <1>1 DEF PoolObjects, Alike
  <2>4. "rst2init" \notin leaks' => \A x :
           x \in objs' <=> \E i \in Index : qps'[i] # NoQp /\ x \in ObjectsOf(qps'[i])
    BY <1>1, AlikeAt DEF PoolObjects, Accounted
  <2>5. /\ phase' \in {"constructing", "creating", "recreating"} =>
              \A i \in Index : i >= next' => qps'[i] = NoQp
        /\ phase' = "destroying" => \A i \in Index : i < next' => qps'[i] = NoQp
    BY <1>1 DEF PoolObjects
  <2> QED
    BY <2>1, <2>2, <2>3, <2>4, <2>5 DEF PoolObjects, MadeAs, Accounted, ObjectsOf
<1> QED
  BY <1>3, <1>4 DEF PoolShape

LEMMA UpdatePool ==
    ASSUME PoolShape, PoolObjects, SetupInv, Update
    PROVE  PoolShape' /\ PoolObjects'
<1>1. /\ phase = "ready" /\ phase' = "destroying" /\ next' = 0 /\ updates' = updates + 1
      /\ heap' = heap /\ qps' = qps /\ objs' = objs /\ created' = created /\ leaks' = leaks
  BY DEF Update, UpdateLocalQpns
<1>2. ASSUME Shaped PROVE Shaped'
  <2>1. PICK lo \in 0 .. QpCount, top \in 0 .. QpCount :
           /\ lo <= top /\ lo = 0
           /\ Pairs(heap, 2 * lo .. 2 * top - 1, 2 * (top - lo))
           /\ \A i \in Index : qps[i] # NoQp <=> lo <= i /\ i < top
    BY <1>1, <1>2 DEF Shaped
  <2> QED
    BY <1>1, <1>2, <2>1 DEF Shaped, PlacedAt
<1>3. created' <= Budget(phase', updates', next')
  <2>1. PICK q \in Nat, u \in Nat : q = QpCount /\ u = updates
    BY PoolNumbers DEF SetupInv, Typed
  <2>2. q * (u + 1) = q * u + q
    OBVIOUS
  <2> QED
    BY <1>1, <2>1, <2>2 DEF PoolObjects, Budget
<1>4. \A i \in Index : ~(i < 0)
  BY DEF Index
<1>5. PoolObjects'
  BY <1>1, <1>3, <1>4 DEF PoolObjects, MadeAs, Accounted, ObjectsOf
<1> QED
  BY <1>1, <1>2, <1>5 DEF PoolShape

\* A connected queue pair keeps its places and numbers.
LEMMA SyncAlike ==
    ASSUME SetupInv, NEW mask, NEW ah, Sync(mask, ah)
    PROVE  \A i \in Index : Alike(qps'[i], qps[i])
<1> SUFFICES ASSUME NEW i \in Index PROVE Alike(qps'[i], qps[i])
  OBVIOUS
<1>1. CASE qps' = qps
  BY <1>1 DEF Alike
<1>2. CASE qps' # qps
  <2> DEFINE mine == {j \in Index : PeerRank(j) \in mask}
             z == Rtr2Rts(Init2Rtr(qps[i], RemoteQpn(i), ah[i]))
  <2>1. /\ \A j \in mine : qps[j].state = "init"
        /\ qps' = [j \in Index |-> IF j \in mine
                                   THEN Rtr2Rts(Init2Rtr(qps[j], RemoteQpn(j), ah[j]))
                                   ELSE qps[j]]
    BY <1>2 DEF Sync, ConnectAll
  <2>2. CASE i \in mine
    <3>1. qps[i].state = "init" /\ qps'[i] = z
      BY <2>1, <2>2
    <3>2. NoQp.state = "none"
      BY DEF NoQp
    <3>3. qps[i] # NoQp /\ IsQp(qps[i])
      BY <3>1, <3>2 DEF SetupInv, Typed, Slot
    <3>4. /\ z.state = "rts" /\ \A f \in QpFields \ {"state", "ctx"} : z[f] = qps[i][f]
      BY <3>3, ConnectIs
    <3> HIDE DEF z
    <3> QED
      BY <3>1, <3>2, <3>3, <3>4 DEF Alike, QpFields
  <2>3. CASE i \notin mine
    BY <2>1, <2>3 DEF Alike
  <2> QED
    BY <2>2, <2>3
<1> QED
  BY <1>1, <1>2

LEMMA Rst2InitAlike ==
    ASSUME NEW q, IsQp(q), q # NoQp
    PROVE  Alike(Rst2Init(q), q) /\ Rst2Init(q) # NoQp
<1> DEFINE x == Apply(q.ctx, Rst2InitCmd(q.qpn, q.port_num, 0, q.link_layer))
           z == [q EXCEPT !.state = "init", !.ctx = x]
<1>1. Rst2Init(q) = z
  BY DEF Rst2Init
<1> HIDE DEF x
<1>2. \A f \in QpFields : z[f] = IF f = "ctx" THEN x ELSE IF f = "state" THEN "init" ELSE q[f]
  BY DEF IsQp, QpFields
<1> HIDE DEF z
<1>3. z.state = "init" /\ NoQp.state = "none"
  BY <1>2 DEF QpFields, NoQp
<1> QED
  BY <1>1, <1>2, <1>3 DEF Alike, QpFields

LEMMA CreateOneObjects ==
    ASSUME Distinct, PoolObjects, SetupInv, NEW f, CreateOne(f)
    PROVE  PoolObjects'
<1> DEFINE made == CreateRcQp([heap |-> heap, objs |-> objs], f, created)
           bad == made.qp = NoQp \/ f = "rst2init"
           done == IF phase = "creating" THEN "workspace" ELSE "ready"
<1>1. /\ phase \in {"creating", "recreating"} /\ objs' = made.objs
      /\ created' = created + 1 /\ updates' = updates
      /\ leaks' = leaks \cup ({f} \cap Leaking)
      /\ IF bad THEN phase' = done /\ next' = 0 /\ qps' = qps
         ELSE qps' = [qps EXCEPT ![next] = Rst2Init(made.qp)] /\ Advance(done)
  BY DEF CreateOne
<1>2. /\ next \in Index /\ next \in Nat /\ next < QpCount /\ QpCount \in Nat \ {0}
      /\ updates \in 0 .. MaxUpdates /\ updates \in Nat /\ MaxUpdates \in Nat
  BY PoolNumbers, PoolAssumption DEF SetupInv, Typed, Index
<1>3. \A i \in Index : i >= next => qps[i] = NoQp
  BY <1>1 DEF PoolObjects
<1>4. created \in 0 .. QpCount * (MaxUpdates + 1) - 1 /\ created \in Nat
  <2>1. created \in Nat /\ created <= QpCount * updates + next
    BY <1>1 DEF PoolObjects, Budget
  <2> QED
    BY <1>2, <2>1, BudgetBound
<1>5. ASSUME NEW i \in Index, qps[i] # NoQp
      PROVE  /\ ObjectsOf(qps[i]) \cap ObjectsAt(created) = {}
             /\ qps[i].uar # QpUar(created)
  <2>1. PICK n \in 0 .. created - 1 : MadeAs(qps[i], n)
    BY <1>5 DEF PoolObjects
  <2>2. n \in 0 .. QpCount * (MaxUpdates + 1) - 1 /\ n # created
    <3>1. PICK b \in Int : b = QpCount * (MaxUpdates + 1)
      BY <1>2
    <3> QED
      BY <1>4, <3>1
  <2>3. ObjectsOf(qps[i]) = ObjectsAt(n)
    BY <2>1, ObjectsAre
  <2>4. ObjectsAt(n) \cap ObjectsAt(created) = {}
    BY <1>4, <2>2, ObjectsApart
  <2>5. QpUar(n) # QpUar(created)
    BY <1>4, <2>2 DEF QpUar
  <2> QED
    BY <2>1, <2>3, <2>4, <2>5 DEF MadeAs
<1>6. Accounted => objs \cap ObjectsAt(created) = {}
  BY <1>5 DEF Accounted
<1>7. /\ made.qp # NoQp => MadeAs(made.qp, created)
      /\ objs \cap ObjectsAt(created) = {} =>
            made.objs = IF made.qp = NoQp THEN objs ELSE objs \cup ObjectsAt(created)
  BY <1>4, CreateObjects
<1>8. made.qp = NoQp \/ (IsQp(made.qp) /\ made.qp.state = "reset")
  BY CreateOK DEF SetupInv, Typed
<1> HIDE DEF made
<1>9. PICK b \in Nat : b = QpCount * updates
  BY <1>2
<1>10. created <= b + next
  BY <1>1, <1>9 DEF PoolObjects, Budget
<1>11. done \in {"workspace", "ready"}
  OBVIOUS
<1>12. "rst2init" \notin leaks' => "rst2init" \notin leaks /\ f # "rst2init" /\ Accounted
  BY <1>1 DEF Leaking, PoolObjects
<1> HIDE DEF done
<1>13. CASE bad
  <2>1. phase' = done /\ next' = 0 /\ qps' = qps
    BY <1>1, <1>13
  <2>2. created' \in Nat /\ created' <= Budget(phase', updates', next')
    BY <1>1, <1>2, <1>4, <1>9, <1>10, <1>11, <2>1 DEF Budget
  <2>3. \A i \in Index : qps'[i] # NoQp => \E n \in 0 .. created' - 1 : MadeAs(qps'[i], n)
    <3>1. \A n \in 0 .. created - 1 : n \in 0 .. created' - 1
      BY <1>1, <1>4
    <3> QED
      BY <2>1, <3>1 DEF PoolObjects
  <2>4. "rst2init" \notin leaks' => Accounted /\ objs' = objs
    BY <1>1, <1>6, <1>7, <1>12, <1>13
  <2> QED
    BY <1>11, <2>1, <2>2, <2>3, <2>4 DEF PoolObjects, MadeAs, Accounted, ObjectsOf
<1>14. CASE ~bad
  <2> DEFINE p == Rst2Init(made.qp)
  <2>1. qps' = [qps EXCEPT ![next] = p] /\ MadeAs(made.qp, created) /\ IsQp(made.qp)
    BY <1>1, <1>7, <1>8, <1>14
  <2>2. /\ next' \in Index
        /\ IF next = QpCount - 1 THEN phase' = done /\ next' = 0
           ELSE phase' = phase /\ next' = next + 1
    BY <1>1, <1>2, <1>14, AdvanceIn
  <2>3. MadeAs(p, created) /\ p # NoQp
    <3>1. Alike(p, made.qp) /\ p # NoQp
      BY <1>14, <2>1, Rst2InitAlike
    <3> QED
      BY <2>1, <3>1, AlikeAt
  <2>4. ObjectsOf(p) = ObjectsAt(created) /\ p.uar = QpUar(created)
    BY <2>3, ObjectsAre DEF MadeAs
  <2> HIDE DEF p
  <2>5. qps'[next] = p /\ \A i \in Index : i # next => qps'[i] = qps[i]
    BY <1>2, <2>1 DEF SetupInv, Typed
  <2>6. created' \in Nat /\ created' <= Budget(phase', updates', next')
    <3>1. CASE next = QpCount - 1
      BY <1>1, <1>2, <1>4, <1>9, <1>10, <1>11, <2>2, <3>1 DEF Budget
    <3>2. CASE next # QpCount - 1
      BY <1>1, <1>2, <1>4, <1>9, <1>10, <2>2, <3>2 DEF Budget
    <3> QED
      BY <3>1, <3>2
  <2>7. \A i \in Index : qps'[i] # NoQp => \E n \in 0 .. created' - 1 : MadeAs(qps'[i], n)
    <3> SUFFICES ASSUME NEW i \in Index, qps'[i] # NoQp
                 PROVE  \E n \in 0 .. created' - 1 : MadeAs(qps'[i], n)
      OBVIOUS
    <3>1. CASE i = next
      <4>1. created \in 0 .. created' - 1
        BY <1>1, <1>4
      <4> QED
        BY <2>3, <2>5, <3>1, <4>1
    <3>2. CASE i # next
      <4>1. PICK n \in 0 .. created - 1 : MadeAs(qps[i], n)
        BY <2>5, <3>2 DEF PoolObjects
      <4>2. n \in 0 .. created' - 1
        BY <1>1, <1>4
      <4> QED
        BY <2>5, <3>2, <4>1, <4>2
    <3> QED
      BY <3>1, <3>2
  <2>8. \A i, j \in Index :
            qps'[i] # NoQp /\ qps'[j] # NoQp /\ qps'[i].uar = qps'[j].uar => i = j
    <3> SUFFICES ASSUME NEW i \in Index, NEW j \in Index, qps'[i] # NoQp, qps'[j] # NoQp,
                        qps'[i].uar = qps'[j].uar
                 PROVE  i = j
      OBVIOUS
    <3>1. \A k \in Index : k # next /\ qps'[k] # NoQp => qps'[k].uar # p.uar
      BY <1>5, <2>4, <2>5
    <3>2. CASE i = next \/ j = next
      BY <2>5, <3>1, <3>2
    <3>3. CASE i # next /\ j # next
      BY <2>5, <3>3 DEF PoolObjects
    <3> QED
      BY <3>2, <3>3
  <2>9. ASSUME "rst2init" \notin leaks', NEW x
        PROVE  x \in objs' <=> \E i \in Index : qps'[i] # NoQp /\ x \in ObjectsOf(qps'[i])
    <3>1. x \in objs' <=> x \in objs \/ x \in ObjectsOf(p)
      BY <1>1, <1>6, <1>7, <1>12, <1>14, <2>4, <2>9
    <3>2. x \in objs <=> \E i \in Index : qps[i] # NoQp /\ x \in ObjectsOf(qps[i])
      BY <1>12, <2>9 DEF Accounted
    <3>3. qps[next] = NoQp
      BY <1>2, <1>3
    <3>4. (\E i \in Index : qps'[i] # NoQp /\ x \in ObjectsOf(qps'[i])) <=>
             \/ \E i \in Index : qps[i] # NoQp /\ x \in ObjectsOf(qps[i])
             \/ x \in ObjectsOf(p)
      BY <1>2, <2>3, <2>5, <3>3
    <3> QED
      BY <3>1, <3>2, <3>4
  <2>10. /\ phase' \in {"constructing", "creating", "recreating"} =>
               \A i \in Index : i >= next' => qps'[i] = NoQp
         /\ phase' # "destroying"
    <3>1. CASE next = QpCount - 1
      BY <1>11, <2>2, <3>1
    <3>2. CASE next # QpCount - 1
      <4>1. \A i \in Index : i >= next + 1 => i # next /\ i >= next
        BY <1>2 DEF Index
      <4> QED
        BY <1>1, <1>3, <2>2, <2>5, <3>2, <4>1
    <3> QED
      BY <3>1, <3>2
  <2>11. "rst2init" \notin leaks' => Accounted'
    BY <2>9 DEF Accounted, ObjectsOf
  <2> QED
    BY <2>6, <2>7, <2>8, <2>10, <2>11 DEF PoolObjects, MadeAs
<1> QED
  BY <1>13, <1>14

LEMMA CreateOneShape ==
    ASSUME Geometry, Distinct, Shaped, Accounted, PoolObjects, SetupInv, NEW f, CreateOne(f),
           f \notin Leaking
    PROVE  Shaped'
<1> DEFINE made == CreateRcQp([heap |-> heap, objs |-> objs], f, created)
           done == IF phase = "creating" THEN "workspace" ELSE "ready"
<1>1. /\ phase \in {"creating", "recreating"} /\ heap' = made.heap
      /\ IF made.qp = NoQp
         THEN phase' = done /\ next' = 0 /\ qps' = qps
         ELSE qps' = [qps EXCEPT ![next] = Rst2Init(made.qp)] /\ Advance(done)
  BY DEF CreateOne, Leaking
<1>2. /\ next \in Index /\ next \in Nat /\ next < QpCount /\ QpCount \in Nat \ {0}
      /\ updates \in 0 .. MaxUpdates /\ MaxUpdates \in Nat
  BY PoolNumbers, PoolAssumption DEF SetupInv, Typed, Index
<1>3. /\ Pairs(heap, 0 .. 2 * next - 1, 2 * next)
      /\ \A i \in Index : qps[i] # NoQp <=> i < next
  <2>1. PICK lo \in 0 .. QpCount, top \in 0 .. QpCount :
           /\ lo = 0 /\ top = next
           /\ Pairs(heap, 2 * lo .. 2 * top - 1, 2 * (top - lo))
           /\ \A i \in Index : qps[i] # NoQp <=> lo <= i /\ i < top
    BY <1>1 DEF Shaped
  <2>2. 2 * lo = 0 /\ top - lo = next
    BY <1>2, <2>1
  <2>3. \A i \in Index : 0 <= i
    BY DEF Index
  <2> QED
    BY <2>1, <2>2, <2>3
<1>4. created \in 0 .. QpCount * (MaxUpdates + 1) - 1 /\ created \in Nat
  <2>1. created \in Nat /\ created <= QpCount * updates + next
    BY <1>1 DEF PoolObjects, Budget
  <2> QED
    BY <1>2, <2>1, BudgetBound
<1>5. ASSUME NEW i \in Index, qps[i] # NoQp
      PROVE  ObjectsOf(qps[i]) \cap ObjectsAt(created) = {}
  <2>1. PICK n \in 0 .. created - 1 : MadeAs(qps[i], n)
    BY <1>5 DEF PoolObjects
  <2>2. n \in 0 .. QpCount * (MaxUpdates + 1) - 1 /\ n # created
    <3>1. PICK b \in Int : b = QpCount * (MaxUpdates + 1)
      BY <1>2
    <3> QED
      BY <1>4, <3>1
  <2> QED
    BY <1>4, <2>1, <2>2, ObjectsAre, ObjectsApart
<1>6. objs \cap ObjectsAt(created) = {}
  BY <1>5 DEF Accounted
<1>7. \/ /\ made.qp = NoQp /\ made.objs = objs
         /\ Pairs(made.heap, 0 .. 2 * next - 1, 2 * next)
      \/ /\ made.qp # NoQp /\ made.objs = objs \cup ObjectsAt(created)
         /\ Pairs(made.heap, 0 .. 2 * next + 1, 2 * next + 2)
         /\ QpAt(made.qp, next, created)
  <2>1. f \notin {"cqRing", "cqObject"}
    BY DEF Leaking
  <2> QED
    BY <1>2, <1>3, <1>4, <1>6, <2>1, CreateIs
<1>8. made.qp = NoQp \/ (IsQp(made.qp) /\ made.qp.state = "reset")
  BY CreateOK DEF SetupInv, Typed
<1> HIDE DEF made
<1>9. done \in {"workspace", "ready"}
  OBVIOUS
<1> HIDE DEF done
<1>10. CASE made.qp = NoQp
  <2>1. /\ phase' = done /\ next' = 0 /\ qps' = qps
        /\ Pairs(heap', 0 .. 2 * next - 1, 2 * next)
    BY <1>1, <1>7, <1>10
  <2>2. /\ 0 \in 0 .. QpCount /\ next \in 0 .. QpCount /\ 0 <= next /\ 2 * 0 = 0
        /\ 2 * (next - 0) = 2 * next
    BY <1>2
  <2>3. Pairs(heap', 2 * 0 .. 2 * next - 1, 2 * (next - 0))
    BY <2>1, <2>2
  <2>4. \A i \in Index : qps'[i] # NoQp <=> 0 <= i /\ i < next
    BY <1>3, <2>1 DEF Index
  <2> QED
    BY <1>9, <2>1, <2>2, <2>3, <2>4 DEF Shaped, PlacedAt
<1>11. CASE made.qp # NoQp
  <2> DEFINE p == Rst2Init(made.qp)
  <2>1. /\ qps' = [qps EXCEPT ![next] = p]
        /\ Pairs(heap', 0 .. 2 * next + 1, 2 * next + 2) /\ PlacedAt(made.qp, next)
        /\ IsQp(made.qp)
    BY <1>1, <1>7, <1>8, <1>11, QpAtIs
  <2>2. /\ next' \in Index
        /\ IF next = QpCount - 1 THEN phase' = done /\ next' = 0
           ELSE phase' = phase /\ next' = next + 1
    BY <1>1, <1>2, <1>11, AdvanceIn
  <2>3. PlacedAt(p, next) /\ p # NoQp
    <3>1. Alike(p, made.qp) /\ p # NoQp
      BY <1>11, <2>1, Rst2InitAlike
    <3> QED
      BY <2>1, <3>1, AlikeAt
  <2> HIDE DEF p
  <2>5. qps'[next] = p /\ \A i \in Index : i # next => qps'[i] = qps[i]
    BY <1>2, <2>1 DEF SetupInv, Typed
  <2>6. \A i \in Index : qps'[i] # NoQp <=> i < next + 1
    <3> SUFFICES ASSUME NEW i \in Index PROVE qps'[i] # NoQp <=> i < next + 1
      OBVIOUS
    <3>1. CASE i = next
      BY <1>2, <2>3, <2>5, <3>1
    <3>2. CASE i # next
      <4>1. i < next <=> i < next + 1
        BY <1>2, <3>2 DEF Index
      <4> QED
        BY <1>3, <2>5, <3>2, <4>1
    <3> QED
      BY <3>1, <3>2
  <2>7. /\ 0 \in 0 .. QpCount /\ next + 1 \in 0 .. QpCount /\ 0 <= next + 1 /\ 2 * 0 = 0
        /\ 2 * ((next + 1) - 0) = 2 * next + 2 /\ 2 * (next + 1) - 1 = 2 * next + 1
    BY <1>2
  <2>8. Pairs(heap', 2 * 0 .. 2 * (next + 1) - 1, 2 * ((next + 1) - 0))
    BY <2>1, <2>7
  <2>9. \A i \in Index : qps'[i] # NoQp <=> 0 <= i /\ i < next + 1
    BY <2>6 DEF Index
  <2>10. /\ phase' \in {"constructing", "creating", "recreating"} => next + 1 = next'
         /\ phase' # "destroying"
    BY <1>1, <1>2, <1>9, <2>2
  <2>11. \A i \in Index : qps'[i] # NoQp => PlacedAt(qps'[i], i)
    BY <2>3, <2>5 DEF Shaped
  <2>12. (\A i \in Index : qps[i] # NoQp => PlacedAt(qps[i], i))'
    BY <2>11 DEF PlacedAt
  <2> QED
    BY <2>7, <2>8, <2>9, <2>10, <2>12 DEF Shaped
<1> QED
  BY <1>10, <1>11

LEMMA DestroyOneObjects ==
    ASSUME Distinct, PoolObjects, SetupInv, DestroyOne
    PROVE  PoolObjects'
<1>1. /\ phase = "destroying" /\ created' = created /\ updates' = updates /\ leaks' = leaks
      /\ qps' = [qps EXCEPT ![next] = NoQp] /\ Advance("recreating")
      /\ IF qps[next] = NoQp THEN objs' = objs
         ELSE objs' = DestroyQp([heap |-> heap, objs |-> objs], qps[next]).objs
  BY DEF DestroyOne
<1>2. /\ next \in Index /\ next \in Nat /\ next < QpCount /\ QpCount \in Nat \ {0}
      /\ updates \in 0 .. MaxUpdates /\ updates \in Nat /\ MaxUpdates \in Nat
  BY PoolNumbers, PoolAssumption DEF SetupInv, Typed, Index
<1>3. /\ next' \in Index
      /\ IF next = QpCount - 1 THEN phase' = "recreating" /\ next' = 0
         ELSE phase' = phase /\ next' = next + 1
  BY <1>1, <1>2, AdvanceIn
<1>5. qps'[next] = NoQp /\ \A i \in Index : i # next => qps'[i] = qps[i]
  BY <1>1, <1>2 DEF SetupInv, Typed
<1>6. PICK b \in Nat : b = QpCount * updates
  BY <1>2
<1>7. created' \in Nat /\ created' <= Budget(phase', updates', next')
  <2>1. created \in Nat /\ created <= b
    BY <1>1, <1>6 DEF PoolObjects, Budget
  <2>2. created' \in Nat /\ created' <= b /\ QpCount * updates' = b
    BY <1>1, <1>6, <2>1
  <2>3. CASE next = QpCount - 1
    <3>1. phase' = "recreating" /\ next' = 0
      BY <1>3, <2>3
    <3>2. Budget(phase', updates', next') = b + 0
      BY <2>2, <3>1 DEF Budget
    <3> QED
      BY <2>2, <3>2
  <2>4. CASE next # QpCount - 1
    <3>1. phase' = "destroying"
      BY <1>1, <1>3, <2>4
    <3>2. Budget(phase', updates', next') = b
      BY <2>2, <3>1 DEF Budget
    <3> QED
      BY <2>2, <3>2
  <2> QED
    BY <2>3, <2>4
<1>8. \A i \in Index : qps'[i] # NoQp => \E n \in 0 .. created' - 1 : MadeAs(qps'[i], n)
  BY <1>1, <1>5 DEF PoolObjects
<1>9. \A i, j \in Index :
         qps'[i] # NoQp /\ qps'[j] # NoQp /\ qps'[i].uar = qps'[j].uar => i = j
  BY <1>5 DEF PoolObjects
<1>10. \A i \in Index : i < next + 1 => qps'[i] = NoQp
  <2>1. \A i \in Index : i < next + 1 => i = next \/ i < next
    BY <1>2 DEF Index
  <2> QED
    BY <1>1, <1>5, <2>1 DEF PoolObjects
<1>11. /\ phase' \in {"constructing", "creating", "recreating"} =>
             \A i \in Index : i >= next' => qps'[i] = NoQp
       /\ phase' = "destroying" => \A i \in Index : i < next' => qps'[i] = NoQp
  <2>1. CASE next = QpCount - 1
    <3>1. \A i \in Index : i < next + 1
      BY <1>2, <2>1 DEF Index
    <3> QED
      BY <1>3, <1>10, <2>1, <3>1
  <2>2. CASE next # QpCount - 1
    BY <1>1, <1>3, <1>10, <2>2
  <2> QED
    BY <2>1, <2>2
<1>12. ASSUME Accounted, NEW x
       PROVE  x \in objs' <=> \E i \in Index : qps'[i] # NoQp /\ x \in ObjectsOf(qps'[i])
  <2>1. CASE qps[next] = NoQp
    <3>1. objs' = objs /\ \A i \in Index : qps'[i] = qps[i]
      BY <1>1, <1>5, <2>1
    <3> QED
      BY <1>12, <3>1 DEF Accounted
  <2>2. CASE qps[next] # NoQp
    <3> DEFINE q == qps[next]
    <3>1. objs' = objs \ ObjectsOf(q)
      BY <1>1, <2>2, DestroyIs
    <3>2. PICK n \in 0 .. created - 1 : MadeAs(q, n)
      BY <1>2, <2>2 DEF PoolObjects
    <3> HIDE DEF q
    <3>3. ASSUME NEW i \in Index, i # next, qps[i] # NoQp
          PROVE  ObjectsOf(qps[i]) \cap ObjectsOf(q) = {}
      <4>1. PICK m \in 0 .. created - 1 : MadeAs(qps[i], m)
        BY <3>3 DEF PoolObjects
      <4>2. m # n
        <5>1. qps[i].uar # qps[next].uar
          BY <1>2, <2>2, <3>3 DEF PoolObjects
        <5> QED
          BY <3>2, <4>1, <5>1 DEF MadeAs, q
      <4>3. /\ m \in 0 .. QpCount * (MaxUpdates + 1) - 1
            /\ n \in 0 .. QpCount * (MaxUpdates + 1) - 1
        <5>1. created \in Nat /\ created <= QpCount * updates
          BY <1>1, <1>2, <1>6 DEF PoolObjects, Budget
        <5>2. created <= QpCount * updates + next
          BY <1>2, <1>6, <5>1
        <5>3. created \in 0 .. QpCount * (MaxUpdates + 1) - 1
          BY <1>2, <5>1, <5>2, BudgetBound
        <5>4. PICK y \in Int : y = QpCount * (MaxUpdates + 1)
          BY <1>2
        <5> QED
          BY <5>1, <5>3, <5>4
      <4> QED
        BY <3>2, <4>1, <4>2, <4>3, ObjectsAre, ObjectsApart
    <3>4. x \in objs <=> \E i \in Index : qps[i] # NoQp /\ x \in ObjectsOf(qps[i])
      BY <1>12 DEF Accounted
    <3>5. (\E i \in Index : qps'[i] # NoQp /\ x \in ObjectsOf(qps'[i])) <=>
             \E i \in Index : i # next /\ qps[i] # NoQp /\ x \in ObjectsOf(qps[i])
      BY <1>5
    <3>6. x \in objs' <=> x \in objs /\ x \notin ObjectsOf(q)
      BY <3>1
    <3>7. \A i \in Index : i # next /\ qps[i] # NoQp /\ x \in ObjectsOf(qps[i])
                           => x \notin ObjectsOf(q)
      BY <3>3
    <3> QED
      BY <3>4, <3>5, <3>6, <3>7 DEF q
  <2> QED
    BY <2>1, <2>2
<1>13. "rst2init" \notin leaks' => Accounted'
  BY <1>1, <1>12 DEF Accounted, ObjectsOf, PoolObjects
<1> QED
  BY <1>7, <1>8, <1>9, <1>11, <1>13 DEF PoolObjects, MadeAs

LEMMA DestroyOneShape ==
    ASSUME Geometry, Shaped, SetupInv, DestroyOne
    PROVE  Shaped'
<1>1. /\ phase = "destroying"
      /\ qps' = [qps EXCEPT ![next] = NoQp] /\ Advance("recreating")
      /\ IF qps[next] = NoQp THEN heap' = heap
         ELSE heap' = DestroyQp([heap |-> heap, objs |-> objs], qps[next]).heap
  BY DEF DestroyOne
<1>2. /\ next \in Index /\ next \in Nat /\ next < QpCount /\ QpCount \in Nat \ {0}
  BY PoolNumbers, PoolAssumption DEF SetupInv, Typed, Index
<1>3. /\ next' \in Index
      /\ IF next = QpCount - 1 THEN phase' = "recreating" /\ next' = 0
         ELSE phase' = phase /\ next' = next + 1
  BY <1>1, <1>2, AdvanceIn
<1>4. PICK lo \in 0 .. QpCount, top \in 0 .. QpCount :
         /\ lo <= top
         /\ Pairs(heap, 2 * lo .. 2 * top - 1, 2 * (top - lo))
         /\ \A i \in Index : qps[i] # NoQp <=> lo <= i /\ i < top
         /\ lo = next \/ (lo = top /\ top <= next)
  BY <1>1 DEF Shaped
<1>5. qps'[next] = NoQp /\ \A i \in Index : i # next => qps'[i] = qps[i]
  BY <1>1, <1>2 DEF SetupInv, Typed
<1>6. \A i \in Index : qps'[i] # NoQp => PlacedAt(qps'[i], i)
  BY <1>5 DEF Shaped
<1>7. (\A i \in Index : qps[i] # NoQp => PlacedAt(qps[i], i))'
  BY <1>6 DEF PlacedAt
\* What is left when the queue pairs from l on are.
<1>10. ASSUME NEW l \in 0 .. QpCount, l <= top, l = next + 1 \/ (l = top /\ top <= next),
              Pairs(heap', 2 * l .. 2 * top - 1, 2 * (top - l)),
              \A i \in Index : qps'[i] # NoQp <=> l <= i /\ i < top
       PROVE  Shaped'
  <2>1. CASE next = QpCount - 1
    <3>1. l = top
      BY <1>2, <1>10, <2>1
    <3>2. 2 * l .. 2 * top - 1 = {} /\ 2 * (top - l) = 0
      BY <3>1
    <3>3. Pairs(heap', {}, 0)
      BY <1>10, <3>2
    <3>4. 0 \in 0 .. QpCount /\ 2 * 0 .. 2 * 0 - 1 = {} /\ 2 * (0 - 0) = 0 /\ 0 <= 0
      BY <1>2
    <3>5. Pairs(heap', 2 * 0 .. 2 * 0 - 1, 2 * (0 - 0))
      BY <3>3, <3>4
    <3>6. \A i \in Index : qps'[i] # NoQp <=> 0 <= i /\ i < 0
      BY <1>10, <3>1 DEF Index
    <3>7. phase' = "recreating" /\ next' = 0
      BY <1>3, <2>1
    <3> QED
      BY <1>7, <3>4, <3>5, <3>6, <3>7 DEF Shaped
  <2>2. CASE next # QpCount - 1
    <3>1. phase' = "destroying" /\ next' = next + 1
      BY <1>1, <1>3, <2>2
    <3>2. l = next' \/ (l = top /\ top <= next')
      BY <1>2, <1>10, <3>1
    <3> QED
      BY <1>7, <1>10, <3>1, <3>2 DEF Shaped
  <2> QED
    BY <2>1, <2>2
<1>11. CASE qps[next] = NoQp
  <2>1. heap' = heap /\ \A i \in Index : qps'[i] = qps[i]
    BY <1>1, <1>5, <1>11
  <2>2. lo = top /\ top <= next
    BY <1>2, <1>4, <1>11
  <2> QED
    BY <1>4, <1>10, <2>1, <2>2
<1>12. CASE qps[next] # NoQp
  <2> DEFINE q == qps[next]
             k == 2 * next
             S == k .. 2 * top - 1
  <2>1. lo = next /\ next < top
    BY <1>2, <1>4, <1>12
  <2>2. heap' = Free(Free(Free(Free(heap, q.send_cq.cq_offset), q.send_cq.dbr_offset),
                          q.wq_offset), q.dbr_offset)
    BY <1>1, <1>12, DestroyIs
  <2>3. PlacedAt(q, next)
    BY <1>2, <1>12 DEF Shaped
  <2> HIDE DEF q
  <2>4. heap' = Free(Free(Free(Free(heap, RingAt(k)), DbrAt(k)), RingAt(k + 1)), DbrAt(k + 1))
    BY <2>2, <2>3 DEF PlacedAt
  <2>5. /\ k \in Nat /\ k + 1 \in Nat /\ k \in S /\ k + 1 \in S \ {k}
        /\ 2 * (top - next) \in Int /\ 2 * (top - next) - 1 \in Int
    BY <1>2, <2>1
  <2>6. Pairs(heap, S, 2 * (top - next))
    BY <1>4, <2>1
  <2>7. (S \ {k}) \ {k + 1} = 2 * (next + 1) .. 2 * top - 1
    BY <1>2, <2>1
  <2>8. (2 * (top - next) - 1) - 1 = 2 * (top - (next + 1))
    BY <1>2, <2>1
  <2> HIDE DEF k, S
  <2>9. PICK g : g = Free(Free(heap, RingAt(k)), DbrAt(k))
    OBVIOUS
  <2>10. Pairs(g, S \ {k}, 2 * (top - next) - 1)
    BY <2>5, <2>6, <2>9, FreePair
  <2>11. Pairs(heap', (S \ {k}) \ {k + 1}, (2 * (top - next) - 1) - 1)
    <3>1. heap' = Free(Free(g, RingAt(k + 1)), DbrAt(k + 1))
      BY <2>4, <2>9
    <3> QED
      BY <2>5, <2>10, <3>1, FreePair
  <2>12. Pairs(heap', 2 * (next + 1) .. 2 * top - 1, 2 * (top - (next + 1)))
    BY <2>7, <2>8, <2>11
  <2>13. \A i \in Index : qps'[i] # NoQp <=> next + 1 <= i /\ i < top
    <3> SUFFICES ASSUME NEW i \in Index PROVE qps'[i] # NoQp <=> next + 1 <= i /\ i < top
      OBVIOUS
    <3>1. CASE i = next
      <4>1. ~(next + 1 <= next)
        BY <1>2
      <4> QED
        BY <1>5, <3>1, <4>1
    <3>2. CASE i # next
      <4>1. lo <= i <=> next + 1 <= i
        BY <1>2, <2>1, <3>2 DEF Index
      <4> QED
        BY <1>4, <1>5, <3>2, <4>1
    <3> QED
      BY <3>1, <3>2
  <2>14. next + 1 \in 0 .. QpCount /\ next + 1 <= top
    BY <1>2, <2>1
  <2> QED
    BY <1>10, <2>12, <2>13, <2>14
<1> QED
  BY <1>11, <1>12

\* Each step keeps the pool in order.
LEMMA PoolStep ==
    ASSUME Geometry, Distinct, SetupInv, PoolShape, PoolObjects, [Next]_vars
    PROVE  PoolShape' /\ PoolObjects'
<1> DEFINE Ended == {"workspace", "ready", "thrown", "exited", "destroyed"}
           Same == heap' = heap /\ objs' = objs /\ created' = created /\ updates' = updates
                   /\ next' = next /\ leaks' = leaks
           Moves == \/ phase' = phase
                    \/ phase = "constructing" /\ phase' = "creating"
                    \/ phase # "destroying" /\ phase' \in Ended
<1>1. ASSUME qps' = qps PROVE \A i \in Index : Alike(qps'[i], qps[i])
  BY <1>1 DEF Alike
<1>2. CASE CallSucceeds
  <2>1. qps' = qps /\ Same /\ Moves
    BY <1>2 DEF CallSucceeds
  <2> QED
    BY <1>1, <2>1, PoolFrame
<1>3. CASE CallFails
  <2>1. qps' = qps /\ Same /\ Moves
    BY <1>3 DEF CallFails
  <2> QED
    BY <1>1, <2>1, PoolFrame
<1>4. CASE Workspace
  <2>1. qps' = qps /\ Same /\ Moves
    BY <1>4 DEF Workspace
  <2> QED
    BY <1>1, <2>1, PoolFrame
<1>5. CASE Pool
  <2>1. CASE DestroyOne
    <3>1. leaks' = leaks
      BY <2>1 DEF DestroyOne
    <3> QED
      BY <2>1, <3>1, DestroyOneObjects, DestroyOneShape DEF PoolShape
  <2>2. CASE \E f \in CreationFailures \cup {"none"} : CreateOne(f)
    <3>1. PICK f : CreateOne(f)
      BY <2>2
    <3>2. leaks' = {} => leaks = {} /\ f \notin Leaking
      BY <3>1 DEF CreateOne
    <3>3. leaks = {} => Accounted
      BY DEF PoolObjects
    <3> QED
      BY <3>1, <3>2, <3>3, CreateOneObjects, CreateOneShape DEF PoolShape
  <2> QED
    BY <1>5, <2>1, <2>2 DEF Pool
<1>6. CASE Update
  BY <1>6, UpdatePool
<1>7. ASSUME NEW mask, NEW ah, Sync(mask, ah) PROVE PoolShape' /\ PoolObjects'
  <2>1. Same /\ Moves
    BY <1>7 DEF Sync, ConnectAll
  <2> QED
    BY <1>7, <2>1, SyncAlike, PoolFrame
<1>8. ASSUME NEW mask, SyncNvlink(mask) PROVE PoolShape' /\ PoolObjects'
  <2>1. qps' = qps /\ Same /\ Moves
    BY <1>8 DEF SyncNvlink, poolVars
  <2> QED
    BY <1>1, <2>1, PoolFrame
<1>9. CASE Destroy
  <2>1. qps' = qps /\ Same /\ Moves
    BY <1>9 DEF Destroy
  <2> QED
    BY <1>1, <2>1, PoolFrame
<1>10. CASE UNCHANGED vars
  <2>1. qps' = qps /\ Same /\ Moves
    BY <1>10 DEF vars, poolVars
  <2> QED
    BY <1>1, <2>1, PoolFrame
<1> QED
  BY <1>2, <1>3, <1>4, <1>5, <1>6, <1>7, <1>8, <1>9, <1>10
     DEF Next, SyncIb, SyncRoce, Idle

LEMMA PoolInvariance ==
    ASSUME Geometry, Distinct
    PROVE  Spec => [](SetupInv /\ PoolShape /\ PoolObjects)
<1> DEFINE Inv == SetupInv /\ PoolShape /\ PoolObjects
<1>1. Init => Inv
  BY InitSetup, PoolStart
<1>2. Inv /\ [Next]_vars => Inv'
  BY SetupStep, PoolStep
<1> QED
  BY <1>1, <1>2, PTL DEF Spec

\* The four blocks of a queue pair are those of its two pairs.
RingBlock(k) == <<RingAt(k), RingSize>>
DbrBlock(k)  == <<DbrAt(k), DbrSize>>

LEMMA BlocksAre ==
    ASSUME NEW q, NEW i \in Nat, PlacedAt(q, i), NEW a
    PROVE  a \in BlocksOf(q) <=>
              \E k \in {2 * i, 2 * i + 1} : a = RingBlock(k) \/ a = DbrBlock(k)
<1>1. BlocksOf(q) = {RingBlock(2 * i), DbrBlock(2 * i), RingBlock(2 * i + 1), DbrBlock(2 * i + 1)}
  BY DEF PlacedAt, BlocksOf, RingBlock, DbrBlock
<1> QED
  BY <1>1

\* Blocks that differ do not overlap.
LEMMA BlocksApart ==
    ASSUME Geometry, NEW j \in Nat, NEW k \in Nat, NEW a, NEW b,
           a = RingBlock(j) \/ a = DbrBlock(j), b = RingBlock(k) \/ b = DbrBlock(k), a # b
    PROVE  Disjoint(a, b)
<1>0. PICK r \in Nat, d \in Nat, s \in Nat, e \in Nat, x \in Nat \ {0}, y \in Nat \ {0} :
         r = RingAt(j) /\ d = DbrAt(j) /\ s = RingAt(k) /\ e = DbrAt(k)
         /\ x = RingSize /\ y = DbrSize
  BY PlaceInt, Sizes
<1>1. r + x = d /\ s + x = e
  BY <1>0, PlacesApart
<1>2. /\ (a[1] = r /\ a[2] = x) \/ (a[1] = d /\ a[2] = y)
      /\ (b[1] = s /\ b[2] = x) \/ (b[1] = e /\ b[2] = y)
  BY <1>0 DEF RingBlock, DbrBlock
<1>3. CASE j < k
  <2>1. d + y <= s
    BY <1>0, <1>3, PlacesApart
  <2>2. a[1] + a[2] <= b[1]
    BY <1>1, <1>2, <2>1
  <2> QED
    BY <2>2 DEF Disjoint
<1>4. CASE k < j
  <2>1. e + y <= r
    BY <1>0, <1>4, PlacesApart
  <2>2. b[1] + b[2] <= a[1]
    BY <1>1, <1>2, <2>1
  <2> QED
    BY <2>2 DEF Disjoint
<1>5. CASE j = k
  <2>1. CASE a = RingBlock(j)
    <3>1. b = DbrBlock(j)
      BY <1>5, <2>1
    <3>2. a[1] = r /\ a[2] = x /\ b[1] = d
      BY <1>0, <2>1, <3>1 DEF RingBlock, DbrBlock
    <3>3. a[1] + a[2] <= b[1]
      BY <1>1, <3>2
    <3> QED
      BY <3>3 DEF Disjoint
  <2>2. CASE a = DbrBlock(j)
    <3>1. b = RingBlock(j)
      BY <1>5, <2>2
    <3>2. b[1] = r /\ b[2] = x /\ a[1] = d
      BY <1>0, <2>2, <3>1 DEF RingBlock, DbrBlock
    <3>3. b[1] + b[2] <= a[1]
      BY <1>1, <3>2
    <3> QED
      BY <3>3 DEF Disjoint
  <2> QED
    BY <2>1, <2>2
<1> QED
  BY <1>3, <1>4, <1>5

\* Nor do the blocks of different queue pairs, which are never the same.
LEMMA PairsDiffer ==
    ASSUME Geometry, NEW j \in Nat, NEW k \in Nat, j # k, NEW a, NEW b,
           a = RingBlock(j) \/ a = DbrBlock(j), b = RingBlock(k) \/ b = DbrBlock(k)
    PROVE  a # b
<1>1. /\ RingAt(j) # RingAt(k) /\ DbrAt(j) # DbrAt(k) /\ RingAt(j) # DbrAt(k)
      /\ DbrAt(j) # RingAt(k)
  BY PlacesDistinct
<1>2. (a[1] = RingAt(j) \/ a[1] = DbrAt(j)) /\ (b[1] = RingAt(k) \/ b[1] = DbrAt(k))
  BY DEF RingBlock, DbrBlock
<1> QED
  BY <1>1, <1>2

LEMMA BlockInside ==
    ASSUME Geometry, NEW k \in Nat, k < 2 * QpCount, NEW a, a = RingBlock(k) \/ a = DbrBlock(k)
    PROVE  a[1] >= 0 /\ a[1] + a[2] <= HeapSize
<1>1. (a[1] = RingAt(k) /\ a[2] = RingSize) \/ (a[1] = DbrAt(k) /\ a[2] = DbrSize)
  BY DEF RingBlock, DbrBlock
<1> QED
  BY <1>1, PairFits, PlaceInt

\* No two live queue pairs share a byte of the control buffer and every ring starts on a
\* page inside it, through any number of updates and of failed creations, until one of
\* the three exits that leak is taken (memheap_aligned_alloc and memheap_free under
\* init_ibgda and update_local_qpns).
THEOREM RingsCorrect ==
    ASSUME Geometry, Distinct
    PROVE  Spec => []RingsPlaced
<1>1. PoolShape => RingsPlaced
  <2> SUFFICES ASSUME Shaped PROVE leaks = {} => RingsPlaced
    BY DEF PoolShape, RingsPlaced
  <2>1. ASSUME NEW i \in Live
        PROVE  i \in Nat /\ i < QpCount /\ PlacedAt(qps[i], i)
    <3>1. i \in Index /\ qps[i] # NoQp
      BY DEF Live
    <3>2. i \in Nat /\ i < QpCount
      BY <3>1, Sizes DEF Index
    <3> QED
      BY <3>1, <3>2 DEF Shaped
  <2>2. ASSUME NEW i \in Live, NEW a \in BlocksOf(qps[i])
        PROVE  \E k \in Nat : /\ k = 2 * i \/ k = 2 * i + 1
                              /\ k < 2 * QpCount
                              /\ a = RingBlock(k) \/ a = DbrBlock(k)
    <3>1. PICK k \in {2 * i, 2 * i + 1} : a = RingBlock(k) \/ a = DbrBlock(k)
      BY <2>1, <2>2, BlocksAre
    <3>2. k \in Nat /\ k < 2 * QpCount
      BY <2>1, <2>2, <3>1, Sizes
    <3> QED
      BY <3>1, <3>2
  <2>3. ASSUME NEW i \in Live, NEW j \in Live, NEW a \in BlocksOf(qps[i]),
               NEW b \in BlocksOf(qps[j]), <<i, a>> # <<j, b>>
        PROVE  Disjoint(a, b)
    <3>1. PICK k \in Nat : /\ k = 2 * i \/ k = 2 * i + 1
                           /\ a = RingBlock(k) \/ a = DbrBlock(k)
      BY <2>2
    <3>2. PICK m \in Nat : /\ m = 2 * j \/ m = 2 * j + 1
                           /\ b = RingBlock(m) \/ b = DbrBlock(m)
      BY <2>2
    <3>3. a # b
      <4>1. CASE i = j
        BY <2>3, <4>1
      <4>2. CASE i # j
        <5>1. i \in Nat /\ j \in Nat
          BY <2>1
        <5>2. k # m
          BY <3>1, <3>2, <4>2, <5>1
        <5> QED
          BY <3>1, <3>2, <5>2, PairsDiffer
      <4> QED
        BY <4>1, <4>2
    <3> QED
      BY <3>1, <3>2, <3>3, BlocksApart
  <2>4. ASSUME NEW i \in Live, NEW a \in BlocksOf(qps[i])
        PROVE  a[1] >= 0 /\ a[1] + a[2] <= HeapSize
    <3>1. PICK k \in Nat : k < 2 * QpCount /\ (a = RingBlock(k) \/ a = DbrBlock(k))
      BY <2>2, <2>4
    <3> QED
      BY <3>1, BlockInside
  <2>5. ASSUME NEW i \in Live
        PROVE  qps[i].send_cq.cq_offset % Page = 0 /\ qps[i].wq_offset % Page = 0
    <3>2. 2 * i \in Nat /\ 2 * i + 1 \in Nat
      BY <2>1
    <3>3. qps[i].send_cq.cq_offset = RingAt(2 * i) /\ qps[i].wq_offset = RingAt(2 * i + 1)
      BY <2>1 DEF PlacedAt
    <3> QED
      BY <3>2, <3>3, PlaceAligned
  <2> QED
    BY <2>3, <2>4, <2>5 DEF RingsPlaced
<1> QED
  BY <1>1, PoolInvariance, PTL

\* The objects in the driver are those of the live queue pairs, whatever was replaced and
\* wherever creations failed, even in a control buffer that earlier failures have
\* fragmented, until a queue pair is forgotten after its rst2init; and the blocks the
\* heap counts as used are theirs until one of the three exits that leak is taken
\* (mlx5gda_destroy_qp, the error exits of mlx5gda_create_rc_qp and mlx5gda_create_cq,
\* memheap_free).
THEOREM LeakCorrect ==
    ASSUME Geometry, Distinct
    PROVE  Spec => []NothingLeaked
<1>1. PoolShape /\ PoolObjects => NothingLeaked
  <2> SUFFICES ASSUME PoolShape, PoolObjects PROVE NothingLeaked
    OBVIOUS
  <2>1. ASSUME "rst2init" \notin leaks
        PROVE  objs = UNION {ObjectsOf(qps[i]) : i \in Live}
    <3>1. \A x : x \in objs <=> \E i \in Index : qps[i] # NoQp /\ x \in ObjectsOf(qps[i])
      BY <2>1 DEF PoolObjects, Accounted
    <3>2. \A x : x \in objs <=> \E i \in Live : x \in ObjectsOf(qps[i])
      BY <3>1 DEF Live
    <3> QED
      BY <3>2
  <2>2. ASSUME leaks = {}, NEW k \in DOMAIN heap.allocs, heap.allocs[k].used
        PROVE  \E i \in Live : <<heap.allocs[k].offset, heap.allocs[k].size>> \in BlocksOf(qps[i])
    <3>1. PICK lo \in 0 .. QpCount, top \in 0 .. QpCount :
             /\ Pairs(heap, 2 * lo .. 2 * top - 1, 2 * (top - lo))
             /\ \A i \in Index : qps[i] # NoQp <=> lo <= i /\ i < top
      BY <2>2 DEF PoolShape, Shaped
    <3> DEFINE S == 2 * lo .. 2 * top - 1
               t == heap.allocs
    <3>2. PICK K \in Nat : TableOf(t, 2 * K, S, S)
      BY <3>1, Sizes DEF Pairs, Shape
    <3>3. k \in 1 .. 2 * K
      BY <3>2 DEF TableOf
    <3>4. k \in Nat \ {0}
      BY <3>3
    <3>5. PICK m \in Nat : k = 2 * m + 1 \/ k = 2 * m + 2
      BY <3>4, OddEven
    <3>6. m \in S /\ (\/ t[k].offset = RingAt(m) /\ t[k].size = RingSize
                      \/ t[k].offset = DbrAt(m) /\ t[k].size = DbrSize)
      <4> HIDE DEF S, t
      <4>0. t[k].used
        BY <2>2 DEF t
      <4>1. CASE k = 2 * m + 1
        <5>1. 2 * m + 1 <= 2 * K
          BY <3>3, <4>1
        <5>2. /\ t[2 * m + 1].offset = RingAt(m) /\ t[2 * m + 1].size = RingSize
              /\ t[2 * m + 1].used <=> m \in S
          BY <3>2, <5>1 DEF TableOf
        <5> QED
          BY <4>0, <4>1, <5>2
      <4>2. CASE k = 2 * m + 2
        <5>1. 2 * m + 2 <= 2 * K
          BY <3>3, <4>2
        <5>2. /\ t[2 * m + 2].offset = DbrAt(m) /\ t[2 * m + 2].size = DbrSize
              /\ t[2 * m + 2].used <=> m \in S
          BY <3>2, <5>1 DEF TableOf
        <5> QED
          BY <4>0, <4>2, <5>2
      <4> QED
        BY <3>5, <4>1, <4>2
    <3>7. PICK i \in Nat : m = 2 * i \/ m = 2 * i + 1
      <4>1. PICK i \in Nat : m + 1 = 2 * i + 1 \/ m + 1 = 2 * i + 2
        <5>1. m + 1 \in Nat \ {0}
          OBVIOUS
        <5> QED
          BY <5>1, OddEven
      <4> QED
        BY <4>1
    <3>8. lo <= i /\ i < top /\ i \in Index
      BY <3>6, <3>7, Sizes DEF Index
    <3>9. i \in Live
      BY <3>1, <3>8 DEF Live
    <3>10. PlacedAt(qps[i], i)
      BY <2>2, <3>8, <3>9 DEF Live, PoolShape, Shaped
    <3>11. <<t[k].offset, t[k].size>> = RingBlock(m) \/ <<t[k].offset, t[k].size>> = DbrBlock(m)
      BY <3>6 DEF RingBlock, DbrBlock
    <3>12. <<t[k].offset, t[k].size>> \in BlocksOf(qps[i])
      BY <3>7, <3>10, <3>11, BlocksAre
    <3> QED
      BY <3>9, <3>12
  <2> QED
    BY <2>1, <2>2 DEF NothingLeaked
<1> QED
  BY <1>1, PoolInvariance, PTL

-----------------------------------------------------------------------------
(* Layouts: the bits of the fields.                                        *)

\* A layout: names and widths.
IsLayout(l) ==
    /\ Len(l) \in Nat /\ l = [k \in 1 .. Len(l) |-> l[k]]
    /\ \A k \in 1 .. Len(l) : l[k][2] \in Nat

\* BitsTo as the function it defines.
Sums(l, n, g) == g = [k \in 0 .. n |-> IF k = 0 THEN 0 ELSE g[k - 1] + l[k][2]]

\* The recursion has a solution: by induction, the least prefix without one cannot exist.
LEMMA SumsExist ==
    ASSUME NEW l, IsLayout(l), NEW n \in 0 .. Len(l)
    PROVE  \E g : Sums(l, n, g)
<1> DEFINE T == {k \in 0 .. Len(l) : ~ \E g : Sums(l, k, g)}
<1>0. Len(l) \in Nat
  BY DEF IsLayout
<1>1. SUFFICES T = {}
  OBVIOUS
<1>2. SUFFICES ASSUME T # {} PROVE FALSE
  OBVIOUS
<1>3. PICK x \in T : \A y \in T : x <= y
  <2>1. T \in SUBSET Nat
    BY <1>0
  <2> HIDE DEF T
  <2> QED
    BY <1>2, <2>1, MinIn
<1>4. CASE x = 0
  <2> DEFINE g == [k \in 0 .. 0 |-> 0]
  <2>1. Sums(l, 0, g)
    BY DEF Sums
  <2> QED
    BY <1>3, <1>4, <2>1
<1>5. CASE x # 0
  <2>1. x - 1 \in 0 .. Len(l) /\ x - 1 \notin T /\ x \in Nat \ {0}
    BY <1>0, <1>3, <1>5
  <2>2. PICK g : Sums(l, x - 1, g)
    BY <2>1
  <2> DEFINE h == [k \in 0 .. x |-> IF k = x THEN g[x - 1] + l[x][2] ELSE g[k]]
  <2>3. \A k \in 0 .. x - 1 : g[k] = IF k = 0 THEN 0 ELSE g[k - 1] + l[k][2]
    BY <2>2 DEF Sums
  <2>4. ASSUME NEW k \in 0 .. x PROVE h[k] = IF k = 0 THEN 0 ELSE h[k - 1] + l[k][2]
    <3>1. CASE k = x
      BY <2>1, <3>1
    <3>2. CASE k # x
      BY <2>1, <2>3, <3>2
    <3> QED
      BY <3>1, <3>2
  <2>5. h = [k \in 0 .. x |-> h[k]]
    OBVIOUS
  <2> HIDE DEF h
  <2>6. Sums(l, x, h)
    BY <2>4, <2>5 DEF Sums
  <2> QED
    BY <1>3, <2>6
<1> QED
  BY <1>4, <1>5

\* The bits before a field are those before the previous one and its width.
LEMMA BitsToIs ==
    ASSUME NEW l, IsLayout(l)
    PROVE  /\ BitsTo(l)[0] = 0
           /\ \A k \in 1 .. Len(l) : BitsTo(l)[k] = BitsTo(l)[k - 1] + l[k][2]
<1>0. Len(l) \in Nat
  BY DEF IsLayout
<1>1. BitsTo(l) = CHOOSE g : Sums(l, Len(l), g)
  BY DEF BitsTo, Sums
<1>2. \E g : Sums(l, Len(l), g)
  BY <1>0, SumsExist
<1>3. Sums(l, Len(l), BitsTo(l))
  BY <1>1, <1>2
<1>4. PICK g : g = BitsTo(l)
  OBVIOUS
<1>5. g = [k \in 0 .. Len(l) |-> IF k = 0 THEN 0 ELSE g[k - 1] + l[k][2]]
  BY <1>3, <1>4 DEF Sums
<1>6. \A k \in 0 .. Len(l) : g[k] = IF k = 0 THEN 0 ELSE g[k - 1] + l[k][2]
  BY <1>5
<1> QED
  BY <1>0, <1>4, <1>6

\* They are natural numbers.
LEMMA BitsToNat ==
    ASSUME NEW l, IsLayout(l)
    PROVE  \A k \in 0 .. Len(l) : BitsTo(l)[k] \in Nat
<1>0. Len(l) \in Nat /\ \A k \in 1 .. Len(l) : l[k][2] \in Nat
  BY DEF IsLayout
<1> DEFINE T == {k \in 0 .. Len(l) : BitsTo(l)[k] \notin Nat}
<1>1. SUFFICES ASSUME T # {} PROVE FALSE
  OBVIOUS
<1>2. PICK x \in T : \A y \in T : x <= y
  <2>1. T \in SUBSET Nat
    BY <1>0
  <2> HIDE DEF T
  <2> QED
    BY <1>1, <2>1, MinIn
<1>3. x # 0
  BY <1>2, BitsToIs
<1>4. x \in 1 .. Len(l) /\ x - 1 \in 0 .. Len(l) /\ x - 1 \notin T
  BY <1>0, <1>2, <1>3
<1>5. /\ BitsTo(l)[x] = BitsTo(l)[x - 1] + l[x][2]
      /\ BitsTo(l)[x - 1] \in Nat /\ l[x][2] \in Nat
  BY <1>0, <1>4, BitsToIs
<1> QED
  BY <1>2, <1>5

\* Later fields start behind earlier ones.
LEMMA BitsToGrow ==
    ASSUME NEW l, IsLayout(l), NEW j \in 0 .. Len(l)
    PROVE  \A k \in j .. Len(l) : BitsTo(l)[j] <= BitsTo(l)[k]
<1>0. Len(l) \in Nat /\ \A k \in 1 .. Len(l) : l[k][2] \in Nat
  BY DEF IsLayout
<1> DEFINE T == {k \in j .. Len(l) : ~(BitsTo(l)[j] <= BitsTo(l)[k])}
<1>1. SUFFICES ASSUME T # {} PROVE FALSE
  OBVIOUS
<1>2. PICK x \in T : \A y \in T : x <= y
  <2>1. T \in SUBSET Nat
    BY <1>0
  <2> HIDE DEF T
  <2> QED
    BY <1>1, <2>1, MinIn
<1>3. x # j
  BY <1>0, <1>2, BitsToNat
<1>4. x \in 1 .. Len(l) /\ x - 1 \in j .. Len(l) /\ x - 1 \in 0 .. Len(l) /\ x - 1 \notin T
  BY <1>0, <1>2, <1>3
<1>5. /\ BitsTo(l)[x] = BitsTo(l)[x - 1] + l[x][2]
      /\ BitsTo(l)[x - 1] \in Nat /\ l[x][2] \in Nat
  BY <1>0, <1>4, BitsToIs, BitsToNat
<1>6. BitsTo(l)[j] <= BitsTo(l)[x - 1] /\ BitsTo(l)[j] \in Nat
  BY <1>4, BitsToNat
<1> QED
  BY <1>2, <1>5, <1>6

\* Where Struct has a field.
LEMMA StructAt ==
    ASSUME NEW l, IsLayout(l), NEW f \in DOMAIN Struct(l)
    PROVE  /\ f # ""
           /\ \E k \in 1 .. Len(l) :
                 l[k][1] = f /\ Struct(l)[f] = <<BitsTo(l)[k - 1], l[k][2]>>
<1>0. DOMAIN l = 1 .. Len(l)
  BY DEF IsLayout
<1>1. f \in {l[i][1] : i \in DOMAIN l} \ {""}
  BY DEF Struct
<1>2. PICK k : k = CHOOSE i \in DOMAIN l : l[i][1] = f
  OBVIOUS
<1>3. k \in DOMAIN l /\ l[k][1] = f
  BY <1>1, <1>2
<1>4. Struct(l)[f] = <<BitsTo(l)[k - 1], l[k][2]>>
  BY <1>1, <1>2 DEF Struct
<1> QED
  BY <1>0, <1>1, <1>3, <1>4

\* Fields of positive width.
Wide(l) == \A k \in 1 .. Len(l) : l[k][1] # "" => l[k][2] # 0

WellFormed(S) ==
    /\ \A f \in DOMAIN S : S[f][1] \in Nat /\ S[f][2] \in Nat \ {0}
    /\ \A f, g \in DOMAIN S : f # g =>
          S[f][1] + S[f][2] <= S[g][1] \/ S[g][1] + S[g][2] <= S[f][1]

\* The fields of a structure have a width and never overlap.
LEMMA FieldsApart ==
    ASSUME NEW l, IsLayout(l), Wide(l)
    PROVE  WellFormed(Struct(l))
<1> DEFINE S == Struct(l)
           B == BitsTo(l)
<1>0. Len(l) \in Nat /\ \A k \in 1 .. Len(l) : l[k][2] \in Nat
  BY DEF IsLayout
<1>1. ASSUME NEW f \in DOMAIN S PROVE S[f][1] \in Nat /\ S[f][2] \in Nat \ {0}
  <2>1. f # "" /\ \E k \in 1 .. Len(l) : l[k][1] = f /\ S[f] = <<B[k - 1], l[k][2]>>
    BY StructAt
  <2> HIDE DEF S, B
  <2>9. PICK k \in 1 .. Len(l) : l[k][1] = f /\ S[f] = <<B[k - 1], l[k][2]>>
    BY <2>1
  <2>2. k - 1 \in 0 .. Len(l)
    BY <1>0
  <2>3. B[k - 1] \in Nat /\ l[k][2] \in Nat \ {0}
    BY <1>0, <2>1, <2>9, <2>2, BitsToNat DEF Wide, B
  <2>4. S[f][1] = B[k - 1] /\ S[f][2] = l[k][2]
    BY <2>9
  <2> QED
    BY <2>3, <2>4
<1>2. ASSUME NEW f \in DOMAIN S, NEW g \in DOMAIN S, f # g
      PROVE  S[f][1] + S[f][2] <= S[g][1] \/ S[g][1] + S[g][2] <= S[f][1]
  <2>1. PICK j \in 1 .. Len(l) : l[j][1] = f /\ S[f] = <<B[j - 1], l[j][2]>>
    BY StructAt
  <2>2. PICK k \in 1 .. Len(l) : l[k][1] = g /\ S[g] = <<B[k - 1], l[k][2]>>
    BY StructAt
  <2>3. j # k /\ j \in Nat /\ k \in Nat
    BY <1>2, <2>1, <2>2
  <2>4. /\ B[j] = B[j - 1] + l[j][2] /\ B[k] = B[k - 1] + l[k][2]
    BY BitsToIs
  <2>5. S[f][1] = B[j - 1] /\ S[f][2] = l[j][2] /\ S[g][1] = B[k - 1] /\ S[g][2] = l[k][2]
    BY <2>1, <2>2
  <2>6. CASE j < k
    <3>1. j \in 0 .. Len(l) /\ k - 1 \in j .. Len(l)
      BY <1>0, <2>6
    <3>2. B[j] <= B[k - 1]
      BY <3>1, BitsToGrow
    <3> QED
      BY <2>4, <2>5, <3>2
  <2>7. CASE k < j
    <3>1. k \in 0 .. Len(l) /\ j - 1 \in k .. Len(l)
      BY <1>0, <2>7
    <3>2. B[k] <= B[j - 1]
      BY <3>1, BitsToGrow
    <3> QED
      BY <2>4, <2>5, <3>2
  <2> QED
    BY <2>3, <2>6, <2>7
<1> QED
  BY <1>1, <1>2 DEF WellFormed

-----------------------------------------------------------------------------
(* The layouts of the commands.                                            *)

\* The fields of the contexts and of the commands around them, with their widths.
InBody(f, w) ==
    \/ f = ""
    \/ w = 1 /\ f \in {"rre", "rwe", "rae", "dbr_umem_valid", "cc", "oi", "cq_umem_valid",
                    "wq_umem_valid"}
    \/ w = 2 /\ f \in {"pm_state"}
    \/ w = 3 /\ f \in {"mtu", "log_sra_max", "retry_count", "rnr_retry", "log_rra_max",
                    "rq_type", "cqe_sz"}
    \/ w = 4 /\ f \in {"sl", "log_rq_size", "log_sq_size", "log_ack_req_freq",
                    "atomic_mode"}
    \/ w = 5 /\ f \in {"ack_timeout", "log_msg_max", "min_rnr_nak", "log_cq_size"}
    \/ w = 6 /\ f \in {"page_offset"}
    \/ w = 8 /\ f \in {"src_addr_index", "hop_limit", "vhca_port_num", "st", "c_eqn"}
    \/ w = 16 /\ f \in {"pkey_index", "rlid", "udp_sport"}
    \/ w = 24 /\ f \in {"pd", "uar_page", "user_index", "remote_qpn", "next_send_psn",
                    "cqn_snd", "qpn", "cqn"}
    \/ w = 32 /\ f \in {"dbr_umem_id", "cq_umem_id", "wq_umem_id"}
    \/ w = 48 /\ f \in {"rmac"}
    \/ w = 64 /\ f \in {"dbr_addr", "cq_umem_offset", "wq_umem_offset"}
    \/ w = 128 /\ f \in {"rgid_rip"}

\* No field of a body has the name of the opcode, and none is empty.
LEMMA BodyTyped ==
    ASSUME NEW f, NEW w, InBody(f, w)
    PROVE  f # "opcode" /\ (f # "" => w # 0)
<1>1. f # "opcode"
  BY DEF InBody
<1>2. f # "" => w \in {1, 2, 3, 4, 5, 6, 8, 16, 24, 32, 48, 64, 128}
  BY DEF InBody
<1>3. w \in {1, 2, 3, 4, 5, 6, 8, 16, 24, 32, 48, 64, 128} => w # 0
  OBVIOUS
<1> QED
  BY <1>1, <1>2, <1>3

\* A layout of such fields, and the names in a layout.
IsBody(l) == IsLayout(l) /\ \A k \in 1 .. Len(l) : InBody(l[k][1], l[k][2])
Names(l) == {l[k][1] : k \in 1 .. Len(l)}

\* The address path.
LEMMA AdsBody ==
    /\ IsBody(Ads)
    /\ {"pkey_index", "rlid", "ack_timeout", "src_addr_index", "hop_limit", "rgid_rip",
        "udp_sport", "sl", "vhca_port_num", "rmac"}
          \subseteq Names(Ads)
<1>1. Ads = [k \in 1 .. 17 |-> Ads[k]] /\ Len(Ads) = 17
  BY DEF Ads
<1>2. /\ Ads[1][1] = "" /\ Ads[2][1] = "pkey_index" /\ Ads[3][1] = "" /\ Ads[4][1] = "rlid"
      /\ Ads[5][1] = "ack_timeout" /\ Ads[6][1] = "" /\ Ads[7][1] = "src_addr_index"
      /\ Ads[8][1] = "" /\ Ads[9][1] = "hop_limit" /\ Ads[10][1] = ""
      /\ Ads[11][1] = "rgid_rip" /\ Ads[12][1] = "" /\ Ads[13][1] = "udp_sport"
      /\ Ads[14][1] = "" /\ Ads[15][1] = "sl" /\ Ads[16][1] = "vhca_port_num"
      /\ Ads[17][1] = "rmac"
  BY DEF Ads
<1>3. /\ Ads[1][2] = 16 /\ Ads[2][2] = 16 /\ Ads[3][2] = 16 /\ Ads[4][2] = 16
      /\ Ads[5][2] = 5 /\ Ads[6][2] = 3 /\ Ads[7][2] = 8 /\ Ads[8][2] = 8 /\ Ads[9][2] = 8
      /\ Ads[10][2] = 32 /\ Ads[11][2] = 128 /\ Ads[12][2] = 16 /\ Ads[13][2] = 16
      /\ Ads[14][2] = 4 /\ Ads[15][2] = 4 /\ Ads[16][2] = 8 /\ Ads[17][2] = 48
  BY DEF Ads
<1>4. /\ InBody(Ads[1][1], Ads[1][2])
      /\ InBody(Ads[2][1], Ads[2][2])
      /\ InBody(Ads[3][1], Ads[3][2])
  BY DEF Ads, InBody
<1>5. /\ InBody(Ads[4][1], Ads[4][2])
      /\ InBody(Ads[5][1], Ads[5][2])
      /\ InBody(Ads[6][1], Ads[6][2])
  BY DEF Ads, InBody
<1>6. /\ InBody(Ads[7][1], Ads[7][2])
      /\ InBody(Ads[8][1], Ads[8][2])
      /\ InBody(Ads[9][1], Ads[9][2])
  BY DEF Ads, InBody
<1>7. /\ InBody(Ads[10][1], Ads[10][2])
      /\ InBody(Ads[11][1], Ads[11][2])
      /\ InBody(Ads[12][1], Ads[12][2])
  BY DEF Ads, InBody
<1>8. /\ InBody(Ads[13][1], Ads[13][2])
      /\ InBody(Ads[14][1], Ads[14][2])
      /\ InBody(Ads[15][1], Ads[15][2])
  BY DEF Ads, InBody
<1>9. InBody(Ads[16][1], Ads[16][2]) /\ InBody(Ads[17][1], Ads[17][2])
  BY DEF Ads, InBody
<1>10. \A k \in 1 .. 17 : InBody(Ads[k][1], Ads[k][2])
  BY <1>4, <1>5, <1>6, <1>7, <1>8, <1>9
<1>11. \A k \in 1 .. 17 : Ads[k][2] \in Nat
  BY <1>3
<1>12. \A k \in 1 .. 17 : Ads[k][1] \in Names(Ads)
  BY <1>1 DEF Names
<1>13. IsBody(Ads)
  BY <1>1, <1>10, <1>11 DEF IsBody, IsLayout
<1>14. {"pkey_index", "rlid", "ack_timeout", "src_addr_index"} \subseteq Names(Ads)
  <2>1. /\ Ads[2][1] = "pkey_index" /\ Ads[4][1] = "rlid"
        /\ Ads[5][1] = "ack_timeout" /\ Ads[7][1] = "src_addr_index"
    BY <1>2
  <2>2. /\ Ads[2][1] \in Names(Ads) /\ Ads[4][1] \in Names(Ads)
        /\ Ads[5][1] \in Names(Ads) /\ Ads[7][1] \in Names(Ads)
    BY <1>12
  <2> QED
    BY <2>1, <2>2, Zenon
<1>15. {"hop_limit", "rgid_rip", "udp_sport", "sl"} \subseteq Names(Ads)
  <2>1. /\ Ads[9][1] = "hop_limit" /\ Ads[11][1] = "rgid_rip"
        /\ Ads[13][1] = "udp_sport" /\ Ads[15][1] = "sl"
    BY <1>2
  <2>2. /\ Ads[9][1] \in Names(Ads) /\ Ads[11][1] \in Names(Ads)
        /\ Ads[13][1] \in Names(Ads) /\ Ads[15][1] \in Names(Ads)
    BY <1>12
  <2> QED
    BY <2>1, <2>2, Zenon
<1>16. {"vhca_port_num", "rmac"} \subseteq Names(Ads)
  <2>1. /\ Ads[16][1] = "vhca_port_num" /\ Ads[17][1] = "rmac"
    BY <1>2
  <2>2. /\ Ads[16][1] \in Names(Ads) /\ Ads[17][1] \in Names(Ads)
    BY <1>12
  <2> QED
    BY <2>1, <2>2, Zenon
<1> QED
  BY <1>13, <1>14, <1>15, <1>16

\* The context before the address paths.
LEMMA QpcHeadBody ==
    /\ IsBody(QpcHead)
    /\ {"st", "pm_state", "pd", "mtu", "log_msg_max", "log_rq_size", "log_sq_size",
        "uar_page", "user_index", "remote_qpn"}
          \subseteq Names(QpcHead)
<1>1. QpcHead = [k \in 1 .. 18 |-> QpcHead[k]] /\ Len(QpcHead) = 18
  BY DEF QpcHead
<1>2. /\ QpcHead[1][1] = "" /\ QpcHead[2][1] = "st" /\ QpcHead[3][1] = ""
      /\ QpcHead[4][1] = "pm_state" /\ QpcHead[5][1] = "" /\ QpcHead[6][1] = "pd"
      /\ QpcHead[7][1] = "mtu" /\ QpcHead[8][1] = "log_msg_max" /\ QpcHead[9][1] = ""
      /\ QpcHead[10][1] = "log_rq_size" /\ QpcHead[11][1] = ""
      /\ QpcHead[12][1] = "log_sq_size" /\ QpcHead[13][1] = ""
      /\ QpcHead[14][1] = "uar_page" /\ QpcHead[15][1] = ""
      /\ QpcHead[16][1] = "user_index" /\ QpcHead[17][1] = ""
      /\ QpcHead[18][1] = "remote_qpn"
  BY DEF QpcHead
<1>3. /\ QpcHead[1][2] = 8 /\ QpcHead[2][2] = 8 /\ QpcHead[3][2] = 3 /\ QpcHead[4][2] = 2
      /\ QpcHead[5][2] = 19 /\ QpcHead[6][2] = 24 /\ QpcHead[7][2] = 3 /\ QpcHead[8][2] = 5
      /\ QpcHead[9][2] = 1 /\ QpcHead[10][2] = 4 /\ QpcHead[11][2] = 4
      /\ QpcHead[12][2] = 4 /\ QpcHead[13][2] = 19 /\ QpcHead[14][2] = 24
      /\ QpcHead[15][2] = 8 /\ QpcHead[16][2] = 24 /\ QpcHead[17][2] = 8
      /\ QpcHead[18][2] = 24
  BY DEF QpcHead
<1>4. /\ InBody(QpcHead[1][1], QpcHead[1][2])
      /\ InBody(QpcHead[2][1], QpcHead[2][2])
      /\ InBody(QpcHead[3][1], QpcHead[3][2])
  BY DEF QpcHead, InBody
<1>5. /\ InBody(QpcHead[4][1], QpcHead[4][2])
      /\ InBody(QpcHead[5][1], QpcHead[5][2])
      /\ InBody(QpcHead[6][1], QpcHead[6][2])
  BY DEF QpcHead, InBody
<1>6. /\ InBody(QpcHead[7][1], QpcHead[7][2])
      /\ InBody(QpcHead[8][1], QpcHead[8][2])
      /\ InBody(QpcHead[9][1], QpcHead[9][2])
  BY DEF QpcHead, InBody
<1>7. /\ InBody(QpcHead[10][1], QpcHead[10][2])
      /\ InBody(QpcHead[11][1], QpcHead[11][2])
      /\ InBody(QpcHead[12][1], QpcHead[12][2])
  BY DEF QpcHead, InBody
<1>8. /\ InBody(QpcHead[13][1], QpcHead[13][2])
      /\ InBody(QpcHead[14][1], QpcHead[14][2])
      /\ InBody(QpcHead[15][1], QpcHead[15][2])
  BY DEF QpcHead, InBody
<1>9. /\ InBody(QpcHead[16][1], QpcHead[16][2])
      /\ InBody(QpcHead[17][1], QpcHead[17][2])
      /\ InBody(QpcHead[18][1], QpcHead[18][2])
  BY DEF QpcHead, InBody
<1>10. \A k \in 1 .. 18 : InBody(QpcHead[k][1], QpcHead[k][2])
  BY <1>4, <1>5, <1>6, <1>7, <1>8, <1>9
<1>11. \A k \in 1 .. 18 : QpcHead[k][2] \in Nat
  BY <1>3
<1>12. \A k \in 1 .. 18 : QpcHead[k][1] \in Names(QpcHead)
  BY <1>1 DEF Names
<1>13. IsBody(QpcHead)
  BY <1>1, <1>10, <1>11 DEF IsBody, IsLayout
<1>14. {"st", "pm_state", "pd", "mtu"} \subseteq Names(QpcHead)
  <2>1. /\ QpcHead[2][1] = "st" /\ QpcHead[4][1] = "pm_state"
        /\ QpcHead[6][1] = "pd" /\ QpcHead[7][1] = "mtu"
    BY <1>2
  <2>2. /\ QpcHead[2][1] \in Names(QpcHead) /\ QpcHead[4][1] \in Names(QpcHead)
        /\ QpcHead[6][1] \in Names(QpcHead) /\ QpcHead[7][1] \in Names(QpcHead)
    BY <1>12
  <2> QED
    BY <2>1, <2>2, Zenon
<1>15. {"log_msg_max", "log_rq_size", "log_sq_size", "uar_page"} \subseteq Names(QpcHead)
  <2>1. /\ QpcHead[8][1] = "log_msg_max" /\ QpcHead[10][1] = "log_rq_size"
        /\ QpcHead[12][1] = "log_sq_size" /\ QpcHead[14][1] = "uar_page"
    BY <1>2
  <2>2. /\ QpcHead[8][1] \in Names(QpcHead) /\ QpcHead[10][1] \in Names(QpcHead)
        /\ QpcHead[12][1] \in Names(QpcHead) /\ QpcHead[14][1] \in Names(QpcHead)
    BY <1>12
  <2> QED
    BY <2>1, <2>2, Zenon
<1>16. {"user_index", "remote_qpn"} \subseteq Names(QpcHead)
  <2>1. /\ QpcHead[16][1] = "user_index" /\ QpcHead[18][1] = "remote_qpn"
    BY <1>2
  <2>2. /\ QpcHead[16][1] \in Names(QpcHead) /\ QpcHead[18][1] \in Names(QpcHead)
    BY <1>12
  <2> QED
    BY <2>1, <2>2, Zenon
<1> QED
  BY <1>13, <1>14, <1>15, <1>16

\* The context behind them.
LEMMA QpcTailBody ==
    /\ IsBody(QpcTail)
    /\ {"log_ack_req_freq", "log_sra_max", "retry_count", "rnr_retry", "next_send_psn",
        "cqn_snd", "log_rra_max", "atomic_mode", "rre", "rwe", "rae", "page_offset",
        "min_rnr_nak", "dbr_addr", "rq_type", "dbr_umem_valid", "dbr_umem_id"}
          \subseteq Names(QpcTail)
<1>1. QpcTail = [k \in 1 .. 29 |-> QpcTail[k]] /\ Len(QpcTail) = 29
  BY DEF QpcTail
<1>2. /\ QpcTail[1][1] = "log_ack_req_freq" /\ QpcTail[2][1] = ""
      /\ QpcTail[3][1] = "log_sra_max" /\ QpcTail[4][1] = ""
      /\ QpcTail[5][1] = "retry_count" /\ QpcTail[6][1] = "rnr_retry" /\ QpcTail[7][1] = ""
      /\ QpcTail[8][1] = "next_send_psn" /\ QpcTail[9][1] = ""
      /\ QpcTail[10][1] = "cqn_snd" /\ QpcTail[11][1] = ""
      /\ QpcTail[12][1] = "log_rra_max" /\ QpcTail[13][1] = ""
      /\ QpcTail[14][1] = "atomic_mode" /\ QpcTail[15][1] = "rre" /\ QpcTail[16][1] = "rwe"
      /\ QpcTail[17][1] = "rae" /\ QpcTail[18][1] = "" /\ QpcTail[19][1] = "page_offset"
      /\ QpcTail[20][1] = "" /\ QpcTail[21][1] = "min_rnr_nak" /\ QpcTail[22][1] = ""
      /\ QpcTail[23][1] = "dbr_addr" /\ QpcTail[24][1] = "" /\ QpcTail[25][1] = "rq_type"
      /\ QpcTail[26][1] = "" /\ QpcTail[27][1] = "dbr_umem_valid" /\ QpcTail[28][1] = ""
      /\ QpcTail[29][1] = "dbr_umem_id"
  BY DEF QpcTail
<1>3. /\ QpcTail[1][2] = 4 /\ QpcTail[2][2] = 4 /\ QpcTail[3][2] = 3 /\ QpcTail[4][2] = 2
      /\ QpcTail[5][2] = 3 /\ QpcTail[6][2] = 3 /\ QpcTail[7][2] = 53 /\ QpcTail[8][2] = 24
      /\ QpcTail[9][2] = 8 /\ QpcTail[10][2] = 24 /\ QpcTail[11][2] = 136
      /\ QpcTail[12][2] = 3 /\ QpcTail[13][2] = 1 /\ QpcTail[14][2] = 4
      /\ QpcTail[15][2] = 1 /\ QpcTail[16][2] = 1 /\ QpcTail[17][2] = 1
      /\ QpcTail[18][2] = 1 /\ QpcTail[19][2] = 6 /\ QpcTail[20][2] = 9
      /\ QpcTail[21][2] = 5 /\ QpcTail[22][2] = 88 /\ QpcTail[23][2] = 64
      /\ QpcTail[24][2] = 37 /\ QpcTail[25][2] = 3 /\ QpcTail[26][2] = 283
      /\ QpcTail[27][2] = 1 /\ QpcTail[28][2] = 156 /\ QpcTail[29][2] = 32
  BY DEF QpcTail
<1>4. /\ InBody(QpcTail[1][1], QpcTail[1][2])
      /\ InBody(QpcTail[2][1], QpcTail[2][2])
      /\ InBody(QpcTail[3][1], QpcTail[3][2])
  BY DEF QpcTail, InBody
<1>5. /\ InBody(QpcTail[4][1], QpcTail[4][2])
      /\ InBody(QpcTail[5][1], QpcTail[5][2])
      /\ InBody(QpcTail[6][1], QpcTail[6][2])
  BY DEF QpcTail, InBody
<1>6. /\ InBody(QpcTail[7][1], QpcTail[7][2])
      /\ InBody(QpcTail[8][1], QpcTail[8][2])
      /\ InBody(QpcTail[9][1], QpcTail[9][2])
  BY DEF QpcTail, InBody
<1>7. /\ InBody(QpcTail[10][1], QpcTail[10][2])
      /\ InBody(QpcTail[11][1], QpcTail[11][2])
      /\ InBody(QpcTail[12][1], QpcTail[12][2])
  BY DEF QpcTail, InBody
<1>8. /\ InBody(QpcTail[13][1], QpcTail[13][2])
      /\ InBody(QpcTail[14][1], QpcTail[14][2])
      /\ InBody(QpcTail[15][1], QpcTail[15][2])
  BY DEF QpcTail, InBody
<1>9. /\ InBody(QpcTail[16][1], QpcTail[16][2])
      /\ InBody(QpcTail[17][1], QpcTail[17][2])
      /\ InBody(QpcTail[18][1], QpcTail[18][2])
  BY DEF QpcTail, InBody
<1>10. /\ InBody(QpcTail[19][1], QpcTail[19][2])
       /\ InBody(QpcTail[20][1], QpcTail[20][2])
       /\ InBody(QpcTail[21][1], QpcTail[21][2])
  BY DEF QpcTail, InBody
<1>11. /\ InBody(QpcTail[22][1], QpcTail[22][2])
       /\ InBody(QpcTail[23][1], QpcTail[23][2])
       /\ InBody(QpcTail[24][1], QpcTail[24][2])
  BY DEF QpcTail, InBody
<1>12. /\ InBody(QpcTail[25][1], QpcTail[25][2])
       /\ InBody(QpcTail[26][1], QpcTail[26][2])
       /\ InBody(QpcTail[27][1], QpcTail[27][2])
  BY DEF QpcTail, InBody
<1>13. InBody(QpcTail[28][1], QpcTail[28][2]) /\ InBody(QpcTail[29][1], QpcTail[29][2])
  BY DEF QpcTail, InBody
<1>14. \A k \in 1 .. 29 : InBody(QpcTail[k][1], QpcTail[k][2])
  BY <1>4, <1>5, <1>6, <1>7, <1>8, <1>9, <1>10, <1>11, <1>12, <1>13
<1>15. \A k \in 1 .. 29 : QpcTail[k][2] \in Nat
  BY <1>3
<1>16. \A k \in 1 .. 29 : QpcTail[k][1] \in Names(QpcTail)
  BY <1>1 DEF Names
<1>17. IsBody(QpcTail)
  BY <1>1, <1>14, <1>15 DEF IsBody, IsLayout
<1>18. {"log_ack_req_freq", "log_sra_max", "retry_count", "rnr_retry"} \subseteq Names(QpcTail)
  <2>1. /\ QpcTail[1][1] = "log_ack_req_freq" /\ QpcTail[3][1] = "log_sra_max"
        /\ QpcTail[5][1] = "retry_count" /\ QpcTail[6][1] = "rnr_retry"
    BY <1>2
  <2>2. /\ QpcTail[1][1] \in Names(QpcTail) /\ QpcTail[3][1] \in Names(QpcTail)
        /\ QpcTail[5][1] \in Names(QpcTail) /\ QpcTail[6][1] \in Names(QpcTail)
    BY <1>16
  <2> QED
    BY <2>1, <2>2, Zenon
<1>19. {"next_send_psn", "cqn_snd", "log_rra_max", "atomic_mode"} \subseteq Names(QpcTail)
  <2>1. /\ QpcTail[8][1] = "next_send_psn" /\ QpcTail[10][1] = "cqn_snd"
        /\ QpcTail[12][1] = "log_rra_max" /\ QpcTail[14][1] = "atomic_mode"
    BY <1>2
  <2>2. /\ QpcTail[8][1] \in Names(QpcTail) /\ QpcTail[10][1] \in Names(QpcTail)
        /\ QpcTail[12][1] \in Names(QpcTail) /\ QpcTail[14][1] \in Names(QpcTail)
    BY <1>16
  <2> QED
    BY <2>1, <2>2, Zenon
<1>20. {"rre", "rwe", "rae", "page_offset"} \subseteq Names(QpcTail)
  <2>1. /\ QpcTail[15][1] = "rre" /\ QpcTail[16][1] = "rwe"
        /\ QpcTail[17][1] = "rae" /\ QpcTail[19][1] = "page_offset"
    BY <1>2
  <2>2. /\ QpcTail[15][1] \in Names(QpcTail) /\ QpcTail[16][1] \in Names(QpcTail)
        /\ QpcTail[17][1] \in Names(QpcTail) /\ QpcTail[19][1] \in Names(QpcTail)
    BY <1>16
  <2> QED
    BY <2>1, <2>2, Zenon
<1>21. {"min_rnr_nak", "dbr_addr", "rq_type", "dbr_umem_valid"} \subseteq Names(QpcTail)
  <2>1. /\ QpcTail[21][1] = "min_rnr_nak" /\ QpcTail[23][1] = "dbr_addr"
        /\ QpcTail[25][1] = "rq_type" /\ QpcTail[27][1] = "dbr_umem_valid"
    BY <1>2
  <2>2. /\ QpcTail[21][1] \in Names(QpcTail) /\ QpcTail[23][1] \in Names(QpcTail)
        /\ QpcTail[25][1] \in Names(QpcTail) /\ QpcTail[27][1] \in Names(QpcTail)
    BY <1>16
  <2> QED
    BY <2>1, <2>2, Zenon
<1>22. {"dbr_umem_id"} \subseteq Names(QpcTail)
  <2>1. /\ QpcTail[29][1] = "dbr_umem_id"
    BY <1>2
  <2>2. /\ QpcTail[29][1] \in Names(QpcTail)
    BY <1>16
  <2> QED
    BY <2>1, <2>2, Zenon
<1> QED
  BY <1>17, <1>18, <1>19, <1>20, <1>21, <1>22

\* The context of a completion queue.
LEMMA CqcBody ==
    /\ IsBody(Cqc)
    /\ {"dbr_umem_valid", "cqe_sz", "cc", "oi", "dbr_umem_id", "log_cq_size", "uar_page",
        "c_eqn", "dbr_addr"}
          \subseteq Names(Cqc)
<1>1. Cqc = [k \in 1 .. 16 |-> Cqc[k]] /\ Len(Cqc) = 16
  BY DEF Cqc
<1>2. /\ Cqc[1][1] = "" /\ Cqc[2][1] = "dbr_umem_valid" /\ Cqc[3][1] = ""
      /\ Cqc[4][1] = "cqe_sz" /\ Cqc[5][1] = "cc" /\ Cqc[6][1] = "" /\ Cqc[7][1] = "oi"
      /\ Cqc[8][1] = "" /\ Cqc[9][1] = "dbr_umem_id" /\ Cqc[10][1] = ""
      /\ Cqc[11][1] = "log_cq_size" /\ Cqc[12][1] = "uar_page" /\ Cqc[13][1] = ""
      /\ Cqc[14][1] = "c_eqn" /\ Cqc[15][1] = "" /\ Cqc[16][1] = "dbr_addr"
  BY DEF Cqc
<1>3. /\ Cqc[1][2] = 6 /\ Cqc[2][2] = 1 /\ Cqc[3][2] = 1 /\ Cqc[4][2] = 3 /\ Cqc[5][2] = 1
      /\ Cqc[6][2] = 2 /\ Cqc[7][2] = 1 /\ Cqc[8][2] = 17 /\ Cqc[9][2] = 32
      /\ Cqc[10][2] = 35 /\ Cqc[11][2] = 5 /\ Cqc[12][2] = 24 /\ Cqc[13][2] = 56
      /\ Cqc[14][2] = 8 /\ Cqc[15][2] = 256 /\ Cqc[16][2] = 64
  BY DEF Cqc
<1>4. /\ InBody(Cqc[1][1], Cqc[1][2])
      /\ InBody(Cqc[2][1], Cqc[2][2])
      /\ InBody(Cqc[3][1], Cqc[3][2])
  BY DEF Cqc, InBody
<1>5. /\ InBody(Cqc[4][1], Cqc[4][2])
      /\ InBody(Cqc[5][1], Cqc[5][2])
      /\ InBody(Cqc[6][1], Cqc[6][2])
  BY DEF Cqc, InBody
<1>6. /\ InBody(Cqc[7][1], Cqc[7][2])
      /\ InBody(Cqc[8][1], Cqc[8][2])
      /\ InBody(Cqc[9][1], Cqc[9][2])
  BY DEF Cqc, InBody
<1>7. /\ InBody(Cqc[10][1], Cqc[10][2])
      /\ InBody(Cqc[11][1], Cqc[11][2])
      /\ InBody(Cqc[12][1], Cqc[12][2])
  BY DEF Cqc, InBody
<1>8. /\ InBody(Cqc[13][1], Cqc[13][2])
      /\ InBody(Cqc[14][1], Cqc[14][2])
      /\ InBody(Cqc[15][1], Cqc[15][2])
  BY DEF Cqc, InBody
<1>9. InBody(Cqc[16][1], Cqc[16][2])
  BY DEF Cqc, InBody
<1>10. \A k \in 1 .. 16 : InBody(Cqc[k][1], Cqc[k][2])
  BY <1>4, <1>5, <1>6, <1>7, <1>8, <1>9
<1>11. \A k \in 1 .. 16 : Cqc[k][2] \in Nat
  BY <1>3
<1>12. \A k \in 1 .. 16 : Cqc[k][1] \in Names(Cqc)
  BY <1>1 DEF Names
<1>13. IsBody(Cqc)
  BY <1>1, <1>10, <1>11 DEF IsBody, IsLayout
<1>14. {"dbr_umem_valid", "cqe_sz", "cc", "oi"} \subseteq Names(Cqc)
  <2>1. /\ Cqc[2][1] = "dbr_umem_valid" /\ Cqc[4][1] = "cqe_sz"
        /\ Cqc[5][1] = "cc" /\ Cqc[7][1] = "oi"
    BY <1>2
  <2>2. /\ Cqc[2][1] \in Names(Cqc) /\ Cqc[4][1] \in Names(Cqc)
        /\ Cqc[5][1] \in Names(Cqc) /\ Cqc[7][1] \in Names(Cqc)
    BY <1>12
  <2> QED
    BY <2>1, <2>2, Zenon
<1>15. {"dbr_umem_id", "log_cq_size", "uar_page", "c_eqn"} \subseteq Names(Cqc)
  <2>1. /\ Cqc[9][1] = "dbr_umem_id" /\ Cqc[11][1] = "log_cq_size"
        /\ Cqc[12][1] = "uar_page" /\ Cqc[14][1] = "c_eqn"
    BY <1>2
  <2>2. /\ Cqc[9][1] \in Names(Cqc) /\ Cqc[11][1] \in Names(Cqc)
        /\ Cqc[12][1] \in Names(Cqc) /\ Cqc[14][1] \in Names(Cqc)
    BY <1>12
  <2> QED
    BY <2>1, <2>2, Zenon
<1>16. {"dbr_addr"} \subseteq Names(Cqc)
  <2>1. /\ Cqc[16][1] = "dbr_addr"
    BY <1>2
  <2>2. /\ Cqc[16][1] \in Names(Cqc)
    BY <1>12
  <2> QED
    BY <2>1, <2>2, Zenon
<1> QED
  BY <1>13, <1>14, <1>15, <1>16

\* Two layouts one behind the other.
LEMMA Joined ==
    ASSUME NEW a, NEW b, IsLayout(a), IsLayout(b)
    PROVE  /\ IsLayout(a \o b) /\ Len(a \o b) = Len(a) + Len(b)
           /\ \A k \in 1 .. Len(a) : (a \o b)[k] = a[k]
           /\ \A k \in 1 .. Len(b) : (a \o b)[Len(a) + k] = b[k]
           /\ \A k \in 1 .. Len(a) + Len(b) :
                 (a \o b)[k] = IF k <= Len(a) THEN a[k] ELSE b[k - Len(a)]
<1> DEFINE S == {a[k] : k \in 1 .. Len(a)} \cup {b[k] : k \in 1 .. Len(b)}
<1>0. Len(a) \in Nat /\ Len(b) \in Nat
  BY DEF IsLayout
<1>1. a \in Seq(S) /\ b \in Seq(S)
  <2>1. a = [k \in 1 .. Len(a) |-> a[k]] /\ b = [k \in 1 .. Len(b) |-> b[k]]
    BY DEF IsLayout
  <2>2. (\A k \in 1 .. Len(a) : a[k] \in S) /\ (\A k \in 1 .. Len(b) : b[k] \in S)
    OBVIOUS
  <2> HIDE DEF S
  <2>3. a \in [1 .. Len(a) -> S] /\ b \in [1 .. Len(b) -> S]
    BY <2>1, <2>2
  <2> QED
    BY <1>0, <2>3
<1> HIDE DEF S
<1>2. /\ a \o b \in Seq(S) /\ Len(a \o b) = Len(a) + Len(b)
      /\ \A s \in 1 .. Len(a) + Len(b) :
            (a \o b)[s] = IF s <= Len(a) THEN a[s] ELSE b[s - Len(a)]
  BY <1>1, ConcatProperties
<1>3. PICK c : c = a \o b
  OBVIOUS
<1>4. /\ c \in Seq(S) /\ Len(c) = Len(a) + Len(b)
      /\ \A s \in 1 .. Len(a) + Len(b) : c[s] = IF s <= Len(a) THEN a[s] ELSE b[s - Len(a)]
  BY <1>2, <1>3
<1>5. c = [k \in 1 .. Len(c) |-> c[k]] /\ Len(c) \in Nat
  BY <1>4
<1>6. ASSUME NEW k \in 1 .. Len(a) PROVE k \in 1 .. Len(a) + Len(b) /\ c[k] = a[k]
  BY <1>0, <1>4
<1>7. ASSUME NEW k \in 1 .. Len(b)
      PROVE  Len(a) + k \in 1 .. Len(a) + Len(b) /\ c[Len(a) + k] = b[k]
  <2>1. PICK s : s = Len(a) + k
    OBVIOUS
  <2>2. s \in 1 .. Len(a) + Len(b) /\ ~(s <= Len(a)) /\ s - Len(a) = k
    BY <1>0, <2>1
  <2> QED
    BY <1>4, <2>1, <2>2
<1>8. ASSUME NEW s \in 1 .. Len(c) PROVE c[s][2] \in Nat
  <2>1. CASE s <= Len(a)
    BY <1>0, <1>4, <2>1 DEF IsLayout
  <2>2. CASE ~(s <= Len(a))
    <3>1. s - Len(a) \in 1 .. Len(b)
      BY <1>0, <1>4, <2>2
    <3>2. c[s] = b[s - Len(a)]
      BY <1>4, <2>2
    <3> QED
      BY <3>1, <3>2 DEF IsLayout
  <2> QED
    BY <2>1, <2>2
<1> QED
  BY <1>3, <1>4, <1>5, <1>6, <1>7, <1>8 DEF IsLayout
\* The one width of a field in all the layouts.
HasWidth(f, w) == \A x : InBody(f, x) => x = w

\* The widths of the fields, by name.
LEMMA Widths ==
    /\ HasWidth("rlid", 16) /\ HasWidth("rgid_rip", 128) /\ HasWidth("udp_sport", 16)
    /\ HasWidth("vhca_port_num", 8) /\ HasWidth("st", 8) /\ HasWidth("pm_state", 2)
    /\ HasWidth("pd", 24) /\ HasWidth("mtu", 3) /\ HasWidth("log_sq_size", 4)
    /\ HasWidth("uar_page", 24) /\ HasWidth("remote_qpn", 24) /\ HasWidth("retry_count", 3)
    /\ HasWidth("rnr_retry", 3) /\ HasWidth("cqn_snd", 24) /\ HasWidth("atomic_mode", 4)
    /\ HasWidth("rwe", 1) /\ HasWidth("rae", 1) /\ HasWidth("dbr_addr", 64)
    /\ HasWidth("rq_type", 3) /\ HasWidth("dbr_umem_valid", 1)
    /\ HasWidth("dbr_umem_id", 32) /\ HasWidth("cqe_sz", 3) /\ HasWidth("log_cq_size", 5)
    /\ HasWidth("cq_umem_offset", 64) /\ HasWidth("wq_umem_offset", 64)
    /\ HasWidth("wq_umem_id", 32) /\ HasWidth("wq_umem_valid", 1) /\ HasWidth("qpn", 24)
    /\ HasWidth("cqn", 24)
<1>1. /\ HasWidth("rlid", 16) /\ HasWidth("rgid_rip", 128) /\ HasWidth("udp_sport", 16)
      /\ HasWidth("vhca_port_num", 8) /\ HasWidth("st", 8)
  BY DEF HasWidth, InBody
<1>2. /\ HasWidth("pm_state", 2) /\ HasWidth("pd", 24) /\ HasWidth("mtu", 3)
      /\ HasWidth("log_sq_size", 4) /\ HasWidth("uar_page", 24)
  BY DEF HasWidth, InBody
<1>3. /\ HasWidth("remote_qpn", 24) /\ HasWidth("retry_count", 3)
      /\ HasWidth("rnr_retry", 3) /\ HasWidth("cqn_snd", 24) /\ HasWidth("atomic_mode", 4)
  BY DEF HasWidth, InBody
<1>4. /\ HasWidth("rwe", 1) /\ HasWidth("rae", 1) /\ HasWidth("dbr_addr", 64)
      /\ HasWidth("rq_type", 3) /\ HasWidth("dbr_umem_valid", 1)
  BY DEF HasWidth, InBody
<1>5. /\ HasWidth("dbr_umem_id", 32) /\ HasWidth("cqe_sz", 3) /\ HasWidth("log_cq_size", 5)
      /\ HasWidth("cq_umem_offset", 64) /\ HasWidth("wq_umem_offset", 64)
  BY DEF HasWidth, InBody
<1>6. /\ HasWidth("wq_umem_id", 32) /\ HasWidth("wq_umem_valid", 1) /\ HasWidth("qpn", 24)
      /\ HasWidth("cqn", 24)
  BY DEF HasWidth, InBody
<1> QED
  BY <1>1, <1>2, <1>3, <1>4, <1>5, <1>6

\* The names in two layouts one behind the other.
LEMMA JoinedNames ==
    ASSUME NEW a, NEW b, IsLayout(a), IsLayout(b)
    PROVE  Names(a \o b) = Names(a) \cup Names(b)
<1>0. Len(a) \in Nat /\ Len(b) \in Nat
  BY DEF IsLayout
<1>1. PICK c : c = a \o b
  OBVIOUS
<1>2. /\ Len(c) = Len(a) + Len(b)
      /\ \A k \in 1 .. Len(a) : c[k] = a[k]
      /\ \A k \in 1 .. Len(b) : c[Len(a) + k] = b[k]
      /\ \A k \in 1 .. Len(a) + Len(b) : c[k] = IF k <= Len(a) THEN a[k] ELSE b[k - Len(a)]
  BY <1>1, Joined
<1>3. ASSUME NEW x \in Names(c) PROVE x \in Names(a) \cup Names(b)
  <2>1. PICK s \in 1 .. Len(c) : x = c[s][1]
    BY DEF Names
  <2>2. CASE s <= Len(a)
    BY <1>0, <1>2, <2>1, <2>2 DEF Names
  <2>3. CASE ~(s <= Len(a))
    <3>1. s - Len(a) \in 1 .. Len(b)
      BY <1>0, <1>2, <2>3
    <3>2. c[s] = b[s - Len(a)]
      BY <1>2, <2>3
    <3> QED
      BY <2>1, <3>1, <3>2 DEF Names
  <2> QED
    BY <2>2, <2>3
<1>4. ASSUME NEW x \in Names(a) PROVE x \in Names(c)
  <2>1. PICK s \in 1 .. Len(a) : x = a[s][1]
    BY DEF Names
  <2>2. s \in 1 .. Len(c) /\ c[s] = a[s]
    BY <1>0, <1>2
  <2> QED
    BY <2>1, <2>2 DEF Names
<1>5. ASSUME NEW x \in Names(b) PROVE x \in Names(c)
  <2>1. PICK s \in 1 .. Len(b) : x = b[s][1]
    BY DEF Names
  <2>2. Len(a) + s \in 1 .. Len(c) /\ c[Len(a) + s] = b[s]
    BY <1>0, <1>2
  <2> QED
    BY <2>1, <2>2 DEF Names
<1> QED
  BY <1>1, <1>3, <1>4, <1>5

\* Bodies put together are a body.
LEMMA JoinedBody ==
    ASSUME NEW a, NEW b, IsBody(a), IsBody(b)
    PROVE  IsBody(a \o b) /\ Names(a \o b) = Names(a) \cup Names(b)
<1>0. IsLayout(a) /\ IsLayout(b) /\ Len(a) \in Nat /\ Len(b) \in Nat
  BY DEF IsBody, IsLayout
<1>1. PICK c : c = a \o b
  OBVIOUS
<1>2. /\ IsLayout(c) /\ Len(c) = Len(a) + Len(b)
      /\ \A k \in 1 .. Len(a) + Len(b) : c[k] = IF k <= Len(a) THEN a[k] ELSE b[k - Len(a)]
  BY <1>0, <1>1, Joined
<1>3. ASSUME NEW s \in 1 .. Len(c) PROVE InBody(c[s][1], c[s][2])
  <2>1. CASE s <= Len(a)
    <3>1. s \in 1 .. Len(a) /\ c[s] = a[s]
      BY <1>0, <1>2, <2>1
    <3> QED
      BY <3>1 DEF IsBody
  <2>2. CASE ~(s <= Len(a))
    <3>1. s - Len(a) \in 1 .. Len(b) /\ c[s] = b[s - Len(a)]
      BY <1>0, <1>2, <2>2
    <3> QED
      BY <3>1 DEF IsBody
  <2> QED
    BY <2>1, <2>2
<1> QED
  BY <1>0, <1>1, <1>2, <1>3, JoinedNames DEF IsBody

\* A layout that begins with the opcode of a command.
IsCommand(l) ==
    /\ IsLayout(l) /\ Len(l) # 0
    /\ l[1][1] = "opcode" /\ l[1][2] = 16
    /\ \A k \in 2 .. Len(l) : InBody(l[k][1], l[k][2])

\* A body behind the start of a command is a command.
LEMMA JoinedCommand ==
    ASSUME NEW a, NEW b, IsCommand(a), IsBody(b)
    PROVE  IsCommand(a \o b) /\ Names(a \o b) = Names(a) \cup Names(b)
<1>0. IsLayout(a) /\ IsLayout(b) /\ Len(a) \in Nat \ {0} /\ Len(b) \in Nat
  BY DEF IsBody, IsCommand, IsLayout
<1>1. PICK c : c = a \o b
  OBVIOUS
<1>2. /\ IsLayout(c) /\ Len(c) = Len(a) + Len(b)
      /\ \A k \in 1 .. Len(a) + Len(b) : c[k] = IF k <= Len(a) THEN a[k] ELSE b[k - Len(a)]
  BY <1>0, <1>1, Joined
<1>3. ASSUME NEW s \in 2 .. Len(c) PROVE InBody(c[s][1], c[s][2])
  <2>1. CASE s <= Len(a)
    <3>1. s \in 2 .. Len(a) /\ c[s] = a[s]
      BY <1>0, <1>2, <2>1
    <3> QED
      BY <3>1 DEF IsCommand
  <2>2. CASE ~(s <= Len(a))
    <3>1. s - Len(a) \in 1 .. Len(b) /\ c[s] = b[s - Len(a)]
      BY <1>0, <1>2, <2>2
    <3> QED
      BY <3>1 DEF IsBody
  <2> QED
    BY <2>1, <2>2
<1>4. c[1] = a[1] /\ Len(c) # 0
  BY <1>0, <1>2
<1> QED
  BY <1>0, <1>1, <1>2, <1>3, <1>4, JoinedNames DEF IsCommand

\* The structures these layouts make.
LEMMA BodyStruct ==
    ASSUME NEW l, IsBody(l)
    PROVE  /\ WellFormed(Struct(l))
           /\ DOMAIN Struct(l) = Names(l) \ {""}
           /\ \A f \in DOMAIN Struct(l) : InBody(f, Struct(l)[f][2])
<1>1. IsLayout(l) /\ DOMAIN l = 1 .. Len(l)
  BY DEF IsBody, IsLayout
<1>2. Wide(l)
  BY BodyTyped DEF IsBody, Wide
<1>3. ASSUME NEW f \in DOMAIN Struct(l) PROVE InBody(f, Struct(l)[f][2])
  <2>1. PICK k \in 1 .. Len(l) : l[k][1] = f /\ Struct(l)[f] = <<BitsTo(l)[k - 1], l[k][2]>>
    BY <1>1, StructAt
  <2>2. Struct(l)[f][2] = l[k][2]
    BY <2>1
  <2> QED
    BY <2>1, <2>2 DEF IsBody
<1>4. DOMAIN Struct(l) = Names(l) \ {""}
  BY <1>1 DEF Struct, Names
<1> QED
  BY <1>1, <1>2, <1>3, <1>4, FieldsApart

\* The structure of a command has its opcode in front and its fields apart.
LEMMA CommandStruct ==
    ASSUME NEW l, IsCommand(l)
    PROVE  /\ WellFormed(Struct(l))
           /\ DOMAIN Struct(l) = Names(l) \ {""}
           /\ "opcode" \in DOMAIN Struct(l) /\ Struct(l)["opcode"] = <<0, 16>>
           /\ \A f \in DOMAIN Struct(l) : f # "opcode" => InBody(f, Struct(l)[f][2])
<1>1. IsLayout(l) /\ DOMAIN l = 1 .. Len(l) /\ Len(l) \in Nat \ {0}
  BY DEF IsCommand, IsLayout
<1>2. ASSUME NEW k \in 1 .. Len(l), k # 1
      PROVE  InBody(l[k][1], l[k][2]) /\ l[k][1] # "opcode" /\ (l[k][1] # "" => l[k][2] # 0)
  <2>1. k \in 2 .. Len(l)
    BY <1>1, <1>2
  <2> QED
    BY <2>1, BodyTyped DEF IsCommand
<1>3. l[1][1] = "opcode" /\ l[1][2] = 16 /\ 1 \in 1 .. Len(l)
  BY <1>1 DEF IsCommand
<1>4. Wide(l)
  <2>1. l[1][2] # 0
    BY <1>3
  <2> QED
    BY <1>2, <2>1 DEF Wide
<1>5. DOMAIN Struct(l) = Names(l) \ {""}
  BY <1>1 DEF Struct, Names
<1>6. "opcode" \in DOMAIN Struct(l)
  BY <1>3, <1>5 DEF Names
<1>7. Struct(l)["opcode"] = <<0, 16>>
  <2>1. PICK k \in 1 .. Len(l) : /\ l[k][1] = "opcode"
                                 /\ Struct(l)["opcode"] = <<BitsTo(l)[k - 1], l[k][2]>>
    BY <1>1, <1>6, StructAt
  <2>2. k = 1
    BY <1>2, <2>1
  <2>3. k - 1 = 0
    BY <2>2
  <2> QED
    BY <1>1, <1>3, <2>1, <2>2, <2>3, BitsToIs
<1>8. ASSUME NEW f \in DOMAIN Struct(l), f # "opcode" PROVE InBody(f, Struct(l)[f][2])
  <2>1. PICK k \in 1 .. Len(l) : l[k][1] = f /\ Struct(l)[f] = <<BitsTo(l)[k - 1], l[k][2]>>
    BY <1>1, StructAt
  <2>2. Struct(l)[f][2] = l[k][2]
    BY <2>1
  <2> QED
    BY <1>2, <1>3, <1>8, <2>1, <2>2
<1> QED
  BY <1>1, <1>4, <1>5, <1>6, <1>7, <1>8, FieldsApart

\* What the proofs need of the structure of a command: its fields lie apart, the opcode
\* comes first, and it has the fields F.
Carries(S, F) ==
    /\ WellFormed(S)
    /\ "opcode" \in DOMAIN S /\ S["opcode"][1] = 0 /\ S["opcode"][2] = 16
    /\ F \subseteq DOMAIN S
    /\ \A f \in DOMAIN S : f # "opcode" => InBody(f, S[f][2])

\* A command made of a start, a context and an end carries the fields of all three.
LEMMA Framed ==
    ASSUME NEW h, NEW m, NEW t, IsCommand(h), IsBody(m), IsBody(t), NEW F,
           F \subseteq Names(m) \cup Names(t) \cup Names(h), "" \notin F
    PROVE  Carries(Struct(h \o m \o t), F)
<1>1. PICK l : l = h \o m \o t
  OBVIOUS
<1>2. IsCommand(h \o m) /\ Names(h \o m) = Names(h) \cup Names(m)
  BY JoinedCommand
<1>3. IsCommand(l) /\ Names(l) = Names(h) \cup Names(m) \cup Names(t)
  BY <1>1, <1>2, JoinedCommand
<1>4. F \subseteq DOMAIN Struct(l)
  BY <1>3, CommandStruct
<1>5. PICK S : S = Struct(l)
  OBVIOUS
<1>6. PICK x : x = S["opcode"]
  OBVIOUS
<1>7. x[1] = 0 /\ x[2] = 16
  <2>1. x = <<0, 16>>
    BY <1>3, <1>5, <1>6, CommandStruct
  <2> QED
    BY <2>1
<1>8. WellFormed(S) /\ "opcode" \in DOMAIN S
      /\ \A f \in DOMAIN S : f # "opcode" => InBody(f, S[f][2])
  BY <1>3, <1>5, CommandStruct
<1> QED
  BY <1>1, <1>4, <1>5, <1>6, <1>7, <1>8 DEF Carries

\* Reserved bits.
LEMMA GapBody == ASSUME NEW n \in Nat PROVE IsBody(Gap(n))
<1>1. Gap(n) = [k \in 1 .. 1 |-> Gap(n)[k]] /\ Len(Gap(n)) = 1
  BY DEF Gap
<1>2. Gap(n)[1][1] = "" /\ Gap(n)[1][2] = n
  BY DEF Gap
<1>3. PICK g : g = Gap(n)
  OBVIOUS
<1>4. \A k \in 1 .. 1 : k = 1
  OBVIOUS
<1>5. g = [k \in 1 .. 1 |-> g[k]] /\ Len(g) = 1 /\ g[1][1] = "" /\ g[1][2] = n
  BY <1>1, <1>2, <1>3
<1>6. \A w : InBody("", w)
  BY DEF InBody
<1>7. IsLayout(g)
  <2>1. \A k \in 1 .. 1 : g[k][2] \in Nat
    BY <1>4, <1>5
  <2>2. Len(g) \in Nat
    <3>1. Len(g) = 1
      BY <1>5, Zenon
    <3> QED
      BY <3>1
  <2>3. g = [k \in 1 .. Len(g) |-> g[k]] /\ \A k \in 1 .. Len(g) : g[k][2] \in Nat
    BY <1>5, <2>1, Zenon
  <2> QED
    BY <2>2, <2>3 DEF IsLayout
<1>8. \A k \in 1 .. 1 : InBody(g[k][1], g[k][2])
  <2>1. g[1][1] = ""
    BY <1>5
  <2>2. InBody(g[1][1], g[1][2])
    BY <1>6, <2>1, Zenon
  <2> QED
    BY <1>4, <2>2, Zenon
<1>9. IsBody(g)
  BY <1>5, <1>7, <1>8 DEF IsBody
<1> QED
  BY <1>3, <1>9

\* The context of a queue pair, with its two address paths.
LEMMA QpcBody ==
    IsBody(Qpc) /\ Names(QpcHead) \cup Names(Ads) \cup Names(QpcTail) \subseteq Names(Qpc)
<1>1. Bits(Ads) \in Nat
  <2>1. IsLayout(Ads) /\ Len(Ads) \in Nat
    BY AdsBody DEF IsBody, IsLayout
  <2>2. Len(Ads) \in 0 .. Len(Ads)
    BY <2>1
  <2> QED
    BY <2>1, <2>2, BitsToNat DEF Bits
<1>2. IsBody(Gap(Bits(Ads)))
  BY <1>1, GapBody
<1>3. PICK a : a = QpcHead \o Ads
  OBVIOUS
<1>4. IsBody(a) /\ Names(a) = Names(QpcHead) \cup Names(Ads)
  BY <1>3, AdsBody, QpcHeadBody, JoinedBody
<1>5. PICK b : b = a \o Gap(Bits(Ads))
  OBVIOUS
<1>6. IsBody(b) /\ Names(a) \subseteq Names(b)
  BY <1>2, <1>4, <1>5, JoinedBody
<1>7. Qpc = b \o QpcTail
  BY <1>3, <1>5 DEF Qpc
<1> QED
  BY <1>4, <1>6, <1>7, QpcTailBody, JoinedBody

\* The ends of the layouts, around the contexts.
CreateCqHead == << <<"opcode", 16>>, <<"", 112>> >>
CreateCqTail == << <<"cq_umem_offset", 64>>, <<"cq_umem_id", 32>>, <<"cq_umem_valid", 1>>,
                   <<"", 1439>> >>
CreateQpHead == << <<"opcode", 16>>, <<"", 176>> >>
CreateQpTail == << <<"wq_umem_offset", 64>>, <<"wq_umem_id", 32>>, <<"wq_umem_valid", 1>>,
                   <<"", 31>> >>
ModifyHead == << <<"opcode", 16>>, <<"", 56>>, <<"qpn", 24>>, <<"", 96>> >>
CqAnswerBits == << <<"", 72>>, <<"cqn", 24>>, <<"", 32>> >>

\* The parts of the commands around the contexts, and the two answers.
LEMMA CreateCqHeadCommand ==
    IsCommand(CreateCqHead) /\ {"opcode"} \subseteq Names(CreateCqHead)
<1>1. CreateCqHead = [k \in 1 .. 2 |-> CreateCqHead[k]] /\ Len(CreateCqHead) = 2
  BY DEF CreateCqHead
<1>2. /\ CreateCqHead[1][1] = "opcode" /\ CreateCqHead[2][1] = ""
  BY DEF CreateCqHead
<1>3. /\ CreateCqHead[1][2] = 16 /\ CreateCqHead[2][2] = 112
  BY DEF CreateCqHead
<1>4. InBody(CreateCqHead[2][1], CreateCqHead[2][2])
  BY DEF CreateCqHead, InBody
<1>5. \A k \in 2 .. 2 : InBody(CreateCqHead[k][1], CreateCqHead[k][2])
  BY <1>4
<1>6. \A k \in 1 .. 2 : CreateCqHead[k][2] \in Nat
  BY <1>3
<1>7. \A k \in 1 .. 2 : CreateCqHead[k][1] \in Names(CreateCqHead)
  BY <1>1 DEF Names
<1>8. IsCommand(CreateCqHead)
  <2>1. IsLayout(CreateCqHead)
    BY <1>1, <1>6 DEF IsLayout
  <2>2. Len(CreateCqHead) # 0
    BY <1>1
  <2>3. \A k \in 2 .. Len(CreateCqHead) : InBody(CreateCqHead[k][1], CreateCqHead[k][2])
    BY <1>1, <1>5
  <2> QED
    BY <1>2, <1>3, <2>1, <2>2, <2>3 DEF IsCommand
<1>9. CreateCqHead[1][1] \in Names(CreateCqHead)
  BY <1>7
<1> QED
  BY <1>2, <1>8, <1>9

LEMMA CreateQpHeadCommand ==
    IsCommand(CreateQpHead) /\ {"opcode"} \subseteq Names(CreateQpHead)
<1>1. CreateQpHead = [k \in 1 .. 2 |-> CreateQpHead[k]] /\ Len(CreateQpHead) = 2
  BY DEF CreateQpHead
<1>2. /\ CreateQpHead[1][1] = "opcode" /\ CreateQpHead[2][1] = ""
  BY DEF CreateQpHead
<1>3. /\ CreateQpHead[1][2] = 16 /\ CreateQpHead[2][2] = 176
  BY DEF CreateQpHead
<1>4. InBody(CreateQpHead[2][1], CreateQpHead[2][2])
  BY DEF CreateQpHead, InBody
<1>5. \A k \in 2 .. 2 : InBody(CreateQpHead[k][1], CreateQpHead[k][2])
  BY <1>4
<1>6. \A k \in 1 .. 2 : CreateQpHead[k][2] \in Nat
  BY <1>3
<1>7. \A k \in 1 .. 2 : CreateQpHead[k][1] \in Names(CreateQpHead)
  BY <1>1 DEF Names
<1>8. IsCommand(CreateQpHead)
  <2>1. IsLayout(CreateQpHead)
    BY <1>1, <1>6 DEF IsLayout
  <2>2. Len(CreateQpHead) # 0
    BY <1>1
  <2>3. \A k \in 2 .. Len(CreateQpHead) : InBody(CreateQpHead[k][1], CreateQpHead[k][2])
    BY <1>1, <1>5
  <2> QED
    BY <1>2, <1>3, <2>1, <2>2, <2>3 DEF IsCommand
<1>9. CreateQpHead[1][1] \in Names(CreateQpHead)
  BY <1>7
<1> QED
  BY <1>2, <1>8, <1>9

LEMMA ModifyHeadCommand ==
    IsCommand(ModifyHead) /\ {"opcode", "qpn"} \subseteq Names(ModifyHead)
<1>1. ModifyHead = [k \in 1 .. 4 |-> ModifyHead[k]] /\ Len(ModifyHead) = 4
  BY DEF ModifyHead
<1>2. /\ ModifyHead[1][1] = "opcode" /\ ModifyHead[2][1] = "" /\ ModifyHead[3][1] = "qpn"
      /\ ModifyHead[4][1] = ""
  BY DEF ModifyHead
<1>3. /\ ModifyHead[1][2] = 16 /\ ModifyHead[2][2] = 56 /\ ModifyHead[3][2] = 24
      /\ ModifyHead[4][2] = 96
  BY DEF ModifyHead
<1>4. /\ InBody(ModifyHead[2][1], ModifyHead[2][2])
      /\ InBody(ModifyHead[3][1], ModifyHead[3][2])
      /\ InBody(ModifyHead[4][1], ModifyHead[4][2])
  BY DEF ModifyHead, InBody
<1>5. \A k \in 2 .. 4 : InBody(ModifyHead[k][1], ModifyHead[k][2])
  BY <1>4
<1>6. \A k \in 1 .. 4 : ModifyHead[k][2] \in Nat
  BY <1>3
<1>7. \A k \in 1 .. 4 : ModifyHead[k][1] \in Names(ModifyHead)
  BY <1>1 DEF Names
<1>8. IsCommand(ModifyHead)
  <2>1. IsLayout(ModifyHead)
    BY <1>1, <1>6 DEF IsLayout
  <2>2. Len(ModifyHead) # 0
    BY <1>1
  <2>3. \A k \in 2 .. Len(ModifyHead) : InBody(ModifyHead[k][1], ModifyHead[k][2])
    BY <1>1, <1>5
  <2> QED
    BY <1>2, <1>3, <2>1, <2>2, <2>3 DEF IsCommand
<1>9. ModifyHead[1][1] \in Names(ModifyHead) /\ ModifyHead[3][1] \in Names(ModifyHead)
  BY <1>7
<1> QED
  BY <1>2, <1>8, <1>9

LEMMA CreateCqTailBody ==
    /\ IsBody(CreateCqTail)
    /\ {"cq_umem_offset", "cq_umem_id", "cq_umem_valid"}
          \subseteq Names(CreateCqTail)
<1>1. CreateCqTail = [k \in 1 .. 4 |-> CreateCqTail[k]] /\ Len(CreateCqTail) = 4
  BY DEF CreateCqTail
<1>2. /\ CreateCqTail[1][1] = "cq_umem_offset" /\ CreateCqTail[2][1] = "cq_umem_id"
      /\ CreateCqTail[3][1] = "cq_umem_valid" /\ CreateCqTail[4][1] = ""
  BY DEF CreateCqTail
<1>3. /\ CreateCqTail[1][2] = 64 /\ CreateCqTail[2][2] = 32 /\ CreateCqTail[3][2] = 1
      /\ CreateCqTail[4][2] = 1439
  BY DEF CreateCqTail
<1>4. /\ InBody(CreateCqTail[1][1], CreateCqTail[1][2])
      /\ InBody(CreateCqTail[2][1], CreateCqTail[2][2])
      /\ InBody(CreateCqTail[3][1], CreateCqTail[3][2])
  BY DEF CreateCqTail, InBody
<1>5. InBody(CreateCqTail[4][1], CreateCqTail[4][2])
  BY DEF CreateCqTail, InBody
<1>6. \A k \in 1 .. 4 : InBody(CreateCqTail[k][1], CreateCqTail[k][2])
  BY <1>4, <1>5
<1>7. \A k \in 1 .. 4 : CreateCqTail[k][2] \in Nat
  BY <1>3
<1>8. \A k \in 1 .. 4 : CreateCqTail[k][1] \in Names(CreateCqTail)
  BY <1>1 DEF Names
<1>9. IsBody(CreateCqTail)
  BY <1>1, <1>6, <1>7 DEF IsBody, IsLayout
<1>10. {"cq_umem_offset", "cq_umem_id", "cq_umem_valid"} \subseteq Names(CreateCqTail)
  <2>1. /\ CreateCqTail[1][1] = "cq_umem_offset" /\ CreateCqTail[2][1] = "cq_umem_id"
        /\ CreateCqTail[3][1] = "cq_umem_valid"
    BY <1>2
  <2>2. /\ CreateCqTail[1][1] \in Names(CreateCqTail) /\ CreateCqTail[2][1] \in Names(CreateCqTail)
        /\ CreateCqTail[3][1] \in Names(CreateCqTail)
    BY <1>8
  <2> QED
    BY <2>1, <2>2, Zenon
<1> QED
  BY <1>9, <1>10

LEMMA CreateQpTailBody ==
    /\ IsBody(CreateQpTail)
    /\ {"wq_umem_offset", "wq_umem_id", "wq_umem_valid"}
          \subseteq Names(CreateQpTail)
<1>1. CreateQpTail = [k \in 1 .. 4 |-> CreateQpTail[k]] /\ Len(CreateQpTail) = 4
  BY DEF CreateQpTail
<1>2. /\ CreateQpTail[1][1] = "wq_umem_offset" /\ CreateQpTail[2][1] = "wq_umem_id"
      /\ CreateQpTail[3][1] = "wq_umem_valid" /\ CreateQpTail[4][1] = ""
  BY DEF CreateQpTail
<1>3. /\ CreateQpTail[1][2] = 64 /\ CreateQpTail[2][2] = 32 /\ CreateQpTail[3][2] = 1
      /\ CreateQpTail[4][2] = 31
  BY DEF CreateQpTail
<1>4. /\ InBody(CreateQpTail[1][1], CreateQpTail[1][2])
      /\ InBody(CreateQpTail[2][1], CreateQpTail[2][2])
      /\ InBody(CreateQpTail[3][1], CreateQpTail[3][2])
  BY DEF CreateQpTail, InBody
<1>5. InBody(CreateQpTail[4][1], CreateQpTail[4][2])
  BY DEF CreateQpTail, InBody
<1>6. \A k \in 1 .. 4 : InBody(CreateQpTail[k][1], CreateQpTail[k][2])
  BY <1>4, <1>5
<1>7. \A k \in 1 .. 4 : CreateQpTail[k][2] \in Nat
  BY <1>3
<1>8. \A k \in 1 .. 4 : CreateQpTail[k][1] \in Names(CreateQpTail)
  BY <1>1 DEF Names
<1>9. IsBody(CreateQpTail)
  BY <1>1, <1>6, <1>7 DEF IsBody, IsLayout
<1>10. {"wq_umem_offset", "wq_umem_id", "wq_umem_valid"} \subseteq Names(CreateQpTail)
  <2>1. /\ CreateQpTail[1][1] = "wq_umem_offset" /\ CreateQpTail[2][1] = "wq_umem_id"
        /\ CreateQpTail[3][1] = "wq_umem_valid"
    BY <1>2
  <2>2. /\ CreateQpTail[1][1] \in Names(CreateQpTail) /\ CreateQpTail[2][1] \in Names(CreateQpTail)
        /\ CreateQpTail[3][1] \in Names(CreateQpTail)
    BY <1>8
  <2> QED
    BY <2>1, <2>2, Zenon
<1> QED
  BY <1>9, <1>10

LEMMA CqAnswerBitsBody ==
    /\ IsBody(CqAnswerBits)
    /\ {"cqn"}
          \subseteq Names(CqAnswerBits)
<1>1. CqAnswerBits = [k \in 1 .. 3 |-> CqAnswerBits[k]] /\ Len(CqAnswerBits) = 3
  BY DEF CqAnswerBits
<1>2. /\ CqAnswerBits[1][1] = "" /\ CqAnswerBits[2][1] = "cqn" /\ CqAnswerBits[3][1] = ""
  BY DEF CqAnswerBits
<1>3. /\ CqAnswerBits[1][2] = 72 /\ CqAnswerBits[2][2] = 24 /\ CqAnswerBits[3][2] = 32
  BY DEF CqAnswerBits
<1>4. /\ InBody(CqAnswerBits[1][1], CqAnswerBits[1][2])
      /\ InBody(CqAnswerBits[2][1], CqAnswerBits[2][2])
      /\ InBody(CqAnswerBits[3][1], CqAnswerBits[3][2])
  BY DEF CqAnswerBits, InBody
<1>5. \A k \in 1 .. 3 : InBody(CqAnswerBits[k][1], CqAnswerBits[k][2])
  BY <1>4
<1>6. \A k \in 1 .. 3 : CqAnswerBits[k][2] \in Nat
  BY <1>3
<1>7. \A k \in 1 .. 3 : CqAnswerBits[k][1] \in Names(CqAnswerBits)
  BY <1>1 DEF Names
<1>8. IsBody(CqAnswerBits)
  BY <1>1, <1>5, <1>6 DEF IsBody, IsLayout
<1>9. {"cqn"} \subseteq Names(CqAnswerBits)
  <2>1. /\ CqAnswerBits[2][1] = "cqn"
    BY <1>2
  <2>2. /\ CqAnswerBits[2][1] \in Names(CqAnswerBits)
    BY <1>7
  <2> QED
    BY <2>1, <2>2, Zenon
<1> QED
  BY <1>8, <1>9

\* The fields the commands of the code set.
CreateCqFields ==
    {"opcode", "cq_umem_id", "cq_umem_valid", "cq_umem_offset", "dbr_umem_valid", "cqe_sz",
     "cc", "oi", "dbr_umem_id", "log_cq_size", "uar_page", "c_eqn", "dbr_addr"}
CreateQpFields ==
    {"opcode", "wq_umem_id", "wq_umem_offset", "wq_umem_valid", "st", "pm_state", "pd",
     "uar_page", "rq_type", "cqn_snd", "log_sq_size", "log_rq_size", "dbr_umem_valid",
     "dbr_addr", "dbr_umem_id", "user_index", "page_offset"}
ModifyFields ==
    {"opcode", "qpn", "rwe", "rre", "rae", "atomic_mode", "vhca_port_num", "pm_state",
     "pkey_index", "mtu", "log_msg_max", "remote_qpn", "min_rnr_nak", "log_rra_max", "sl",
     "rlid", "rmac", "hop_limit", "src_addr_index", "udp_sport", "rgid_rip",
     "log_ack_req_freq", "log_sra_max", "next_send_psn", "retry_count", "rnr_retry",
     "ack_timeout"}

\* What each command can carry; the three modify commands have one layout.
LEMMA CreateCqLayout == Carries(CreateCqIn, CreateCqFields)
<1>1. CreateCqIn = Struct(CreateCqHead \o Cqc \o CreateCqTail)
  BY DEF CreateCqIn, CreateCqHead, CreateCqTail
<1>2. CreateCqFields \subseteq Names(Cqc) \cup Names(CreateCqTail) \cup Names(CreateCqHead)
  <2>1. /\ \A f \in {"dbr_umem_valid", "cqe_sz", "cc", "oi", "dbr_umem_id", "log_cq_size",
                     "uar_page", "c_eqn", "dbr_addr"} : f \in Names(Cqc)
        /\ \A f \in {"cq_umem_offset", "cq_umem_id", "cq_umem_valid"} : f \in Names(CreateCqTail)
        /\ \A f \in {"opcode"} : f \in Names(CreateCqHead)
    BY CqcBody, CreateCqHeadCommand, CreateCqTailBody
  <2> QED
    BY <2>1 DEF CreateCqFields
<1>3. "" \notin CreateCqFields
  BY DEF CreateCqFields
<1>4. IsCommand(CreateCqHead) /\ IsBody(Cqc) /\ IsBody(CreateCqTail)
  BY CqcBody, CreateCqHeadCommand, CreateCqTailBody
<1> QED
  BY <1>1, <1>2, <1>3, <1>4, Framed

LEMMA CreateQpLayout == Carries(CreateQpIn, CreateQpFields)
<1>1. CreateQpIn = Struct(CreateQpHead \o Qpc \o CreateQpTail)
  BY DEF CreateQpIn, CreateQpHead, CreateQpTail
<1>2. CreateQpFields \subseteq Names(Qpc) \cup Names(CreateQpTail) \cup Names(CreateQpHead)
  <2>1. \A f \in {"st", "pm_state", "pd", "log_rq_size", "log_sq_size", "uar_page",
                  "user_index"} : f \in Names(QpcHead)
    BY QpcHeadBody
  <2>2. \A f \in {"cqn_snd", "page_offset", "dbr_addr", "rq_type", "dbr_umem_valid",
                  "dbr_umem_id"} : f \in Names(QpcTail)
    BY QpcTailBody
  <2>3. /\ \A f \in {"wq_umem_offset", "wq_umem_id", "wq_umem_valid"} : f \in Names(CreateQpTail)
        /\ \A f \in {"opcode"} : f \in Names(CreateQpHead)
    BY CreateQpHeadCommand, CreateQpTailBody
  <2>4. Names(QpcHead) \cup Names(QpcTail) \subseteq Names(Qpc)
    BY QpcBody
  <2> QED
    BY <2>1, <2>2, <2>3, <2>4 DEF CreateQpFields
<1>3. "" \notin CreateQpFields
  BY DEF CreateQpFields
<1>4. IsCommand(CreateQpHead) /\ IsBody(Qpc) /\ IsBody(CreateQpTail)
  BY QpcBody, CreateQpHeadCommand, CreateQpTailBody
<1> QED
  BY <1>1, <1>2, <1>3, <1>4, Framed

LEMMA ModifyLayout ==
    /\ Carries(Rst2InitIn, ModifyFields)
    /\ Init2RtrIn = Rst2InitIn /\ Rtr2RtsIn = Rst2InitIn
<1>1. Rst2InitIn = Struct(ModifyHead \o Qpc \o Gap(128))
  BY DEF Rst2InitIn, ModifyHead
<1>2. ModifyFields \subseteq Names(Qpc) \cup Names(Gap(128)) \cup Names(ModifyHead)
  <2>1. \A f \in {"pm_state", "mtu", "log_msg_max", "remote_qpn"} : f \in Names(QpcHead)
    BY QpcHeadBody
  <2>2. \A f \in {"rwe", "rre", "rae", "atomic_mode", "min_rnr_nak", "log_rra_max",
                  "log_ack_req_freq", "log_sra_max", "next_send_psn", "retry_count",
                  "rnr_retry"} : f \in Names(QpcTail)
    BY QpcTailBody
  <2>3. \A f \in {"vhca_port_num", "pkey_index", "sl", "rlid", "rmac", "hop_limit",
                  "src_addr_index", "udp_sport", "rgid_rip", "ack_timeout"} : f \in Names(Ads)
    BY AdsBody
  <2>4. \A f \in {"opcode", "qpn"} : f \in Names(ModifyHead)
    BY ModifyHeadCommand
  <2>5. Names(QpcHead) \cup Names(Ads) \cup Names(QpcTail) \subseteq Names(Qpc)
    BY QpcBody
  <2> QED
    BY <2>1, <2>2, <2>3, <2>4, <2>5 DEF ModifyFields
<1>3. "" \notin ModifyFields
  BY DEF ModifyFields
<1>4. IsCommand(ModifyHead) /\ IsBody(Qpc) /\ IsBody(Gap(128))
  BY QpcBody, ModifyHeadCommand, GapBody
<1>5. Carries(Rst2InitIn, ModifyFields)
  <2>1. PICK t : t = Gap(128)
    OBVIOUS
  <2>2. ModifyFields \subseteq Names(Qpc) \cup Names(t) \cup Names(ModifyHead) /\ IsBody(t)
    BY <1>2, <1>4, <2>1
  <2>3. Rst2InitIn = Struct(ModifyHead \o Qpc \o t)
    BY <1>1, <2>1
  <2> QED
    BY <1>3, <1>4, <2>2, <2>3, Framed
<1> QED
  BY <1>5 DEF Rst2InitIn, Init2RtrIn, Rtr2RtsIn

-----------------------------------------------------------------------------
(* Writing and reading a field.                                            *)

\* A field that was set is read back, cut to its width: nothing else overlaps it.
LEMMA GetSet ==
    ASSUME NEW S, WellFormed(S), NEW v, DOMAIN v \subseteq DOMAIN S,
           NEW T, NEW f \in DOMAIN v, T[f][1] = S[f][1], T[f][2] = S[f][2]
    PROVE  Get(Set(S, v), T, f) = Cut(v[f], S[f][2])
<1>1. PICK cmd : cmd = Set(S, v)
  OBVIOUS
<1>2. PICK a, w : a = S[f][1] /\ w = S[f][2]
  OBVIOUS
<1>3. a \in Nat /\ w \in Nat \ {0} /\ f \in DOMAIN S
  BY <1>2 DEF WellFormed
<1>4. PICK y : y = <<a, w, Cut(v[f], w)>>
  OBVIOUS
<1>5. y \in cmd
  BY <1>1, <1>2, <1>4 DEF Set
<1>6. PICK hit : hit = {x \in cmd : x[1] < a + w /\ a < x[1] + x[2]}
  OBVIOUS
<1>7. y[1] = a /\ y[2] = w /\ y[3] = Cut(v[f], w)
  BY <1>4
<1>8. y \in hit
  BY <1>3, <1>5, <1>6, <1>7
<1>9. ASSUME NEW x \in hit PROVE x = y
  <2>1. x \in cmd /\ x[1] < a + w /\ a < x[1] + x[2]
    BY <1>6
  <2>2. PICK g \in DOMAIN v : x = <<S[g][1], S[g][2], Cut(v[g], S[g][2])>>
    BY <1>1, <2>1 DEF Set
  <2>3. x[1] = S[g][1] /\ x[2] = S[g][2] /\ g \in DOMAIN S
    BY <2>2
  <2>4. S[g][1] \in Nat /\ S[g][2] \in Nat
    BY <2>3 DEF WellFormed
  <2>5. g # f => a + w <= S[g][1] \/ S[g][1] + S[g][2] <= a
    BY <1>2, <1>3, <2>3 DEF WellFormed
  <2>6. g = f
    BY <1>3, <2>1, <2>3, <2>4, <2>5
  <2> QED
    BY <1>2, <1>4, <2>2, <2>6
<1>10. hit = {y}
  BY <1>8, <1>9
<1>11. hit # {} /\ (\A x \in hit : hit = {x} /\ <<x[1], x[2]>> = <<a, w>>)
       /\ (CHOOSE x \in hit : TRUE) = y
  BY <1>7, <1>10
<1>12. T[f][1] = a /\ T[f][2] = w
  BY <1>2
<1>13. Get(cmd, T, f) = y[3]
  BY <1>6, <1>11, <1>12 DEF Get
<1> QED
  BY <1>1, <1>2, <1>7, <1>13

\* Small values are not cut.
LEMMA CutIs ==
    ASSUME NEW w \in Nat, w <= 30, NEW n \in Nat, 2 ^ w = n, NEW v \in Nat, v < n
    PROVE  Cut(v, w) = v
<1>1. Cut(v, w) = v % n
  <2>1. ~(w > 30)
    OBVIOUS
  <2> QED
    BY <2>1 DEF Cut
<1>2. n \in Nat \ {0} /\ v \in Int /\ v \in 0 .. n - 1
  OBVIOUS
<1>3. v % n = v
  BY <1>2, RemainderSmall
<1> QED
  BY <1>1, <1>3

\* Numbers of 16 and of 24 bits, ...
LEMMA CutFits ==
    ASSUME NEW v \in Nat
    PROVE  (v < 2 ^ 16 => Cut(v, 16) = v) /\ (v < 2 ^ 24 => Cut(v, 24) = v)
<1>1. 2 ^ 16 \in Nat /\ 2 ^ 24 \in Nat
  BY SMT
<1>2. PICK m, n : m = 2 ^ 16 /\ n = 2 ^ 24
  OBVIOUS
<1>3. PICK k, l : k = 16 /\ l = 24
  OBVIOUS
<1>4. k \in Nat /\ l \in Nat /\ k <= 30 /\ l <= 30
  BY <1>3
<1>5. 2 ^ k = m /\ 2 ^ l = n /\ m \in Nat /\ n \in Nat
  BY <1>1, <1>2, <1>3, Zenon
<1>6. (v < m => Cut(v, k) = v) /\ (v < n => Cut(v, l) = v)
  BY <1>4, <1>5, CutIs
<1> QED
  BY <1>2, <1>3, <1>6, Zenon

\* ... the constants of the commands, ...
LEMMA CutSmall ==
    /\ Cut(1, 1) = 1 /\ Cut(3, 2) = 3 /\ Cut(0, 3) = 0 /\ Cut(3, 3) = 3 /\ Cut(5, 3) = 5
    /\ Cut(7, 3) = 7 /\ Cut(3, 4) = 3 /\ Cut(0, 8) = 0 /\ Cut(1, 8) = 1
    /\ \A v \in 0 .. 15 : Cut(v, 4) = v /\ Cut(v, 5) = v
<1>1. Cut(1, 1) = 1 /\ Cut(3, 2) = 3 /\ Cut(0, 3) = 0 /\ Cut(3, 3) = 3 /\ Cut(5, 3) = 5
  BY DEF Cut
<1>2. Cut(7, 3) = 7 /\ Cut(3, 4) = 3 /\ Cut(0, 8) = 0 /\ Cut(1, 8) = 1
  BY DEF Cut
<1>3. \A v \in 0 .. 15 : Cut(v, 4) = v
  BY DEF Cut
<1>4. \A v \in 0 .. 15 : Cut(v, 5) = v
  BY DEF Cut
<1> QED
  BY <1>1, <1>2, <1>3, <1>4

\* ... and fields that are never cut.
LEMMA CutWide ==
    \A v : Cut(v, 32) = v /\ Cut(v, 48) = v /\ Cut(v, 64) = v /\ Cut(v, 128) = v
  BY DEF Cut

\* A field that a command sets is read as the value it was set to, cut to its width.
LEMMA FieldRead ==
    ASSUME NEW S, NEW F, Carries(S, F), NEW v, DOMAIN v \subseteq F,
           NEW f \in DOMAIN v, f # "opcode", NEW w, HasWidth(f, w)
    PROVE  Get(Set(S, v), S, f) = Cut(v[f], w)
<1>1. WellFormed(S) /\ DOMAIN v \subseteq DOMAIN S /\ S[f][2] = w
  BY DEF Carries, HasWidth
<1> QED
  BY <1>1, GetSet

\* The device finds the opcode of every command in the same place.
LEMMA OpcodeRead ==
    ASSUME NEW S, NEW F, Carries(S, F), NEW v, DOMAIN v \subseteq F,
           "opcode" \in DOMAIN v, NEW op \in Nat, op < 2 ^ 16, v["opcode"] = op
    PROVE  Get(Set(S, v), Rst2InitIn, "opcode") = op
<1>1. WellFormed(S) /\ DOMAIN v \subseteq DOMAIN S /\ S["opcode"][1] = 0 /\ S["opcode"][2] = 16
  BY DEF Carries
<1>2. Rst2InitIn["opcode"][1] = 0 /\ Rst2InitIn["opcode"][2] = 16
  BY ModifyLayout DEF Carries
<1>3. PICK f : f = "opcode"
  OBVIOUS
<1>4. Get(Set(S, v), Rst2InitIn, f) = Cut(v[f], S[f][2])
  BY <1>1, <1>2, <1>3, GetSet
<1>5. Cut(op, 16) = op
  BY CutFits
<1> QED
  BY <1>1, <1>3, <1>4, <1>5

\* The opcodes fit their field.
LEMMA Opcodes ==
    /\ Opcode.CREATE_CQ \in Nat /\ Opcode.CREATE_CQ < 2 ^ 16
    /\ Opcode.CREATE_QP \in Nat /\ Opcode.CREATE_QP < 2 ^ 16
    /\ Opcode.RST2INIT_QP \in Nat /\ Opcode.RST2INIT_QP < 2 ^ 16
    /\ Opcode.INIT2RTR_QP \in Nat /\ Opcode.INIT2RTR_QP < 2 ^ 16
    /\ Opcode.RTR2RTS_QP \in Nat /\ Opcode.RTR2RTS_QP < 2 ^ 16
  BY SMT DEF Opcode

\* The layout in which the device reads each command.
LEMMA LayoutsOf ==
    /\ LayoutOf(Opcode.CREATE_CQ) = CreateCqIn /\ LayoutOf(Opcode.CREATE_QP) = CreateQpIn
    /\ LayoutOf(Opcode.RST2INIT_QP) = Rst2InitIn /\ LayoutOf(Opcode.INIT2RTR_QP) = Rst2InitIn
    /\ LayoutOf(Opcode.RTR2RTS_QP) = Rst2InitIn
<1>1. /\ Opcode.CREATE_CQ = 1024 /\ Opcode.CREATE_QP = 1280 /\ Opcode.RST2INIT_QP = 1282
      /\ Opcode.INIT2RTR_QP = 1283 /\ Opcode.RTR2RTS_QP = 1284
  BY SMT DEF Opcode
<1> QED
  BY <1>1, ModifyLayout, SMT DEF LayoutOf

\* What the commands change.
LEMMA TakesCq ==
    Takes(Opcode.CREATE_CQ) =
             {"cq_umem_id", "cq_umem_offset", "cq_umem_valid", "dbr_umem_valid",
              "cqe_sz", "cc", "oi", "dbr_umem_id", "log_cq_size", "uar_page", "c_eqn",
              "dbr_addr"}
  BY SMT DEF Takes, Opcode

LEMMA TakesQp ==
    Takes(Opcode.CREATE_QP) =
             {"wq_umem_id", "wq_umem_offset", "wq_umem_valid", "st", "pd", "uar_page",
              "rq_type", "cqn_snd", "log_sq_size", "dbr_umem_valid", "dbr_addr",
              "dbr_umem_id"}
  BY SMT DEF Takes, Opcode

LEMMA TakesModify ==
    /\ Takes(Opcode.RST2INIT_QP) =
             {"rwe", "rre", "rae", "atomic_mode", "vhca_port_num", "pkey_index",
              "pm_state"}
    /\ Takes(Opcode.INIT2RTR_QP) =
             {"mtu", "log_msg_max", "remote_qpn", "min_rnr_nak", "log_rra_max", "sl",
              "rlid", "rmac", "hop_limit", "src_addr_index", "udp_sport", "rgid_rip"}
    /\ Takes(Opcode.RTR2RTS_QP) =
             {"log_sra_max", "next_send_psn", "retry_count", "rnr_retry",
              "ack_timeout", "log_ack_req_freq"}
  BY SMT DEF Takes, Opcode

\* A command with the values v, in the structure the device expects of its opcode.
IsWritten(S, F, v, op) ==
    /\ Carries(S, F) /\ DOMAIN v \subseteq F
    /\ "opcode" \in DOMAIN v /\ v["opcode"] = op
    /\ op \in Nat /\ op < 2 ^ 16 /\ LayoutOf(op) = S /\ "opcode" \notin Takes(op)

\* The context c that the device makes of the context ctx.
Took(c, ctx, v, op) ==
    /\ \A f \in Takes(op) \cap DOMAIN v : \A w : HasWidth(f, w) => c[f] = Cut(v[f], w)
    /\ DOMAIN c = Takes(op) \cup DOMAIN ctx
    /\ \A f \in DOMAIN ctx : f \notin Takes(op) => c[f] = ctx[f]

\* The device takes from a command what was written.
LEMMA Applied ==
    ASSUME NEW S, NEW F, NEW v, NEW op, IsWritten(S, F, v, op), NEW ctx
    PROVE  Took(Apply(ctx, Set(S, v)), ctx, v, op)
<1>1. PICK cmd : cmd = Set(S, v)
  OBVIOUS
<1>2. Get(cmd, Rst2InitIn, "opcode") = op
  BY <1>1, OpcodeRead DEF IsWritten
<1>3. /\ DOMAIN Apply(ctx, cmd) = Takes(op) \cup DOMAIN ctx
      /\ \A f \in Takes(op) : Apply(ctx, cmd)[f] = Get(cmd, LayoutOf(op), f)
      /\ \A f \in DOMAIN ctx : f \notin Takes(op) => Apply(ctx, cmd)[f] = ctx[f]
  BY <1>2 DEF Apply, Over
<1>4. PICK c : c = Apply(ctx, cmd)
  OBVIOUS
<1>5. ASSUME NEW f \in Takes(op) \cap DOMAIN v, NEW w, HasWidth(f, w)
      PROVE  c[f] = Cut(v[f], w)
  <2>1. f # "opcode" /\ LayoutOf(op) = S /\ Carries(S, F) /\ DOMAIN v \subseteq F
    BY <1>5 DEF IsWritten
  <2>2. Get(cmd, S, f) = Cut(v[f], w)
    BY <1>1, <1>5, <2>1, FieldRead
  <2> QED
    BY <1>3, <1>4, <2>1, <2>2
<1>6. Took(c, ctx, v, op)
  BY <1>3, <1>4, <1>5 DEF Took
<1> QED
  BY <1>1, <1>4, <1>6

\* What the creation of a completion queue tells the device.
HasCq(c, offset, dbr, n, uar) ==
    /\ c["cq_umem_offset"] = offset /\ c["dbr_addr"] = dbr /\ c["log_cq_size"] = n
    /\ c["uar_page"] = uar /\ c["cqe_sz"] = CqeSize.B64

LEMMA CqContext ==
    ASSUME NEW umem, NEW offset, NEW dbr, NEW entries, NEW n \in 0 .. 15, Log2(entries) = n,
           NEW uar \in Nat, uar < 2 ^ 24, NEW eqn, NEW c,
           c = Apply(<< >>, CreateCqCmd(umem, offset, dbr, entries, uar, eqn))
    PROVE  HasCq(c, offset, dbr, n, uar)
<1>1. PICK v : v = [opcode |-> Opcode.CREATE_CQ, cq_umem_id |-> umem, cq_umem_valid |-> 1,
         cq_umem_offset |-> offset, dbr_umem_valid |-> 1, cqe_sz |-> CqeSize.B64, cc |-> 1,
         oi |-> 1, dbr_umem_id |-> umem, log_cq_size |-> Log2(entries),
         uar_page |-> uar, c_eqn |-> eqn, dbr_addr |-> dbr]
  OBVIOUS
<1>2. DOMAIN v = CreateCqFields
  BY <1>1 DEF CreateCqFields
<1>3. /\ v["opcode"] = Opcode.CREATE_CQ /\ v["cq_umem_offset"] = offset /\ v["dbr_addr"] = dbr
      /\ v["log_cq_size"] = n /\ v["uar_page"] = uar /\ v["cqe_sz"] = CqeSize.B64
  BY <1>1
<1>4. c = Apply(<< >>, Set(CreateCqIn, v))
  BY <1>1 DEF CreateCqCmd
<1>5. PICK op : op = Opcode.CREATE_CQ
  OBVIOUS
<1>6. op \in Nat /\ op < 2 ^ 16 /\ v["opcode"] = op /\ LayoutOf(op) = CreateCqIn
      /\ "opcode" \notin Takes(op)
  BY <1>3, <1>5, Opcodes, LayoutsOf, TakesCq
<1>7. IsWritten(CreateCqIn, CreateCqFields, v, op)
  BY <1>2, <1>6, CreateCqLayout DEF IsWritten, CreateCqFields
<1>8. \A f \in Takes(op) \cap DOMAIN v : \A w : HasWidth(f, w) => c[f] = Cut(v[f], w)
  <2>1. Took(Apply(<< >>, Set(CreateCqIn, v)), << >>, v, op)
    BY <1>7, Applied
  <2>2. Took(c, << >>, v, op)
    BY <1>4, <2>1
  <2> QED
    BY <2>2 DEF Took
<1>9. \A f \in {"cq_umem_offset", "dbr_addr", "log_cq_size", "uar_page", "cqe_sz"} :
         f \in Takes(op) \cap DOMAIN v
  BY <1>2, <1>5, TakesCq DEF CreateCqFields
<1>10. /\ c["cq_umem_offset"] = Cut(offset, 64) /\ c["dbr_addr"] = Cut(dbr, 64)
       /\ c["log_cq_size"] = Cut(n, 5) /\ c["uar_page"] = Cut(uar, 24)
       /\ c["cqe_sz"] = Cut(CqeSize.B64, 3)
  BY <1>3, <1>8, <1>9, Widths
<1>11. CqeSize.B64 = 0
  BY DEF CqeSize
<1>12. c["cq_umem_offset"] = offset /\ c["dbr_addr"] = dbr
  BY <1>10, CutWide
<1>13. c["log_cq_size"] = n /\ c["cqe_sz"] = CqeSize.B64
  BY <1>10, <1>11, CutSmall
<1>14. c["uar_page"] = uar
  BY <1>10, CutFits
<1> QED
  BY <1>12, <1>13, <1>14 DEF HasCq

\* What the creation of a queue pair tells the device.
HasQp(c, umem, offset, dbr, n, uar, cqn, pdn) ==
    /\ Takes(Opcode.CREATE_QP) \subseteq DOMAIN c
    /\ c["wq_umem_id"] = umem /\ c["wq_umem_offset"] = offset /\ c["wq_umem_valid"] = 1
    /\ c["dbr_umem_id"] = umem /\ c["dbr_addr"] = dbr /\ c["dbr_umem_valid"] = 1
    /\ c["log_sq_size"] = n /\ c["cqn_snd"] = cqn /\ c["uar_page"] = uar
    /\ c["pd"] = pdn /\ c["st"] = QpcStRc /\ c["rq_type"] = ZeroSizeRq

LEMMA QpContext ==
    ASSUME NEW umem, NEW offset, NEW dbr, NEW entries, NEW n \in 0 .. 15, Log2(entries) = n,
           NEW uar \in Nat, uar < 2 ^ 24, NEW cqn \in Nat, cqn < 2 ^ 24,
           NEW pdn \in Nat, pdn < 2 ^ 24, NEW c,
           c = Apply(<< >>, CreateQpCmd(umem, offset, dbr, entries, uar, cqn, pdn))
    PROVE  HasQp(c, umem, offset, dbr, n, uar, cqn, pdn)
<1>1. PICK v : v = [opcode |-> Opcode.CREATE_QP, wq_umem_id |-> umem, wq_umem_offset |-> offset,
         wq_umem_valid |-> 1, st |-> QpcStRc, pm_state |-> PmStateMigrated, pd |-> pdn,
         uar_page |-> uar, rq_type |-> ZeroSizeRq, cqn_snd |-> cqn,
         log_sq_size |-> Log2(entries), log_rq_size |-> 0, dbr_umem_valid |-> 1,
         dbr_addr |-> dbr, dbr_umem_id |-> umem, user_index |-> 0, page_offset |-> 0]
  OBVIOUS
<1>2. DOMAIN v = CreateQpFields
  BY <1>1 DEF CreateQpFields
<1>3. /\ v["opcode"] = Opcode.CREATE_QP
      /\ v["wq_umem_id"] = umem /\ v["wq_umem_offset"] = offset /\ v["wq_umem_valid"] = 1
      /\ v["dbr_umem_id"] = umem /\ v["dbr_addr"] = dbr /\ v["dbr_umem_valid"] = 1
      /\ v["log_sq_size"] = n /\ v["cqn_snd"] = cqn /\ v["uar_page"] = uar
      /\ v["pd"] = pdn /\ v["st"] = QpcStRc /\ v["rq_type"] = ZeroSizeRq
  BY <1>1
<1>4. c = Apply(<< >>, Set(CreateQpIn, v))
  BY <1>1 DEF CreateQpCmd
<1>5. PICK op : op = Opcode.CREATE_QP
  OBVIOUS
<1>6. op \in Nat /\ op < 2 ^ 16 /\ v["opcode"] = op /\ LayoutOf(op) = CreateQpIn
      /\ "opcode" \notin Takes(op)
  BY <1>3, <1>5, Opcodes, LayoutsOf, TakesQp
<1>7. IsWritten(CreateQpIn, CreateQpFields, v, op)
  BY <1>2, <1>6, CreateQpLayout DEF IsWritten, CreateQpFields
<1>8. /\ \A f \in Takes(op) \cap DOMAIN v : \A w : HasWidth(f, w) => c[f] = Cut(v[f], w)
      /\ Takes(op) \subseteq DOMAIN c
  <2>1. Took(Apply(<< >>, Set(CreateQpIn, v)), << >>, v, op)
    BY <1>7, Applied
  <2>2. Took(c, << >>, v, op)
    BY <1>4, <2>1
  <2> QED
    BY <2>2 DEF Took
<1>9. \A f \in {"wq_umem_id", "wq_umem_offset", "wq_umem_valid", "st", "pd", "uar_page",
              "rq_type", "cqn_snd", "log_sq_size", "dbr_umem_valid", "dbr_addr",
              "dbr_umem_id"} : f \in Takes(op) \cap DOMAIN v
  BY <1>2, <1>5, TakesQp DEF CreateQpFields
<1>10. /\ c["wq_umem_id"] = Cut(umem, 32) /\ c["wq_umem_offset"] = Cut(offset, 64)
       /\ c["wq_umem_valid"] = Cut(1, 1) /\ c["dbr_umem_id"] = Cut(umem, 32)
       /\ c["dbr_addr"] = Cut(dbr, 64) /\ c["dbr_umem_valid"] = Cut(1, 1)
  BY <1>3, <1>8, <1>9, Widths
<1>11. /\ c["log_sq_size"] = Cut(n, 4) /\ c["cqn_snd"] = Cut(cqn, 24)
       /\ c["uar_page"] = Cut(uar, 24) /\ c["pd"] = Cut(pdn, 24)
       /\ c["st"] = Cut(QpcStRc, 8) /\ c["rq_type"] = Cut(ZeroSizeRq, 3)
  BY <1>3, <1>8, <1>9, Widths
<1>12. QpcStRc = 0 /\ ZeroSizeRq = 3
  BY DEF QpcStRc, ZeroSizeRq
<1>13. /\ c["wq_umem_id"] = umem /\ c["wq_umem_offset"] = offset /\ c["wq_umem_valid"] = 1
       /\ c["dbr_umem_id"] = umem /\ c["dbr_addr"] = dbr /\ c["dbr_umem_valid"] = 1
  BY <1>10, CutWide, CutSmall
<1>14. /\ c["log_sq_size"] = n /\ c["st"] = QpcStRc /\ c["rq_type"] = ZeroSizeRq
       /\ c["cqn_snd"] = cqn /\ c["uar_page"] = uar /\ c["pd"] = pdn
  BY <1>11, <1>12, CutFits, CutSmall
<1> QED
  BY <1>5, <1>8, <1>13, <1>14 DEF HasQp

\* What a command leaves alone.
Keeps(c, ctx, op) ==
    /\ DOMAIN c = Takes(op) \cup DOMAIN ctx
    /\ \A f \in DOMAIN ctx : f \notin Takes(op) => c[f] = ctx[f]

\* What the device makes of rst2init, ...
LEMMA InitContext ==
    ASSUME NEW qpn, NEW pkey, NEW link, NEW ctx, NEW c,
           c = Apply(ctx, Rst2InitCmd(qpn, 1, pkey, link))
    PROVE  /\ Keeps(c, ctx, Opcode.RST2INIT_QP)
           /\ c["rwe"] = 1 /\ c["rae"] = 1 /\ c["atomic_mode"] = 3
           /\ c["vhca_port_num"] = 1 /\ c["pm_state"] = PmStateMigrated
<1>1. PICK r : r = [opcode |-> Opcode.RST2INIT_QP, qpn |-> qpn, rwe |-> 1, rre |-> 1,
                    rae |-> 1, atomic_mode |-> 3, vhca_port_num |-> 1,
                    pm_state |-> PmStateMigrated]
  OBVIOUS
<1>2. PICK s : s = IF link = "ib" THEN [pkey_index |-> pkey] ELSE << >>
  OBVIOUS
<1>3. PICK v : v = Over(r, s)
  OBVIOUS
<1>4. DOMAIN r = {"opcode", "qpn", "rwe", "rre", "rae", "atomic_mode", "vhca_port_num",
                  "pm_state"}
  BY <1>1
<1>5. DOMAIN s \subseteq {"pkey_index"}
  BY <1>2
<1>6. DOMAIN v = DOMAIN r \cup DOMAIN s /\ \A x \in DOMAIN r : v[x] = r[x]
  BY <1>3 DEF Over
<1>7. DOMAIN v \subseteq ModifyFields
  BY <1>4, <1>5, <1>6 DEF ModifyFields
<1>8. /\ r["opcode"] = Opcode.RST2INIT_QP
      /\ r["rwe"] = 1 /\ r["rae"] = 1 /\ r["atomic_mode"] = 3
      /\ r["vhca_port_num"] = 1 /\ r["pm_state"] = PmStateMigrated
  BY <1>1
<1>9. /\ v["opcode"] = Opcode.RST2INIT_QP
      /\ v["rwe"] = 1 /\ v["rae"] = 1 /\ v["atomic_mode"] = 3
      /\ v["vhca_port_num"] = 1 /\ v["pm_state"] = PmStateMigrated
  BY <1>4, <1>6, <1>8
<1>10. c = Apply(ctx, Set(Rst2InitIn, v))
  BY <1>1, <1>2, <1>3 DEF Rst2InitCmd
<1>11. PICK op : op = Opcode.RST2INIT_QP
  OBVIOUS
<1>12. op \in Nat /\ op < 2 ^ 16 /\ v["opcode"] = op /\ LayoutOf(op) = Rst2InitIn
       /\ "opcode" \notin Takes(op)
  BY <1>9, <1>11, Opcodes, LayoutsOf, TakesModify
<1>13. IsWritten(Rst2InitIn, ModifyFields, v, op)
  BY <1>4, <1>6, <1>7, <1>12, ModifyLayout DEF IsWritten
<1>14. /\ \A f \in Takes(op) \cap DOMAIN v : \A w : HasWidth(f, w) => c[f] = Cut(v[f], w)
       /\ Keeps(c, ctx, op)
  <2>1. Took(Apply(ctx, Set(Rst2InitIn, v)), ctx, v, op)
    BY <1>13, Applied
  <2>2. Took(c, ctx, v, op)
    BY <1>10, <2>1
  <2> QED
    BY <2>2 DEF Took, Keeps
<1>15. \A f \in {"rwe", "rae", "atomic_mode", "vhca_port_num", "pm_state"} :
          f \in Takes(op) \cap DOMAIN v
  BY <1>4, <1>6, <1>11, TakesModify
<1>16. /\ c["rwe"] = Cut(1, 1) /\ c["rae"] = Cut(1, 1) /\ c["atomic_mode"] = Cut(3, 4)
       /\ c["vhca_port_num"] = Cut(1, 8) /\ c["pm_state"] = Cut(PmStateMigrated, 2)
  BY <1>9, <1>14, <1>15, Widths
<1>17. PmStateMigrated = 3
  BY DEF PmStateMigrated
<1> QED
  BY <1>11, <1>14, <1>16, <1>17, CutSmall

\* ... of init2rtr ...
LEMMA RtrContext ==
    ASSUME NEW qpn, NEW remote \in Nat, remote < 2 ^ 24, NEW ah, NEW link,
           ah.dlid \in Nat, ah.dlid < 2 ^ 16, NEW ctx, NEW c,
           c = Apply(ctx, Init2RtrCmd(qpn, remote, ah, link))
    PROVE  /\ Keeps(c, ctx, Opcode.INIT2RTR_QP)
           /\ c["remote_qpn"] = remote /\ c["mtu"] = 5
           /\ link = "ib" => c["rlid"] = ah.dlid
           /\ link # "ib" => c["rgid_rip"] = ah.gid /\ c["udp_sport"] = ah.dlid
<1>1. PICK r : r = [opcode |-> Opcode.INIT2RTR_QP, qpn |-> qpn, mtu |-> 5, log_msg_max |-> 30,
                    remote_qpn |-> remote, min_rnr_nak |-> 7, log_rra_max |-> 1]
  OBVIOUS
<1>2. PICK s : s = IF link = "ib" THEN [sl |-> 0, rlid |-> ah.dlid]
                   ELSE [rmac |-> ah.gid, hop_limit |-> 255, src_addr_index |-> ah.sgid,
                         udp_sport |-> ah.dlid, rgid_rip |-> ah.gid]
  OBVIOUS
<1>3. PICK v : v = Over(r, s)
  OBVIOUS
<1>4. DOMAIN r = {"opcode", "qpn", "mtu", "log_msg_max", "remote_qpn", "min_rnr_nak",
                  "log_rra_max"}
  BY <1>1
<1>5. /\ link = "ib" => DOMAIN s = {"sl", "rlid"} /\ s["rlid"] = ah.dlid
      /\ link # "ib" => /\ DOMAIN s = {"rmac", "hop_limit", "src_addr_index", "udp_sport",
                                       "rgid_rip"}
                        /\ s["udp_sport"] = ah.dlid /\ s["rgid_rip"] = ah.gid
  BY <1>2
<1>6. /\ DOMAIN v = DOMAIN r \cup DOMAIN s /\ \A x \in DOMAIN r : v[x] = r[x]
      /\ \A x \in DOMAIN s : x \notin DOMAIN r => v[x] = s[x]
  BY <1>3 DEF Over
<1>7. DOMAIN v \subseteq ModifyFields
  BY <1>4, <1>5, <1>6 DEF ModifyFields
<1>8. r["opcode"] = Opcode.INIT2RTR_QP /\ r["remote_qpn"] = remote /\ r["mtu"] = 5
  BY <1>1
<1>9. v["opcode"] = Opcode.INIT2RTR_QP /\ v["remote_qpn"] = remote /\ v["mtu"] = 5
  BY <1>4, <1>6, <1>8
<1>10. c = Apply(ctx, Set(Rst2InitIn, v))
  BY <1>1, <1>2, <1>3 DEF Init2RtrCmd
<1>11. PICK op : op = Opcode.INIT2RTR_QP
  OBVIOUS
<1>12. op \in Nat /\ op < 2 ^ 16 /\ v["opcode"] = op /\ LayoutOf(op) = Rst2InitIn
       /\ "opcode" \notin Takes(op)
  BY <1>9, <1>11, Opcodes, LayoutsOf, TakesModify
<1>13. IsWritten(Rst2InitIn, ModifyFields, v, op)
  BY <1>4, <1>6, <1>7, <1>12, ModifyLayout DEF IsWritten
<1>14. /\ \A f \in Takes(op) \cap DOMAIN v : \A w : HasWidth(f, w) => c[f] = Cut(v[f], w)
       /\ Keeps(c, ctx, op)
  <2>1. Took(Apply(ctx, Set(Rst2InitIn, v)), ctx, v, op)
    BY <1>13, Applied
  <2>2. Took(c, ctx, v, op)
    BY <1>10, <2>1
  <2> QED
    BY <2>2 DEF Took, Keeps
<1>15. c["remote_qpn"] = remote /\ c["mtu"] = 5
  <2>1. \A f \in {"remote_qpn", "mtu"} : f \in Takes(op) \cap DOMAIN v
    BY <1>4, <1>6, <1>11, TakesModify
  <2>2. c["remote_qpn"] = Cut(remote, 24) /\ c["mtu"] = Cut(5, 3)
    BY <1>9, <1>14, <2>1, Widths
  <2> QED
    BY <2>2, CutFits, CutSmall
<1>16. ASSUME link = "ib" PROVE c["rlid"] = ah.dlid
  <2>1. "rlid" \in Takes(op) \cap DOMAIN v /\ v["rlid"] = ah.dlid
    BY <1>4, <1>5, <1>6, <1>11, <1>16, TakesModify
  <2>2. c["rlid"] = Cut(ah.dlid, 16)
    BY <1>14, <2>1, Widths
  <2> QED
    BY <2>2, CutFits
<1>17. ASSUME link # "ib" PROVE c["rgid_rip"] = ah.gid /\ c["udp_sport"] = ah.dlid
  <2>1. /\ "rgid_rip" \in Takes(op) \cap DOMAIN v /\ v["rgid_rip"] = ah.gid
        /\ "udp_sport" \in Takes(op) \cap DOMAIN v /\ v["udp_sport"] = ah.dlid
    BY <1>4, <1>5, <1>6, <1>11, <1>17, TakesModify
  <2>2. c["rgid_rip"] = Cut(ah.gid, 128) /\ c["udp_sport"] = Cut(ah.dlid, 16)
    BY <1>14, <2>1, Widths
  <2> QED
    BY <2>2, CutFits, CutWide
<1> QED
  BY <1>11, <1>14, <1>15, <1>16, <1>17

\* ... and of rtr2rts, in the layout of rst2init.
LEMMA RtsContext ==
    ASSUME NEW qpn, NEW ctx, NEW c, c = Apply(ctx, Rtr2RtsCmd(qpn))
    PROVE  Keeps(c, ctx, Opcode.RTR2RTS_QP) /\ c["retry_count"] = 7 /\ c["rnr_retry"] = 7
<1>1. PICK v : v = [opcode |-> Opcode.RTR2RTS_QP, qpn |-> qpn, log_ack_req_freq |-> 0,
         log_sra_max |-> 1, next_send_psn |-> 0, retry_count |-> 7, rnr_retry |-> 7,
         ack_timeout |-> 20]
  OBVIOUS
<1>2. DOMAIN v = {"opcode", "qpn", "log_ack_req_freq", "log_sra_max", "next_send_psn",
                  "retry_count", "rnr_retry", "ack_timeout"}
  BY <1>1
<1>3. v["opcode"] = Opcode.RTR2RTS_QP /\ v["retry_count"] = 7 /\ v["rnr_retry"] = 7
  BY <1>1
<1>4. c = Apply(ctx, Set(Rst2InitIn, v))
  BY <1>1 DEF Rtr2RtsCmd
<1>5. PICK op : op = Opcode.RTR2RTS_QP
  OBVIOUS
<1>6. op \in Nat /\ op < 2 ^ 16 /\ v["opcode"] = op /\ LayoutOf(op) = Rst2InitIn
      /\ "opcode" \notin Takes(op)
  BY <1>3, <1>5, Opcodes, LayoutsOf, TakesModify
<1>7. DOMAIN v \subseteq ModifyFields
  BY <1>2 DEF ModifyFields
<1>8. IsWritten(Rst2InitIn, ModifyFields, v, op)
  BY <1>2, <1>6, <1>7, ModifyLayout DEF IsWritten
<1>9. /\ \A f \in Takes(op) \cap DOMAIN v : \A w : HasWidth(f, w) => c[f] = Cut(v[f], w)
      /\ Keeps(c, ctx, op)
  <2>1. Took(Apply(ctx, Set(Rst2InitIn, v)), ctx, v, op)
    BY <1>8, Applied
  <2>2. Took(c, ctx, v, op)
    BY <1>4, <2>1
  <2> QED
    BY <2>2 DEF Took, Keeps
<1>10. \A f \in {"retry_count", "rnr_retry"} : f \in Takes(op) \cap DOMAIN v
  BY <1>2, <1>5, TakesModify
<1>11. c["retry_count"] = Cut(7, 3) /\ c["rnr_retry"] = Cut(7, 3)
  BY <1>3, <1>9, <1>10, Widths
<1> QED
  BY <1>5, <1>9, <1>11, CutSmall

-----------------------------------------------------------------------------
(* The numbers in the commands.                                            *)

\* The powers of two among which a ring has its size.
LEMMA Powers ==
    /\ \A k \in 0 .. 30 : 2 ^ k \in Nat
    /\ \A k \in 16 .. 30 : 2 ^ k > 2 ^ 15
<1> DEFINE P(k) == 2 ^ k
<1>1. /\ P(0) \in Nat /\ P(1) \in Nat /\ P(2) \in Nat /\ P(3) \in Nat /\ P(4) \in Nat
      /\ P(5) \in Nat /\ P(6) \in Nat /\ P(7) \in Nat /\ P(8) \in Nat /\ P(9) \in Nat
  BY SMT
<1>2. /\ P(10) \in Nat /\ P(11) \in Nat /\ P(12) \in Nat /\ P(13) \in Nat /\ P(14) \in Nat
      /\ P(15) \in Nat /\ P(16) \in Nat /\ P(17) \in Nat /\ P(18) \in Nat /\ P(19) \in Nat
  BY SMT
<1>3. /\ P(20) \in Nat /\ P(21) \in Nat /\ P(22) \in Nat /\ P(23) \in Nat /\ P(24) \in Nat
      /\ P(25) \in Nat /\ P(26) \in Nat /\ P(27) \in Nat /\ P(28) \in Nat /\ P(29) \in Nat
      /\ P(30) \in Nat
  BY SMT
<1>4. /\ P(16) > P(15) /\ P(17) > P(15) /\ P(18) > P(15) /\ P(19) > P(15)
      /\ P(20) > P(15) /\ P(21) > P(15) /\ P(22) > P(15) /\ P(23) > P(15)
  BY SMT
<1>5. /\ P(24) > P(15) /\ P(25) > P(15) /\ P(26) > P(15) /\ P(27) > P(15)
      /\ P(28) > P(15) /\ P(29) > P(15) /\ P(30) > P(15)
  BY SMT
<1> HIDE DEF P
<1>6. \A k \in 0 .. 30 : P(k) \in Nat
  BY <1>1, <1>2, <1>3
<1>7. \A k \in 16 .. 30 : P(k) > P(15)
  BY <1>4, <1>5
<1>8. \A k : P(k) = 2 ^ k
  BY Zenon DEF P
<1> QED
  BY <1>6, <1>7, <1>8, Zenon

\* A ring has a power of two of entries, whose logarithm has four bits.
LEMMA RingLog ==
    ASSUME NumbersFit
    PROVE  \E n \in 0 .. 15 : /\ Log2(RoundUpPow2(Entries)) = n
                              /\ 2 ^ n * EntryBytes = RingSize
<1>1. PICK top, e \in Nat : top = 2 ^ 15 /\ e = Entries /\ e <= top
  BY PoolAssumption DEF NumbersFit
<1>2. top \in Nat /\ \A k \in 0 .. 30 : 2 ^ k \in Nat /\ (k > 15 => 2 ^ k > top)
  BY <1>1, Powers
<1> DEFINE T == {x \in {2 ^ k : k \in 0 .. 30} : x >= e}
<1>3. T \in SUBSET Nat
  BY <1>2
<1>4. top \in T
  BY <1>1, <1>2
<1>5. Min(T) \in T /\ \A y \in T : Min(T) <= y
  <2> HIDE DEF T
  <2> QED
    BY <1>3, <1>4, MinIn
<1>6. PICK p : p = RoundUpPow2(Entries)
  OBVIOUS
<1>7. /\ p \in {2 ^ k : k \in 0 .. 30} /\ p >= e
      /\ \A k \in 0 .. 30 : 2 ^ k >= e => p <= 2 ^ k
  BY <1>1, <1>5, <1>6 DEF RoundUpPow2
<1>8. p <= top /\ p \in Nat
  BY <1>1, <1>2, <1>7
<1>9. PICK n : n = Log2(p)
  OBVIOUS
<1>10. n \in 0 .. 30 /\ 2 ^ n = p
  BY <1>7, <1>9 DEF Log2
<1>11. n \in 0 .. 15
  <2>1. n > 15 => 2 ^ n > top
    BY <1>2, <1>10
  <2>2. n > 15 => p > top
    BY <1>10, <2>1, Zenon
  <2> QED
    BY <1>8, <1>10, <2>2
<1> QED
  BY <1>6, <1>9, <1>10, <1>11 DEF RingSize

\* The number of a completion queue, as its creation command returns it.
LEMMA NumbersRead == ASSUME NEW n \in Nat PROVE Cqn(n) = Cut(64 + n, 24)
<1>1. ASSUME NEW l, NEW f, IsBody(l), f \in Names(l), f = "cqn", NEW v,
             DOMAIN v = {f}
      PROVE  Get(Set(Struct(l), v), Struct(l), f) = Cut(v[f], 24)
  <2>1. PICK S : S = Struct(l)
    OBVIOUS
  <2>2. f # ""
    BY <1>1
  <2>3. WellFormed(S) /\ f \in DOMAIN S /\ InBody(f, S[f][2])
    BY <1>1, <2>1, <2>2, BodyStruct
  <2>4. S[f][2] = 24
    BY <1>1, <2>3, Widths DEF HasWidth
  <2>5. Get(Set(S, v), S, f) = Cut(v[f], 24)
    BY <1>1, <2>3, <2>4, GetSet
  <2> QED
    BY <2>1, <2>5
<1>2. CreateCqOut = Struct(CqAnswerBits)
  BY DEF CreateCqOut, CqAnswerBits
<1>3. Cqn(n) = Cut(64 + n, 24)
  <2>1. PICK v, f : v = [cqn |-> 64 + n] /\ f = "cqn"
    OBVIOUS
  <2>2. DOMAIN v = {f} /\ v[f] = 64 + n
    BY <2>1
  <2>3. Get(Set(CreateCqOut, v), CreateCqOut, f) = Cut(v[f], 24)
    BY <1>1, <1>2, <2>1, <2>2, CqAnswerBitsBody
  <2> QED
    BY <2>1, <2>2, <2>3 DEF Cqn, CqAnswer
<1> QED
  BY <1>3

\* The number of a completion queue fits the field of the queue pair's context.
LEMMA CqnFits ==
    ASSUME NEW n \in Nat
    PROVE  Cqn(n) \in Nat /\ Cqn(n) < 2 ^ 24
<1>1. PICK m : m = 2 ^ 24
  OBVIOUS
<1>2. m \in Nat \ {0}
  BY <1>1, SMT
<1>3. Cqn(n) = (64 + n) % m
  BY <1>1, NumbersRead, SMT DEF Cut
<1>4. (64 + n) % m \in 0 .. m - 1
  BY <1>2, Remainder
<1> QED
  BY <1>1, <1>2, <1>3, <1>4

-----------------------------------------------------------------------------
(* What the device knows of the queue pairs.                               *)

\* A completion queue is known with its ring and its doorbell.
CqKnown(cq) ==
    /\ cq.ctx.cq_umem_offset = cq.cq_offset /\ cq.ctx.dbr_addr = cq.dbr_offset
    /\ 2 ^ cq.ctx.log_cq_size * EntryBytes = RingSize
    /\ cq.ctx.uar_page = cq.uar /\ cq.ctx.cqe_sz = CqeSize.B64

\* A context after the creation of the queue pair, ...
Owned(c, wq, dbr, cqn, uar) ==
    /\ Takes(Opcode.CREATE_QP) \subseteq DOMAIN c
    /\ c.wq_umem_offset = wq /\ c.dbr_addr = dbr
    /\ c.wq_umem_id = Umem /\ c.dbr_umem_id = Umem
    /\ c.wq_umem_valid = 1 /\ c.dbr_umem_valid = 1
    /\ 2 ^ c.log_sq_size * EntryBytes = RingSize
    /\ c.cqn_snd = cqn /\ c.uar_page = uar /\ c.pd = Pdn
    /\ c.st = QpcStRc /\ c.rq_type = ZeroSizeRq

\* ... after rst2init ...
Opened(c) ==
    /\ Takes(Opcode.RST2INIT_QP) \subseteq DOMAIN c
    /\ c.rwe = 1 /\ c.rae = 1 /\ c.atomic_mode = 3
    /\ c.vhca_port_num = 1 /\ c.pm_state = PmStateMigrated

\* ... and after init2rtr to the remote queue pair i.
Directed(c, i, link) ==
    /\ c.remote_qpn = RemoteQpn(i) /\ c.mtu = 5
    /\ link = "ib" => c.rlid = RemoteLid(i)
    /\ link = "roce" => c.rgid_rip = RemoteGid(PeerRank(i)) /\ c.udp_sport >= 49152

\* No later command changes what an earlier one has set.
LEMMA StaysOwned ==
    ASSUME NEW c, NEW d, NEW wq, NEW dbr, NEW cqn, NEW uar, Owned(c, wq, dbr, cqn, uar),
           NEW op \in {Opcode.RST2INIT_QP, Opcode.INIT2RTR_QP, Opcode.RTR2RTS_QP},
           Keeps(d, c, op)
    PROVE  Owned(d, wq, dbr, cqn, uar)
<1>1. Takes(Opcode.CREATE_QP) \subseteq DOMAIN c
  BY DEF Owned
<1>2. Takes(Opcode.CREATE_QP) \cap Takes(op) = {}
  BY TakesQp, TakesModify
<1>3. \A f \in Takes(Opcode.CREATE_QP) : d[f] = c[f] /\ f \in DOMAIN d
  BY <1>1, <1>2 DEF Keeps
<1>4. /\ d.wq_umem_offset = c.wq_umem_offset /\ d.dbr_addr = c.dbr_addr
      /\ d.wq_umem_id = c.wq_umem_id /\ d.dbr_umem_id = c.dbr_umem_id
      /\ d.wq_umem_valid = c.wq_umem_valid /\ d.dbr_umem_valid = c.dbr_umem_valid
      /\ d.log_sq_size = c.log_sq_size /\ d.cqn_snd = c.cqn_snd
      /\ d.uar_page = c.uar_page /\ d.pd = c.pd /\ d.st = c.st /\ d.rq_type = c.rq_type
  BY <1>3, TakesQp
<1> QED
  BY <1>3, <1>4 DEF Owned

LEMMA StaysOpened ==
    ASSUME NEW c, NEW d, Opened(c),
           NEW op \in {Opcode.INIT2RTR_QP, Opcode.RTR2RTS_QP}, Keeps(d, c, op)
    PROVE  Opened(d)
<1>1. Takes(Opcode.RST2INIT_QP) \subseteq DOMAIN c
  BY DEF Opened
<1>2. Takes(Opcode.RST2INIT_QP) \cap Takes(op) = {}
  BY TakesModify
<1>3. \A f \in Takes(Opcode.RST2INIT_QP) : d[f] = c[f] /\ f \in DOMAIN d
  BY <1>1, <1>2 DEF Keeps
<1>4. /\ d.rwe = c.rwe /\ d.rae = c.rae /\ d.atomic_mode = c.atomic_mode
      /\ d.vhca_port_num = c.vhca_port_num /\ d.pm_state = c.pm_state
  BY <1>3, TakesModify
<1> QED
  BY <1>3, <1>4 DEF Opened

LEMMA StaysDirected ==
    ASSUME NEW c, NEW d, NEW i, NEW link, Directed(c, i, link),
           Takes(Opcode.INIT2RTR_QP) \subseteq DOMAIN c, Keeps(d, c, Opcode.RTR2RTS_QP)
    PROVE  Directed(d, i, link)
<1>1. Takes(Opcode.INIT2RTR_QP) \cap Takes(Opcode.RTR2RTS_QP) = {}
  BY TakesModify
<1>2. \A f \in Takes(Opcode.INIT2RTR_QP) : d[f] = c[f]
  BY <1>1 DEF Keeps
<1>3. /\ d.remote_qpn = c.remote_qpn /\ d.mtu = c.mtu /\ d.rlid = c.rlid
      /\ d.rgid_rip = c.rgid_rip /\ d.udp_sport = c.udp_sport
  BY <1>2, TakesModify
<1> QED
  BY <1>3 DEF Directed

-----------------------------------------------------------------------------
(* The commands of one creation and of one connection.                     *)

\* The creations have numbers that fit.
Numbered(n) == n \in Nat /\ n <= QpCount * (MaxUpdates + 1) - 1

\* The pages of a creation have numbers of 24 bits.
LEMMA UarsFit ==
    ASSUME NumbersFit, NEW n, Numbered(n)
    PROVE  /\ QpUar(n) \in Nat /\ QpUar(n) < 2 ^ 24
           /\ CqUar(n) \in Nat /\ CqUar(n) < 2 ^ 24
<1>1. PICK m : m = 2 ^ 24
  OBVIOUS
<1>2. m \in Nat
  BY <1>1, SMT
<1>3. PICK k \in Nat : k = QpCount * (MaxUpdates + 1)
  BY PoolAssumption
<1>4. n \in Nat /\ n \in 0 .. QpCount * (MaxUpdates + 1) - 1
  BY <1>3 DEF Numbered
<1>5. QpUar(n) < 2 ^ 24
  BY <1>4 DEF NumbersFit
<1>6. 2 * n + 1 < m
  BY <1>1, <1>5 DEF QpUar
<1>7. QpUar(n) \in Nat /\ QpUar(n) < m /\ CqUar(n) \in Nat /\ CqUar(n) < m
  BY <1>2, <1>4, <1>6 DEF QpUar, CqUar
<1> QED
  BY <1>1, <1>7

\* A completion queue that mlx5gda_create_cq returns is known to the device.
LEMMA CreateCqKnown ==
    ASSUME NumbersFit, NEW s, NEW f, NEW n, Numbered(n)
    PROVE  LET cq == CreateCq(s, f, n).cq
           IN cq = NoQp \/ (cq.cqn = Cqn(n) /\ CqKnown(cq))
<1>1. PICK q : q = AllocQueue(s.heap, f = "cqRing")
  OBVIOUS
<1>2. PICK entries : entries = RoundUpPow2(Entries)
  OBVIOUS
<1>3. PICK k \in 0 .. 15 : Log2(entries) = k /\ 2 ^ k * EntryBytes = RingSize
  BY <1>2, RingLog
<1>4. PICK uar \in Nat : uar = CqUar(n) /\ uar < 2 ^ 24
  BY UarsFit
<1>5. PICK offset, dbr : offset = q.ring /\ dbr = q.dbr
  OBVIOUS
<1>6. PICK c : c = Apply(<< >>, CreateCqCmd(Umem, offset, dbr, entries, uar, Eqn))
  OBVIOUS
<1>7. /\ c.cq_umem_offset = offset /\ c.dbr_addr = dbr /\ c.log_cq_size = k
      /\ c.uar_page = uar /\ c.cqe_sz = CqeSize.B64
  <2>1. PICK umem, eqn : umem = Umem /\ eqn = Eqn
    OBVIOUS
  <2>2. c = Apply(<< >>, CreateCqCmd(umem, offset, dbr, entries, uar, eqn))
    BY <1>6, <2>1
  <2>3. Log2(entries) = k /\ uar < 2 ^ 24
    BY <1>3, <1>4
  <2>4. /\ c["cq_umem_offset"] = offset /\ c["dbr_addr"] = dbr /\ c["log_cq_size"] = k
        /\ c["uar_page"] = uar /\ c["cqe_sz"] = CqeSize.B64
    <3>1. HasCq(c, offset, dbr, k, uar)
      BY <2>2, <2>3, CqContext
    <3> QED
      BY <3>1 DEF HasCq
  <2> QED
    BY <2>4
<1>8. PICK cq : cq = Cq(uar, Cqn(n), entries, offset, dbr, c)
  OBVIOUS
<1>9. cq.cqn = Cqn(n) /\ cq.cq_offset = offset /\ cq.dbr_offset = dbr /\ cq.uar = uar
      /\ cq.ctx = c
  BY <1>8 DEF Cq
<1>10. CqKnown(cq)
  BY <1>3, <1>7, <1>9 DEF CqKnown
<1>11. CreateCq(s, f, n).cq = NoQp \/ CreateCq(s, f, n).cq = cq
  BY <1>1, <1>2, <1>4, <1>5, <1>6, <1>8 DEF CreateCq
<1> QED
  BY <1>9, <1>10, <1>11

\* The queue pair q of a machine with the given link layer is what the creation and, if it
\* is not in reset any more, rst2init made it.
Known(q, link) ==
    /\ q.port_num = 1 /\ q.link_layer = link
    /\ CqKnown(q.send_cq)
    /\ Owned(q.ctx, q.wq_offset, q.dbr_offset, q.send_cq.cqn, q.uar)

\* A queue pair that mlx5gda_create_rc_qp returns is known to the device.
LEMMA CreateKnown ==
    ASSUME NumbersFit, NEW h, NEW o, NEW f, NEW n, Numbered(n)
    PROVE  LET qp == CreateRcQp([heap |-> h, objs |-> o], f, n).qp
           IN qp = NoQp \/ Known(qp, host.link)
<1> DEFINE s == [heap |-> h, objs |-> o]
           made == CreateRcQp(s, f, n)
           c == CreateCq(s, f, n)
           uars == CreateUar(c.objs, QpUar(n), f)
           q == AllocQueue(c.heap, FALSE)
<1>1. CASE f = "query" \/ ~VersionSupported(HcaCap)
  <2>1. made = [heap |-> h, objs |-> o, qp |-> NoQp]
    BY <1>1 DEF CreateRcQp
  <2> QED
    BY <2>1
<1>2. CASE ~(f = "query" \/ ~VersionSupported(HcaCap))
  <2>1. CASE c.cq = NoQp
    <3>1. made = [heap |-> c.heap, objs |-> c.objs, qp |-> NoQp]
      BY <1>2, <2>1 DEF CreateRcQp
    <3> HIDE DEF c
    <3> QED
      BY <3>1
  <2>2. CASE c.cq # NoQp /\ Uar(QpUar(n)) \notin uars
    <3>1. made = GiveUp([heap |-> c.heap, objs |-> uars], QpUar(n), c.cq, Nowhere, Nowhere)
      BY <1>2, <2>2 DEF CreateRcQp
    <3> HIDE DEF c, uars
    <3> QED
      BY <3>1 DEF GiveUp
  <2>3. CASE c.cq # NoQp /\ Uar(QpUar(n)) \in uars /\ (q.dbr = Nowhere \/ f = "qpObject")
    <3>1. made = GiveUp([heap |-> q.heap, objs |-> uars], QpUar(n), c.cq, q.ring, q.dbr)
      BY <1>2, <2>3 DEF CreateRcQp
    <3> HIDE DEF q, uars, c
    <3> QED
      BY <3>1 DEF GiveUp
  <2>4. CASE c.cq # NoQp /\ Uar(QpUar(n)) \in uars /\ ~(q.dbr = Nowhere \/ f = "qpObject")
    <3> DEFINE ctx == Apply(<< >>, CreateQpCmd(Umem, q.ring, q.dbr, RoundUpPow2(Entries),
                                               QpUar(n), c.cq.cqn, Pdn))
               qp == Qp(c.cq, QpUar(n), Qpn(n), RoundUpPow2(Entries), q.ring, q.dbr, ctx)
    <3>1. made = [heap |-> q.heap, objs |-> uars \cup {QpObj(Qpn(n))}, qp |-> qp]
      BY <1>2, <2>4 DEF CreateRcQp
    <3>2. c.cq.cqn = Cqn(n) /\ CqKnown(c.cq)
      BY <2>4, CreateCqKnown
    <3> HIDE DEF c
    <3>3. PICK cq, wq, dbr, uar, cqn : /\ cq = c.cq /\ wq = q.ring /\ dbr = q.dbr
                                       /\ uar = QpUar(n) /\ cqn = cq.cqn
      OBVIOUS
    <3> HIDE DEF q
    <3>4. PICK entries, umem, pdn : /\ entries = RoundUpPow2(Entries)
                                    /\ umem = Umem /\ pdn = Pdn
      OBVIOUS
    <3>5. ctx = Apply(<< >>, CreateQpCmd(umem, wq, dbr, entries, uar, cqn, pdn))
      BY <3>3, <3>4
    <3>6. PICK k \in 0 .. 15 : Log2(entries) = k /\ 2 ^ k * EntryBytes = RingSize
      BY <3>4, RingLog
    <3>7. uar \in Nat /\ uar < 2 ^ 24 /\ cqn \in Nat /\ cqn < 2 ^ 24
      BY <3>2, <3>3, UarsFit, CqnFits DEF Numbered
    <3>8. pdn \in Nat /\ pdn < 2 ^ 24
      <4>1. 3 \in Nat /\ 3 < 2 ^ 24
        BY SMT
      <4> QED
        BY <3>4, <4>1, Zenon DEF Pdn
    <3>9. PICK x : x = ctx
      OBVIOUS
    <3>10. Owned(x, wq, dbr, cqn, uar)
      <4>1. x = Apply(<< >>, CreateQpCmd(umem, wq, dbr, entries, uar, cqn, pdn))
        BY <3>5, <3>9
      <4>2. Log2(entries) = k
        BY <3>6
      <4>3. /\ Takes(Opcode.CREATE_QP) \subseteq DOMAIN x
            /\ x["wq_umem_id"] = umem /\ x["wq_umem_offset"] = wq /\ x["wq_umem_valid"] = 1
            /\ x["dbr_umem_id"] = umem /\ x["dbr_addr"] = dbr /\ x["dbr_umem_valid"] = 1
            /\ x["log_sq_size"] = k /\ x["cqn_snd"] = cqn /\ x["uar_page"] = uar
            /\ x["pd"] = pdn /\ x["st"] = QpcStRc /\ x["rq_type"] = ZeroSizeRq
        <5>1. HasQp(x, umem, wq, dbr, k, uar, cqn, pdn)
          BY <3>7, <3>8, <4>1, <4>2, QpContext
        <5> QED
          BY <5>1 DEF HasQp
      <4> QED
        BY <3>4, <3>6, <4>3 DEF Owned
    <3>11. PICK y : y = qp
      OBVIOUS
    <3>12. /\ y.port_num = 1 /\ y.link_layer = host.link /\ y.send_cq = cq
           /\ y.wq_offset = wq /\ y.dbr_offset = dbr /\ y.uar = uar /\ y.ctx = x
      <4> HIDE DEF ctx
      <4> QED
        BY <3>3, <3>9, <3>11 DEF Qp
    <3>13. Known(y, host.link)
      BY <3>2, <3>3, <3>10, <3>12 DEF Known
    <3> HIDE DEF qp
    <3> QED
      BY <3>1, <3>11, <3>13
  <2> QED
    BY <2>1, <2>2, <2>3, <2>4
<1> QED
  BY <1>1, <1>2

\* rst2init sets what it is for and leaves the rest.
LEMMA OpenKnown ==
    ASSUME NEW q, NEW link, IsQp(q), Known(q, link)
    PROVE  Known(Rst2Init(q), link) /\ Opened(Rst2Init(q).ctx)
<1>1. PICK x : x = Apply(q.ctx, Rst2InitCmd(q.qpn, 1, 0, q.link_layer))
  OBVIOUS
<1>2. PICK z : z = [q EXCEPT !.state = "init", !.ctx = x]
  OBVIOUS
<1>3. Rst2Init(q) = z
  <2>1. q.port_num = 1
    BY DEF Known
  <2> QED
    BY <1>1, <1>2, <2>1 DEF Rst2Init
<1>4. /\ z.ctx = x /\ z.port_num = q.port_num /\ z.link_layer = q.link_layer
      /\ z.send_cq = q.send_cq /\ z.wq_offset = q.wq_offset /\ z.dbr_offset = q.dbr_offset
      /\ z.uar = q.uar
  BY <1>2 DEF IsQp, QpFields
<1>5. /\ Keeps(x, q.ctx, Opcode.RST2INIT_QP)
      /\ x["rwe"] = 1 /\ x["rae"] = 1 /\ x["atomic_mode"] = 3
      /\ x["vhca_port_num"] = 1 /\ x["pm_state"] = PmStateMigrated
  <2>1. PICK qpn, pkey, lnk, ctx : /\ qpn = q.qpn /\ pkey = 0
                                   /\ lnk = q.link_layer /\ ctx = q.ctx
    OBVIOUS
  <2>2. x = Apply(ctx, Rst2InitCmd(qpn, 1, pkey, lnk))
    BY <1>1, <2>1
  <2>3. /\ Keeps(x, ctx, Opcode.RST2INIT_QP)
        /\ x["rwe"] = 1 /\ x["rae"] = 1 /\ x["atomic_mode"] = 3
        /\ x["vhca_port_num"] = 1 /\ x["pm_state"] = PmStateMigrated
    BY <2>2, InitContext
  <2> QED
    BY <2>1, <2>3
<1>6. Opened(x)
  BY <1>5 DEF Opened, Keeps
<1>7. Owned(x, q.wq_offset, q.dbr_offset, q.send_cq.cqn, q.uar)
  <2>1. Owned(q.ctx, q.wq_offset, q.dbr_offset, q.send_cq.cqn, q.uar)
    BY DEF Known
  <2> QED
    BY <1>5, <2>1, StaysOwned
<1>8. Known(z, link)
  BY <1>4, <1>7 DEF Known
<1> QED
  BY <1>3, <1>4, <1>6, <1>8

\* An address vector that leads to the remote end of queue pair i.
LeadsTo(ah, i, link) ==
    /\ ah.dlid \in Nat /\ ah.dlid < 2 ^ 16
    /\ link = "ib" => ah.dlid = RemoteLid(i)
    /\ link = "roce" => ah.gid = RemoteGid(PeerRank(i)) /\ ah.dlid >= 49152

\* A connected queue pair has all the commands behind it.
Linked(q, i, link) ==
    /\ Known(q, link) /\ Opened(q.ctx) /\ Directed(q.ctx, i, link)
    /\ q.ctx.retry_count = 7 /\ q.ctx.rnr_retry = 7

\* init2rtr and rtr2rts connect a queue pair that was known.
LEMMA ConnectKnown ==
    ASSUME NumbersFit, NEW q, NEW link \in {"ib", "roce"}, IsQp(q), Known(q, link),
           Opened(q.ctx), NEW i \in Index, NEW ah, LeadsTo(ah, i, link)
    PROVE  Linked(Rtr2Rts(Init2Rtr(q, RemoteQpn(i), ah)), i, link)
<1>1. PICK remote : remote = RemoteQpn(i)
  OBVIOUS
<1>2. remote \in Nat /\ remote < 2 ^ 24
  <2>1. RemoteQpn(i) < 2 ^ 24
    BY DEF NumbersFit
  <2>2. RemoteQpn(i) \in Nat
    BY PoolNumbers DEF RemoteQpn, Index
  <2> QED
    BY <1>1, <2>1, <2>2
<1>3. PICK qpn, ctx : qpn = q.qpn /\ ctx = q.ctx
  OBVIOUS
<1>4. q.link_layer = link
  BY DEF Known
<1>5. PICK x : x = Apply(ctx, Init2RtrCmd(qpn, remote, ah, link))
  OBVIOUS
<1>6. PICK y : y = [q EXCEPT !.state = "rtr", !.ctx = x]
  OBVIOUS
<1>7. Init2Rtr(q, remote, ah) = y
  BY <1>3, <1>4, <1>5, <1>6 DEF Init2Rtr
<1>8. y.ctx = x /\ y.qpn = qpn /\ \A f \in QpFields \ {"state", "ctx"} : y[f] = q[f]
  BY <1>3, <1>6 DEF IsQp, QpFields
<1>9. IsQp(y)
  BY <1>6 DEF IsQp, QpFields
<1>10. PICK w : w = Apply(x, Rtr2RtsCmd(qpn))
  OBVIOUS
<1>11. PICK z : z = [y EXCEPT !.state = "rts", !.ctx = w]
  OBVIOUS
<1>12. Rtr2Rts(y) = z
  BY <1>8, <1>10, <1>11 DEF Rtr2Rts
<1>13. z.ctx = w /\ \A f \in QpFields \ {"state", "ctx"} : z[f] = y[f]
  BY <1>9, <1>11 DEF IsQp, QpFields
<1>14. /\ z.port_num = q.port_num /\ z.link_layer = q.link_layer
       /\ z.send_cq = q.send_cq /\ z.wq_offset = q.wq_offset /\ z.dbr_offset = q.dbr_offset
       /\ z.uar = q.uar
  BY <1>8, <1>13 DEF QpFields
<1>15. /\ Keeps(x, ctx, Opcode.INIT2RTR_QP)
       /\ x["remote_qpn"] = remote /\ x["mtu"] = 5
       /\ link = "ib" => x["rlid"] = ah.dlid
       /\ link # "ib" => x["rgid_rip"] = ah.gid /\ x["udp_sport"] = ah.dlid
  <2>1. ah.dlid \in Nat /\ ah.dlid < 2 ^ 16
    BY DEF LeadsTo
  <2> QED
    BY <1>2, <1>5, <2>1, RtrContext
<1>16. Keeps(w, x, Opcode.RTR2RTS_QP) /\ w["retry_count"] = 7 /\ w["rnr_retry"] = 7
  BY <1>10, RtsContext
<1>17. Directed(x, i, link)
  BY <1>1, <1>15 DEF Directed, LeadsTo
<1>18. Takes(Opcode.INIT2RTR_QP) \subseteq DOMAIN x
  BY <1>15 DEF Keeps
<1>19. Directed(w, i, link)
  BY <1>16, <1>17, <1>18, StaysDirected
<1>20. Opened(w)
  <2>1. Opened(x)
    BY <1>3, <1>15, StaysOpened
  <2> QED
    BY <1>16, <2>1, StaysOpened
<1>21. Owned(w, q.wq_offset, q.dbr_offset, q.send_cq.cqn, q.uar)
  <2>1. PICK wq, dbr, cqn, uar : /\ wq = q.wq_offset /\ dbr = q.dbr_offset
                                 /\ cqn = q.send_cq.cqn /\ uar = q.uar
    OBVIOUS
  <2>2. Owned(ctx, wq, dbr, cqn, uar)
    BY <1>3, <2>1 DEF Known
  <2>3. Owned(x, wq, dbr, cqn, uar)
    BY <1>15, <2>2, StaysOwned
  <2>4. Owned(w, wq, dbr, cqn, uar)
    BY <1>16, <2>3, StaysOwned
  <2> QED
    BY <2>1, <2>4
<1>22. Known(z, link)
  BY <1>13, <1>14, <1>21 DEF Known
<1>23. Linked(z, i, link)
  BY <1>13, <1>16, <1>19, <1>20, <1>22 DEF Linked
<1> QED
  BY <1>1, <1>7, <1>12, <1>23

-----------------------------------------------------------------------------
(* The invariant.                                                          *)

\* Queue pair i is known to the device as far as it has come.
AsFarAs(q, i, link) ==
    /\ Known(q, link) /\ Opened(q.ctx)
    /\ q.state = "rts" => Linked(q, i, link)

\* Every queue pair is, and the numbers of the creations have not run out.
KnownInv ==
    /\ created \in Nat /\ created <= Budget(phase, updates, next)
    /\ \A i \in Index : qps[i] # NoQp => AsFarAs(qps[i], i, host.link)

\* No queue pair exists at first.
LEMMA KnownStart == ASSUME Init PROVE KnownInv
<1>1. /\ created = 0 /\ updates = 0 /\ next = 0 /\ phase = "constructing"
      /\ qps = [i \in Index |-> NoQp]
  BY DEF Init, PoolInit
<1>2. Budget(phase, updates, next) = 0
  BY <1>1, PoolNumbers DEF Budget
<1> QED
  BY <1>1, <1>2 DEF KnownInv

\* Steps that leave the queue pairs and the loop index alone.
LEMMA KnownFrame ==
    ASSUME KnownInv, SetupInv, host' = host, qps' = qps, created' = created,
           updates' = updates, next' = next,
           \/ phase' = phase
           \/ phase = "constructing" /\ phase' = "creating"
           \/ /\ phase # "destroying"
              /\ phase' \in {"workspace", "ready", "thrown", "exited", "destroyed"}
    PROVE  KnownInv'
<1>1. next \in Index /\ QpCount \in Nat \ {0} /\ updates \in Nat
  BY PoolNumbers DEF SetupInv, Typed
<1>2. created' \in Nat /\ created' <= Budget(phase', updates', next')
  <2>1. created \in Nat /\ created <= Budget(phase, updates, next)
    BY DEF KnownInv
  <2>2. PICK b \in Int : b = QpCount * updates
    BY <1>1
  <2>3. next <= QpCount /\ next \in Nat
    BY <1>1 DEF Index
  <2>4. Budget(phase, updates, next) <= Budget(phase', updates, next)
    BY <1>1, <2>2, <2>3 DEF Budget
  <2>5. Budget(phase, updates, next) \in Int /\ Budget(phase', updates, next) \in Int
    BY <1>1, <2>2, <2>3 DEF Budget
  <2> QED
    BY <2>1, <2>4, <2>5
<1>3. \A i \in Index : qps'[i] # NoQp => AsFarAs(qps'[i], i, host'.link)
  BY DEF KnownInv
<1> QED
  BY <1>2, <1>3 DEF KnownInv

\* A new round of creations has numbers of its own.
LEMMA UpdateKnown == ASSUME KnownInv, SetupInv, Update PROVE KnownInv'
<1>1. /\ phase = "ready" /\ phase' = "destroying" /\ next' = 0 /\ updates' = updates + 1
      /\ host' = host /\ qps' = qps /\ created' = created
  BY DEF Update, UpdateLocalQpns
<1>2. created' \in Nat /\ created' <= Budget(phase', updates', next')
  <2>1. PICK q \in Nat, u \in Nat : q = QpCount /\ u = updates
    BY PoolNumbers DEF SetupInv, Typed
  <2>2. q * (u + 1) = q * u + q
    OBVIOUS
  <2> QED
    BY <1>1, <2>1, <2>2 DEF KnownInv, Budget
<1>3. \A i \in Index : qps'[i] # NoQp => AsFarAs(qps'[i], i, host'.link)
  BY <1>1 DEF KnownInv
<1> QED
  BY <1>2, <1>3 DEF KnownInv

\* A destruction forgets one queue pair.
LEMMA DestroyOneKnown == ASSUME KnownInv, SetupInv, DestroyOne PROVE KnownInv'
<1>1. /\ phase = "destroying" /\ qps' = [qps EXCEPT ![next] = NoQp] /\ Advance("recreating")
      /\ host' = host /\ created' = created /\ updates' = updates
  BY DEF DestroyOne
<1>2. /\ next \in Index /\ QpCount \in Nat \ {0} /\ updates \in Nat
      /\ qps = [i \in Index |-> qps[i]]
  BY PoolNumbers DEF SetupInv, Typed
<1>3. created' \in Nat /\ created' <= Budget(phase', updates', next')
  <2>1. PICK b \in Int : b = QpCount * updates
    BY <1>2
  <2>2. created \in Nat /\ created <= b + 0
    BY <1>1, <2>1 DEF KnownInv, Budget
  <2>3. (phase' = "recreating" /\ next' = 0) \/ phase' = "destroying"
    BY <1>1, <1>2, AdvanceIn
  <2>4. Budget(phase', updates', next') = b + 0
    BY <1>1, <2>1, <2>3 DEF Budget
  <2> QED
    BY <1>1, <2>2, <2>4
<1>4. ASSUME NEW i \in Index, qps'[i] # NoQp PROVE AsFarAs(qps'[i], i, host'.link)
  <2>1. i # next
    BY <1>1, <1>2, <1>4
  <2>2. qps'[i] = qps[i]
    BY <1>1, <1>2, <2>1
  <2> QED
    BY <1>1, <1>4, <2>2 DEF KnownInv
<1> QED
  BY <1>3, <1>4 DEF KnownInv

\* A creation adds one that the device knows, or none.
LEMMA CreateOneKnown ==
    ASSUME NumbersFit, KnownInv, SetupInv, NEW f, CreateOne(f)
    PROVE  KnownInv'
<1> DEFINE made == CreateRcQp([heap |-> heap, objs |-> objs], f, created)
           bad == made.qp = NoQp \/ f = "rst2init"
           done == IF phase = "creating" THEN "workspace" ELSE "ready"
<1>1. /\ phase \in {"creating", "recreating"} /\ host' = host
      /\ created' = created + 1 /\ updates' = updates
      /\ IF bad THEN phase' = done /\ next' = 0 /\ qps' = qps
         ELSE qps' = [qps EXCEPT ![next] = Rst2Init(made.qp)] /\ Advance(done)
  BY DEF CreateOne
<1>2. /\ next \in Index /\ next \in Nat /\ next < QpCount /\ QpCount \in Nat \ {0}
      /\ updates \in 0 .. MaxUpdates /\ updates \in Nat /\ MaxUpdates \in Nat
      /\ qps = [i \in Index |-> qps[i]]
  BY PoolNumbers, PoolAssumption DEF SetupInv, Typed, Index
<1>3. PICK b \in Int : b = QpCount * updates
  BY <1>2
<1>4. created \in Nat /\ created <= b + next
  BY <1>1, <1>3 DEF KnownInv, Budget
<1>5. Numbered(created)
  <2>1. created \in 0 .. QpCount * (MaxUpdates + 1) - 1
    BY <1>2, <1>3, <1>4, BudgetBound
  <2> QED
    BY <1>4, <2>1 DEF Numbered
<1>6. /\ made.qp = NoQp \/ (IsQp(made.qp) /\ made.qp.state = "reset")
      /\ made.qp = NoQp \/ Known(made.qp, host.link)
  BY <1>5, CreateOK, CreateKnown DEF SetupInv, Typed
<1> HIDE DEF made
<1>7. done \in {"workspace", "ready"}
  OBVIOUS
<1>8. ASSUME ~bad
      PROVE  IF next = QpCount - 1 THEN phase' = done /\ next' = 0
             ELSE phase' = phase /\ next' = next + 1
  BY <1>1, <1>2, <1>8, AdvanceIn
<1>9. created' \in Nat /\ created' <= Budget(phase', updates', next')
  <2>1. CASE phase' = done
    <3>1. Budget(phase', updates', next') = b + QpCount
      BY <1>1, <1>3, <1>7, <2>1 DEF Budget
    <3> QED
      BY <1>1, <1>2, <1>4, <3>1
  <2>2. CASE phase' = phase /\ next' = next + 1
    <3>1. Budget(phase', updates', next') = b + (next + 1)
      BY <1>1, <1>3, <2>2 DEF Budget
    <3> QED
      BY <1>1, <1>2, <1>4, <3>1
  <2> QED
    BY <1>1, <1>8, <2>1, <2>2
<1>10. ASSUME NEW i \in Index, qps'[i] # NoQp PROVE AsFarAs(qps'[i], i, host'.link)
  <2>1. CASE qps'[i] = qps[i]
    BY <1>1, <1>10, <2>1 DEF KnownInv
  <2>2. CASE qps'[i] # qps[i]
    <3>1. ~bad
      BY <1>1, <2>2
    <3>2. qps' = [qps EXCEPT ![next] = Rst2Init(made.qp)]
      BY <1>1, <3>1
    <3>3. i = next
      BY <1>2, <2>2, <3>2
    <3>4. PICK z : z = Rst2Init(made.qp)
      OBVIOUS
    <3>5. qps'[i] = z
      BY <1>2, <3>2, <3>3, <3>4
    <3>6. z.state = "init" /\ Known(z, host.link) /\ Opened(z.ctx)
      BY <1>6, <3>1, <3>4, Rst2InitIs, OpenKnown
    <3>7. AsFarAs(z, i, host.link)
      BY <3>6 DEF AsFarAs
    <3> QED
      BY <1>1, <3>5, <3>7
  <2> QED
    BY <2>1, <2>2
<1> QED
  BY <1>9, <1>10 DEF KnownInv

\* The address vectors of sync_ib, where the device accepts them, and of sync_roce.
LEMMA AddressesLead ==
    ASSUME NumbersFit, NEW i \in Index
    PROVE  /\ LeadsTo(IbAh(i), i, "ib")
           /\ \A g : LeadsTo(RoceAh(i, g), i, "roce")
<1>1. RemoteLid(i) \in Nat /\ RemoteLid(i) < 2 ^ 16
  <2>1. PeerRank(i) \in Nat
    <3>1. PICK n \in Nat \ {0}, q \in Nat \ {0}, k \in Nat :
             n = NumRanks /\ q = QpCount /\ k = i
      BY PoolAssumption, PoolNumbers DEF Index
    <3>2. PICK m \in Nat : m = k * n
      BY <3>1
    <3>3. m \div q \in Nat
      OBVIOUS
    <3> QED
      BY <3>1, <3>2, <3>3 DEF PeerRank
  <2> QED
    BY <2>1 DEF NumbersFit, RemoteLid
<1>2. IbAh(i).dlid = RemoteLid(i)
  BY DEF IbAh
<1>3. LeadsTo(IbAh(i), i, "ib")
  BY <1>1, <1>2 DEF LeadsTo
<1>4. ASSUME NEW g PROVE LeadsTo(RoceAh(i, g), i, "roce")
  <2>1. PICK d : d = (LocalLid % 16384) + 49152
    OBVIOUS
  <2>2. RoceAh(i, g).dlid = d /\ RoceAh(i, g).gid = RemoteGid(PeerRank(i))
    BY <2>1 DEF RoceAh
  <2>3. d \in Nat /\ d < 2 ^ 16 /\ d >= 49152
    BY <2>1, SMT DEF LocalLid
  <2> QED
    BY <2>2, <2>3 DEF LeadsTo
<1> QED
  BY <1>3, <1>4

\* A connection with the right address vectors.
LEMMA SyncKnown ==
    ASSUME NumbersFit, KnownInv, SetupInv, NEW mask, NEW ah, Sync(mask, ah),
           \A i \in Index : AhAccepted(ah[i]) => LeadsTo(ah[i], i, host.link)
    PROVE  KnownInv'
<1>1. /\ host' = host /\ next' = next /\ created' = created /\ updates' = updates
      /\ phase = "ready" /\ phase' \in {"ready", "exited"}
  BY DEF Sync, ConnectAll
<1>2. CASE qps' = qps
  BY <1>1, <1>2, KnownFrame
<1>3. CASE qps' # qps
  <2> DEFINE mine == {j \in Index : PeerRank(j) \in mask}
  <2>1. /\ phase' = phase /\ \A j \in mine : qps[j].state = "init" /\ AhAccepted(ah[j])
        /\ qps' = [j \in Index |-> IF j \in mine
                                   THEN Rtr2Rts(Init2Rtr(qps[j], RemoteQpn(j), ah[j]))
                                   ELSE qps[j]]
    BY <1>1, <1>3 DEF Sync, ConnectAll
  <2>2. created' \in Nat /\ created' <= Budget(phase', updates', next')
    BY <1>1, <2>1 DEF KnownInv
  <2>3. host.link \in {"ib", "roce"}
    BY SetupAssumption DEF SetupInv, Typed
  <2>4. ASSUME NEW i \in Index, qps'[i] # NoQp PROVE AsFarAs(qps'[i], i, host.link)
    <3>1. CASE i \in mine
      <4>1. PICK q, a, l, z : /\ q = qps[i] /\ a = ah[i] /\ l = host.link
                              /\ z = Rtr2Rts(Init2Rtr(q, RemoteQpn(i), a))
        OBVIOUS
      <4>2. q.state = "init" /\ qps'[i] = z /\ LeadsTo(a, i, l) /\ l \in {"ib", "roce"}
        BY <2>1, <2>3, <3>1, <4>1
      <4>3. q # NoQp /\ IsQp(q)
        BY <4>1, <4>2 DEF SetupInv, Typed, Slot, NoQp
      <4>4. Known(q, l) /\ Opened(q.ctx)
        BY <4>1, <4>3 DEF KnownInv, AsFarAs
      <4>5. Linked(z, i, l)
        BY <4>1, <4>2, <4>3, <4>4, ConnectKnown
      <4> QED
        BY <4>1, <4>2, <4>5 DEF AsFarAs, Linked
    <3>2. CASE i \notin mine
      <4>1. qps'[i] = qps[i]
        BY <2>1, <3>2
      <4> QED
        BY <2>4, <4>1 DEF KnownInv
    <3> QED
      BY <3>1, <3>2
  <2> QED
    BY <1>1, <2>2, <2>4 DEF KnownInv
<1> QED
  BY <1>2, <1>3

\* Every step keeps the invariant.
LEMMA KnownStep ==
    ASSUME NumbersFit, SetupInv, KnownInv, [Next]_vars
    PROVE  KnownInv'
<1> DEFINE Ended == {"workspace", "ready", "thrown", "exited", "destroyed"}
           Same == /\ host' = host /\ qps' = qps /\ created' = created /\ updates' = updates
                   /\ next' = next
           Moves == \/ phase' = phase
                    \/ phase = "constructing" /\ phase' = "creating"
                    \/ phase # "destroying" /\ phase' \in Ended
<1>1. CASE CallSucceeds \/ CallFails
  <2>1. Same /\ Moves
    BY <1>1 DEF CallSucceeds, CallFails
  <2> QED
    BY <2>1, KnownFrame
<1>2. CASE Workspace \/ Destroy
  <2>1. Same /\ Moves
    BY <1>2 DEF Workspace, Destroy
  <2> QED
    BY <2>1, KnownFrame
<1>3. CASE Pool
  BY <1>3, CreateOneKnown, DestroyOneKnown DEF Pool
<1>4. CASE Update
  BY <1>4, UpdateKnown
<1>5. ASSUME NEW mask, SyncIb(mask) PROVE KnownInv'
  <2>1. PICK ah : ah = [i \in Index |-> IbAh(i)]
    OBVIOUS
  <2>2. Sync(mask, ah)
    BY <1>5, <2>1 DEF SyncIb
  <2>3. ASSUME NEW i \in Index, AhAccepted(ah[i]) PROVE LeadsTo(ah[i], i, host.link)
    <3>1. ah[i] = IbAh(i) /\ IbAh(i).port = 0
      BY <2>1 DEF IbAh
    <3>2. host.link = "ib"
      BY <2>3, <3>1 DEF AhAccepted
    <3> QED
      BY <3>1, <3>2, AddressesLead
  <2> QED
    BY <2>2, <2>3, SyncKnown
<1>6. ASSUME NEW mask, SyncRoce(mask) PROVE KnownInv'
  <2>1. PICK g, ah : g = FindBestGidIndex(host.gids) /\ ah = [i \in Index |-> RoceAh(i, g)]
    OBVIOUS
  <2>2. Sync(mask, ah) /\ host.link = "roce"
    BY <1>6, <2>1 DEF SyncRoce
  <2>3. \A i \in Index : LeadsTo(ah[i], i, host.link)
    BY <2>1, <2>2, AddressesLead
  <2> QED
    BY <2>2, <2>3, SyncKnown
<1>7. ASSUME NEW mask, SyncNvlink(mask) PROVE KnownInv'
  <2>1. Same /\ Moves
    BY <1>7 DEF SyncNvlink, poolVars
  <2> QED
    BY <2>1, KnownFrame
<1>8. CASE UNCHANGED vars
  <2>1. Same /\ Moves
    BY <1>8 DEF vars, poolVars
  <2> QED
    BY <2>1, KnownFrame
<1> QED
  BY <1>1, <1>2, <1>3, <1>4, <1>5, <1>6, <1>7, <1>8 DEF Next, Idle

\* The device's context of a connected queue pair is what the code meant, after four
\* commands in three layouts and any number of recreations, whatever failed on the way
\* (mlx5gda_create_rc_qp, the three modify functions, sync_ib, sync_roce and
\* update_local_qpns), if the numbers of the driver and the peers fit their fields.
THEOREM ContextCorrect ==
    ASSUME NumbersFit
    PROVE  Spec => []ContextAsIntended
<1> DEFINE Inv == SetupInv /\ KnownInv
<1>1. Init => Inv
  BY InitSetup, KnownStart
<1>2. Inv /\ [Next]_vars => Inv'
  BY SetupStep, KnownStep
<1>3. Inv => ContextAsIntended
  <2> SUFFICES ASSUME KnownInv, NEW i \in Live, qps[i].state = "rts"
               PROVE  Intended(i, qps[i])
    BY DEF ContextAsIntended
  <2>1. i \in Index /\ qps[i] # NoQp
    BY DEF Live
  <2>2. PICK q, c, cq : q = qps[i] /\ c = q.ctx /\ cq = q.send_cq
    OBVIOUS
  <2>3. Linked(q, i, host.link)
    BY <2>1, <2>2 DEF KnownInv, AsFarAs
  <2>4. /\ CqKnown(cq) /\ Owned(c, q.wq_offset, q.dbr_offset, cq.cqn, q.uar)
        /\ Opened(c) /\ Directed(c, i, host.link)
        /\ c.retry_count = 7 /\ c.rnr_retry = 7
    BY <2>2, <2>3 DEF Linked, Known
  <2> QED
    BY <2>2, <2>4 DEF Intended, CqKnown, Owned, Opened, Directed
<1> QED
  BY <1>1, <1>2, <1>3, PTL DEF Spec
=============================================================================
