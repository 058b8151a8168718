--------------------------- MODULE WorkQueueProof ---------------------------
(***************************************************************************)
(* The device mutex protects every context, the contexts implement         *)
(* first-in first-out queues, and their requests land where they are read, *)
(* for every number of ranks, experts, queue pairs and warps, every ring   *)
(* size and every routing.                                                 *)
(***************************************************************************)
EXTENDS WorkQueue, AddressingProof, FiniteSetTheorems, SequenceTheorems

\* OneWriter is not inductive alone: a warp past its lock must hold a request
\* of this rank, whose context exists, or its unlock would miss the mutex.
LockInv ==
    /\ todo \subseteq AllJobs
    /\ pc \in [Warps -> {"idle", "lock", "write", "record", "ring", "unlock"}]
    /\ job \in [Warps -> AllJobs \cup {NoJob}]
    /\ \A w \in Warps : pc[w] # "idle" => job[w] \in AllJobs
    /\ mutex \in [Contexts -> {0, 1}]
    /\ OneWriter

\* The context of a request exists.
LEMMA JobContext ==
    ASSUME NEW j \in AllJobs
    PROVE  CtxOfJob(j) \in Contexts
<1>1. j.dst \in Ranks /\ j.local \in Locals
  BY DEF AllJobs, Peers
<1> QED
  BY <1>1, ContextCorrect DEF ContextOfPeer, CtxOfJob, Contexts

LEMMA LockInvInit == Init => LockInv
<1> SUFFICES ASSUME Init PROVE LockInv
  OBVIOUS
<1>1. Jobs(1) \subseteq AllJobs
  BY DEF Jobs
<1>2. OneWriter
  BY DEF Init, OneWriter, Holding
<1> QED
  BY <1>1, <1>2 DEF Init, LockInv

\* A step of one warp that keeps its request moves only that warp's pc.
LEMMA WarpMoves ==
    ASSUME LockInv, NEW w \in Warps, NEW from, NEW to \in {"write", "record", "ring", "unlock"},
           Move(w, from, to), from # "idle", UNCHANGED <<todo, job>>
    PROVE  /\ todo' \subseteq AllJobs
           /\ pc' \in [Warps -> {"idle", "lock", "write", "record", "ring", "unlock"}]
           /\ job' \in [Warps -> AllJobs \cup {NoJob}]
           /\ \A v \in Warps : pc'[v] # "idle" => job'[v] \in AllJobs
           /\ \A v \in Warps : C(v)' = C(v)
           /\ \A v \in Warps : Holding(v)' <=> (Holding(v) \/ v = w)
  BY DEF LockInv, Move, C, CtxOfJob, Ctx, Holding

LEMMA LockInvNext == LockInv /\ [Next]_vars => LockInv'
<1> SUFFICES ASSUME LockInv, [Next]_vars PROVE LockInv'
  OBVIOUS
<1> USE DEF LockInv
<1>1. ASSUME NEW w \in Warps, NEW j \in todo, Take(w, j) PROVE LockInv'
  <2>1. /\ pc' = [pc EXCEPT ![w] = "lock"] /\ job' = [job EXCEPT ![w] = j]
        /\ pc[w] = "idle" /\ mutex' = mutex /\ todo' = todo \ {j}
    BY <1>1 DEF Take
  <2>2. \A v \in Warps : Holding(v)' <=> Holding(v)
    BY <2>1 DEF Holding
  <2>3. \A v \in Warps : Holding(v) => C(v)' = C(v)
    BY <2>1 DEF Holding, C, CtxOfJob
  <2>4. OneWriter'
    BY <2>1, <2>2, <2>3 DEF OneWriter
  <2> QED
    BY <2>1, <2>4
<1>2. ASSUME NEW w \in Warps, Lock(w) PROVE LockInv'
  <2>1. /\ Move(w, "lock", "write") /\ mutex[C(w)] = 0 /\ UNCHANGED <<todo, job>>
        /\ mutex' = [mutex EXCEPT ![C(w)] = 1]
    BY <1>2 DEF Lock, LockFree
  <2>2. /\ todo' \subseteq AllJobs
        /\ pc' \in [Warps -> {"idle", "lock", "write", "record", "ring", "unlock"}]
        /\ job' \in [Warps -> AllJobs \cup {NoJob}]
        /\ \A v \in Warps : pc'[v] # "idle" => job'[v] \in AllJobs
        /\ \A v \in Warps : C(v)' = C(v)
        /\ \A v \in Warps : Holding(v)' <=> (Holding(v) \/ v = w)
    BY <2>1, WarpMoves
  <2>3. C(w) \in Contexts
    BY <2>1, JobContext DEF C, Move
  <2>4. \A v \in Warps : Holding(v) => C(v) # C(w)
    BY <2>1, <2>3 DEF OneWriter
  <2>5. OneWriter'
    <3>1. \A v, u \in Warps : Holding(v)' /\ Holding(u)' /\ C(v)' = C(u)' => v = u
      BY <2>2, <2>4 DEF OneWriter
    <3>2. ASSUME NEW c \in Contexts
          PROVE  mutex'[c] = 1 <=> \E v \in Warps : Holding(v)' /\ C(v)' = c
      <4>1. CASE c = C(w)
        BY <2>1, <2>2, <2>3, <4>1
      <4>2. CASE c # C(w)
        BY <2>1, <2>2, <4>2 DEF OneWriter
      <4> QED
        BY <4>1, <4>2
    <3> QED
      BY <3>1, <3>2 DEF OneWriter
  <2> QED
    BY <2>1, <2>2, <2>5
<1>3. ASSUME NEW w \in Warps, WriteWqe(w) \/ StoreRecord(w) \/ RingDoorbell(w)
      PROVE  LockInv'
  <2>1. PICK from, to : /\ Move(w, from, to) /\ UNCHANGED <<todo, job, mutex>>
                        /\ from \in {"write", "record", "ring"}
                        /\ to \in {"record", "ring", "unlock"}
    BY <1>3 DEF WriteWqe, StoreRecord, RingDoorbell
  <2>2. /\ todo' \subseteq AllJobs
        /\ pc' \in [Warps -> {"idle", "lock", "write", "record", "ring", "unlock"}]
        /\ job' \in [Warps -> AllJobs \cup {NoJob}]
        /\ \A v \in Warps : pc'[v] # "idle" => job'[v] \in AllJobs
        /\ \A v \in Warps : C(v)' = C(v)
        /\ \A v \in Warps : Holding(v)' <=> (Holding(v) \/ v = w)
    BY <2>1, WarpMoves
  <2>3. Holding(w)
    BY <2>1 DEF Holding, Move
  <2>4. OneWriter'
    BY <2>1, <2>2, <2>3 DEF OneWriter
  <2> QED
    BY <2>1, <2>2, <2>4
<1>4. ASSUME NEW w \in Warps, Unlock(w) PROVE LockInv'
  <2>1. /\ pc[w] = "unlock" /\ pc' = [pc EXCEPT ![w] = "idle"]
        /\ mutex' = [mutex EXCEPT ![C(w)] = 0]
        /\ job' = [job EXCEPT ![w] = NoJob] /\ todo' = todo
    BY <1>4 DEF Unlock, Move
  <2>2. C(w) \in Contexts /\ Holding(w)
    BY <2>1, JobContext DEF C, Holding
  <2>3. \A v \in Warps : Holding(v)' <=> (Holding(v) /\ v # w)
    BY <2>1 DEF Holding
  <2>4. \A v \in Warps : v # w => C(v)' = C(v)
    BY <2>1 DEF C, CtxOfJob
  <2>5. OneWriter'
    <3>1. \A v, u \in Warps : Holding(v)' /\ Holding(u)' /\ C(v)' = C(u)' => v = u
      BY <2>3, <2>4 DEF OneWriter
    <3>2. ASSUME NEW c \in Contexts
          PROVE  mutex'[c] = 1 <=> \E v \in Warps : Holding(v)' /\ C(v)' = c
      <4>1. CASE c = C(w)
        BY <2>1, <2>2, <2>3, <2>4, <4>1 DEF OneWriter
      <4>2. CASE c # C(w)
        BY <2>1, <2>3, <2>4, <4>2 DEF OneWriter
      <4> QED
        BY <4>1, <4>2
    <3> QED
      BY <3>1, <3>2 DEF OneWriter
  <2> QED
    BY <2>1, <2>5
<1>5. ASSUME UNCHANGED <<pc, job, mutex>>, todo' \subseteq AllJobs PROVE LockInv'
  BY <1>5 DEF OneWriter, Holding, C, CtxOfJob
<1>6. ASSUME NEW c \in Contexts, NicStep(c) PROVE LockInv'
  BY <1>5, <1>6 DEF NicStep, Execute, Fetch, gpuVars
<1>7. ASSUME NextLaunch PROVE LockInv'
  BY <1>5, <1>7 DEF NextLaunch, Jobs
<1>8. ASSUME UNCHANGED vars PROVE LockInv'
  BY <1>5, <1>8 DEF vars, gpuVars
<1> QED
  BY <1>1, <1>2, <1>3, <1>4, <1>6, <1>7, <1>8 DEF Next, WarpStep, Finished

\* No two warps are ever between the lock and the unlock of one context, and the
\* mutex of device_mutex_lock_system is taken exactly while one is.
THEOREM OneWriterCorrect == Spec => []OneWriter
<1>1. Init => LockInv
  BY LockInvInit
<1>2. LockInv /\ [Next]_vars => LockInv'
  BY LockInvNext
<1>3. LockInv => OneWriter
  BY DEF LockInv
<1> QED
  BY <1>1, <1>2, <1>3, PTL DEF Spec

-----------------------------------------------------------------------------
(* The invariant of a context and its NIC.                                 *)

\* A warp that has a request and has not written it yet, and one that has written it
\* and not rung the doorbell.
Unwritten(w) == pc[w] \in {"lock", "write"}
Unrung(c)    == \E w \in Warps : pc[w] \in {"record", "ring"} /\ C(w) = c
Unrecorded(c) == \E w \in Warps : pc[w] = "record" /\ C(w) = c

\* A request of this launch waits to be written, is in its ring or has been carried out.
Awaited(j) == j \in todo \/ \E w \in Warps : Unwritten(w) /\ job[w] = j
InRing(j)  == \E i \in 1 .. Pending(CtxOfJob(j)) : Queued(CtxOfJob(j), i).job = j

\* The NIC may carry out this many requests.
Allowed(c) == (limit[c] - done[c]) % Wrap

\* The rows that a signal announces.
RowOf(i, j) == /\ i.launch = j.launch /\ i.dst = j.dst /\ i.local = j.local
               /\ ~IsSignal(i)

\* What a slot may hold: nothing, the index of a request that was carried out, or a
\* request.
Wqes == [idx : -1 .. Wrap - 1, job : {NoJob}]
        \cup {Wqe(j, x) : j \in AllJobs, x \in 0 .. Wrap - 1}

MemoryInv ==
    /\ launch \in 1 .. LastLaunch + 1
    /\ head \in [Contexts -> 0 .. Wrap - 1]
    /\ limit \in [Contexts -> 0 .. Wrap - 1] /\ done \in [Contexts -> 0 .. Wrap - 1]
    /\ ring \in [Contexts -> [0 .. Ring - 1 -> Wqes]]
    /\ dbr \in [Contexts -> Seq(Nat)]
    /\ bf \in [Contexts -> {0, BfSize}]
    /\ bell \in [Contexts -> [{0, BfSize} -> {NoBell} \cup 0 .. Wrap - 1]]
    /\ landed \subseteq AllJobs

\* Every request is taken up once, in its launch.
JobsInv ==
    /\ todo \subseteq Jobs(launch)
    /\ \A w \in Warps : pc[w] # "idle" => job[w] \in Jobs(launch) /\ job[w] \notin todo
    /\ \A v, w \in Warps : Unwritten(v) /\ Unwritten(w) /\ job[v] = job[w] => v = w
    /\ \A j \in landed : j.launch <= launch /\ ~Awaited(j)
    /\ \A j \in Jobs(launch) : Awaited(j) \/ InRing(j) \/ j \in landed

\* Between done and head the ring holds complete requests of this launch or the last
\* one, each once; the NIC goes no further than head and head no further than the ring
\* is long.
Holds(c, i, j) ==
    /\ Queued(c, i).job = j /\ Queued(c, i) = Wqe(j, Queued(c, i).idx)
    /\ CtxOfJob(j) = c /\ j.launch \in {launch - 1, launch}
    /\ j \notin landed /\ ~Awaited(j)
    /\ \A k \in 1 .. Pending(c) : Queued(c, k).job = j => k = i

RingInv ==
    \A c \in Contexts :
        /\ Pending(c) <= Ring /\ Allowed(c) <= Pending(c)
        /\ \A i \in 1 .. Pending(c) : \E j \in AllJobs : Holds(c, i, j)

\* The record and the doorbell page name the head, or an index at most two behind it.
DoorbellInv ==
    \A c \in Contexts :
        /\ Counter(dbr[c]) = IF Unrecorded(c) THEN (head[c] - 1) % Wrap ELSE head[c]
        /\ \A h \in {0, BfSize} : bell[c][h] # NoBell =>
              \E t \in 0 .. (IF Unrung(c) THEN 1 ELSE 0) + (IF h = bf[c] THEN 1 ELSE 0) :
                  bell[c][h] = (head[c] - 1 - t) % Wrap
        /\ Unrung(c) => ring[c][Slot(head[c] - 1)].idx = (head[c] - 1) % Wrap

\* The rows of a signal have been posted before it, and so are carried out before it.
SignalInv ==
    /\ \A w \in Warps : Unwritten(w) /\ IsSignal(job[w]) =>
          \A i \in AllJobs : RowOf(i, job[w]) => InRing(i) \/ i \in landed
    /\ \A c \in Contexts : \A n \in 1 .. Pending(c) : IsSignal(Queued(c, n).job) =>
          \A i \in AllJobs : RowOf(i, Queued(c, n).job) =>
              i \in landed \/ \E k \in 1 .. n - 1 : Queued(c, k).job = i
    /\ \A j \in landed : IsSignal(j) => \A i \in AllJobs : RowOf(i, j) => i \in landed

QueueInv == LockInv /\ MemoryInv /\ JobsInv /\ RingInv /\ DoorbellInv /\ SignalInv

-----------------------------------------------------------------------------
(* Counters on the circle.                                                 *)

LEMMA Wheel ==
    /\ Wrap \in Nat \ {0} /\ Ring \in Nat \ {0} /\ ByteBase \in Nat \ {0, 1}
    /\ Wrap % Ring = 0 /\ Wrap > Ring + 2
<1>1. ByteBase \in Nat \ {0, 1} /\ Ring \in Nat \ {0} /\ Wrap % Ring = 0 /\ Wrap > Ring + 2
  BY WorkQueueAssumption
<1>2. ByteBase * ByteBase \in Nat
  BY <1>1
<1> QED
  BY <1>1, <1>2 DEF Wrap

LEMMA WheelSize == Wrap \in Nat \ {0}
  BY Wheel

\* A counter that has wrapped is at the slot it would have without the wrap.
LEMMA SlotShift ==
    ASSUME NEW a \in Int, NEW b \in Int
    PROVE  /\ ((a % Wrap) + b) % Ring = (a + b) % Ring
           /\ (a + b) % Ring \in 0 .. Ring - 1
<1>1. PICK x \in Int : x = a % Wrap
  BY Wheel, Remainder
<1>2. x % Ring = a % Ring
  BY <1>1, Wheel, RemainderNested
<1>3. ((x % Ring) + b) % Ring = (x + b) % Ring
  BY Wheel, RemainderShift
<1>4. ((a % Ring) + b) % Ring = (a + b) % Ring
  BY Wheel, RemainderShift
<1>5. (a + b) % Ring \in 0 .. Ring - 1
  BY Wheel, Remainder, a + b \in Int
<1> QED
  BY <1>1, <1>2, <1>3, <1>4, <1>5

\* Slots of a ring that is not full are different.
LEMMA SlotsApart ==
    ASSUME NEW d \in Int, NEW i \in 0 .. Ring - 1, NEW k \in 0 .. Ring - 1,
           (d + i) % Ring = (d + k) % Ring
    PROVE  i = k
<1>1. PICK a \in Int, b \in Int : a = d + i /\ b = d + k
  OBVIOUS
<1>2. a % Ring = b % Ring /\ a - b < Ring /\ b - a < Ring
  BY <1>1, Wheel
<1>3. a = b
  BY <1>2, Wheel, RemainderDistinct
<1> QED
  BY <1>1, <1>3

LEMMA Turns ==
    ASSUME MemoryInv, NEW c \in Contexts
    PROVE  /\ head[c] \in 0 .. Wrap - 1 /\ done[c] \in 0 .. Wrap - 1
           /\ limit[c] \in 0 .. Wrap - 1
           /\ Pending(c) \in 0 .. Wrap - 1 /\ Allowed(c) \in 0 .. Wrap - 1
           /\ head[c] = (done[c] + Pending(c)) % Wrap
           /\ limit[c] = (done[c] + Allowed(c)) % Wrap
<1>1. head[c] \in 0 .. Wrap - 1 /\ done[c] \in 0 .. Wrap - 1 /\ limit[c] \in 0 .. Wrap - 1
  BY DEF MemoryInv
<1>2. PICK h \in 0 .. Wrap - 1, d \in 0 .. Wrap - 1, l \in 0 .. Wrap - 1 :
          h = head[c] /\ d = done[c] /\ l = limit[c]
  BY <1>1
<1>3. PICK p \in 0 .. Wrap - 1 : p = (h - d) % Wrap /\ h = (d + p) % Wrap
  BY WheelSize, DistanceExists
<1>4. PICK a \in 0 .. Wrap - 1 : a = (l - d) % Wrap /\ l = (d + a) % Wrap
  BY WheelSize, DistanceExists
<1> QED
  BY <1>2, <1>3, <1>4 DEF Pending, Allowed

\* Writing a request puts it behind the others, into a slot none of them is in.
LEMMA Pushed ==
    ASSUME MemoryInv, NEW w \in Warps, WriteWqe(w), NEW c \in Contexts, c = C(w),
           NEW p \in Nat, p = Pending(c), p < Ring
    PROVE  /\ Pending(c)' = p + 1
           /\ \A i \in 1 .. p : Queued(c, i)' = Queued(c, i)
           /\ Queued(c, p + 1)' = Wqe(job[w], head[c])
           /\ \A b \in Contexts : b # c =>
                 Pending(b)' = Pending(b) /\ \A i \in Int : Queued(b, i)' = Queued(b, i)
           /\ \A b \in Contexts : Allowed(b)' = Allowed(b)
<1>1. /\ ring' = [ring EXCEPT ![c][Slot(head[c])] = Wqe(job[w], head[c])]
      /\ head' = [head EXCEPT ![c] = (@ + 1) % Wrap]
      /\ done' = done /\ limit' = limit
  BY DEF WriteWqe, nicVars
<1>2. /\ ring \in [Contexts -> [0 .. Ring - 1 -> Wqes]]
      /\ head \in [Contexts -> 0 .. Wrap - 1]
  BY DEF MemoryInv
<1>3. PICK h \in 0 .. Wrap - 1, d \in 0 .. Wrap - 1 : h = head[c] /\ d = done[c]
  BY Turns
<1>4. p \in 0 .. Wrap - 1 /\ h = (d + p) % Wrap /\ p = (h - d) % Wrap
  BY <1>3, Turns DEF Pending
<1>5. Pending(c)' = p + 1
  <2>1. p + 1 < Wrap
    BY <1>4, Wheel
  <2>2. (((h + 1) % Wrap) - d) % Wrap = p + 1
    <3>1. p = (h - d) % Wrap
      BY <1>4
    <3> QED
      BY <2>1, <3>1, WheelSize, FrontMoves
  <2>3. head'[c] = (h + 1) % Wrap /\ done'[c] = d
    BY <1>1, <1>2, <1>3
  <2> QED
    BY <2>2, <2>3 DEF Pending
<1>6. PICK s \in 0 .. Ring - 1 : s = Slot(h) /\ s = (d + p) % Ring
  <2>1. d \in Int /\ p \in Int /\ d + p \in Int
    BY <1>4
  <2>2. (d + p) % Ring \in 0 .. Ring - 1
    BY <2>1, SlotShift
  <2>3. ((d + p) % Wrap) % Ring = (d + p) % Ring
    BY <2>1, Wheel, RemainderNested
  <2> QED
    BY <1>4, <2>2, <2>3 DEF Slot
<1>7. /\ ring'[c][s] = Wqe(job[w], h)
      /\ \A x \in 0 .. Ring - 1 : x # s => ring'[c][x] = ring[c][x]
      /\ \A b \in Contexts : b # c => ring'[b] = ring[b]
  BY <1>1, <1>2, <1>3, <1>6
<1>8. ASSUME NEW i \in 1 .. p PROVE Queued(c, i)' = Queued(c, i)
  <2>1. PICK k \in 0 .. Ring - 1 : k = i - 1 /\ k # p
    BY <1>4, Wheel
  <2>2. p \in 0 .. Ring - 1 /\ d \in Int
    BY <1>4, Wheel
  <2>3. (d + k) % Ring # (d + p) % Ring
    BY <2>1, <2>2, SlotsApart
  <2>4. (d + k) % Ring \in 0 .. Ring - 1
    BY <2>1, SlotShift, d \in Int, k \in Int
  <2>5. d + i - 1 = d + k
    BY <2>1
  <2>6. ring'[c][(d + i - 1) % Ring] = ring[c][(d + i - 1) % Ring]
    BY <1>6, <1>7, <2>3, <2>4, <2>5
  <2> QED
    BY <1>1, <1>3, <2>6 DEF Queued
<1>9. Queued(c, p + 1)' = Wqe(job[w], h)
  <2>1. d + (p + 1) - 1 = d + p
    BY <1>4
  <2>2. ring'[c][(d + (p + 1) - 1) % Ring] = Wqe(job[w], h)
    BY <1>6, <1>7, <2>1
  <2> QED
    BY <1>1, <1>3, <2>2 DEF Queued
<1>10. ASSUME NEW b \in Contexts, b # c
       PROVE  Pending(b)' = Pending(b) /\ \A i \in Int : Queued(b, i)' = Queued(b, i)
  <2>1. head'[b] = head[b] /\ done'[b] = done[b] /\ ring'[b] = ring[b]
    BY <1>1, <1>2, <1>7, <1>10
  <2> QED
    BY <2>1 DEF Pending, Queued
<1>11. \A b \in Contexts : Allowed(b)' = Allowed(b)
  BY <1>1 DEF Allowed
<1> QED
  BY <1>3, <1>5, <1>8, <1>9, <1>10, <1>11

\* Carrying out a request takes the oldest one out and moves the others up.
LEMMA Popped ==
    ASSUME MemoryInv, RingInv, NEW c \in Contexts, Execute(c), NEW p \in Nat,
           p = Pending(c)
    PROVE  /\ p \in 1 .. Ring /\ Pending(c)' = p - 1 /\ Allowed(c)' = Allowed(c) - 1
           /\ \A i \in 1 .. p - 1 : Queued(c, i)' = Queued(c, i + 1)
           /\ landed' = landed \cup {Queued(c, 1).job}
           /\ \A b \in Contexts : b # c =>
                 /\ Pending(b)' = Pending(b) /\ Allowed(b)' = Allowed(b)
                 /\ \A i \in Int : Queued(b, i)' = Queued(b, i)
           /\ \A b \in Contexts, x \in 0 .. Ring - 1 : ring'[b][x].idx = ring[b][x].idx
<1>1. /\ done[c] # limit[c] /\ head' = head /\ limit' = limit
      /\ done' = [done EXCEPT ![c] = (@ + 1) % Wrap]
      /\ ring' = [ring EXCEPT ![c][done[c] % Ring] =
                     [NoWqe EXCEPT !.idx = ring[c][done[c] % Ring].idx]]
      /\ landed' = landed \cup {ring[c][done[c] % Ring].job}
  BY DEF Execute, gpuVars
<1>2. /\ ring \in [Contexts -> [0 .. Ring - 1 -> Wqes]]
      /\ done \in [Contexts -> 0 .. Wrap - 1]
  BY DEF MemoryInv
<1>3. PICK h \in 0 .. Wrap - 1, d \in 0 .. Wrap - 1, l \in 0 .. Wrap - 1 :
          h = head[c] /\ d = done[c] /\ l = limit[c]
  BY Turns
<1>4. PICK a \in 0 .. Wrap - 1 : /\ a = Allowed(c) /\ a = (l - d) % Wrap
                                 /\ l = (d + a) % Wrap
  BY <1>3, Turns DEF Allowed
<1>5. p \in 0 .. Wrap - 1 /\ p = (h - d) % Wrap /\ p <= Ring /\ a <= p
  BY <1>3, <1>4, Turns DEF Pending, RingInv
<1>6. a > 0
  <2>1. a # 0
    <3> SUFFICES ASSUME a = 0 PROVE FALSE
      OBVIOUS
    <3>1. d + 0 = d
      OBVIOUS
    <3>2. d % Wrap = d
      BY WheelSize, RemainderSmall, d \in Int
    <3> QED
      BY <1>1, <1>3, <1>4, <3>1, <3>2
  <2> QED
    BY <2>1
<1>7. p \in 1 .. Ring
  BY <1>5, <1>6, Wheel
<1>8. done'[c] = (d + 1) % Wrap /\ \A b \in Contexts : b # c => done'[b] = done[b]
  BY <1>1, <1>2, <1>3
<1>9. Pending(c)' = p - 1
  <2>1. (h - ((d + 1) % Wrap)) % Wrap = p - 1
    <3>1. p = (h - d) % Wrap /\ p > 0
      BY <1>5, <1>7
    <3> QED
      BY <3>1, WheelSize, BackMoves
  <2> QED
    BY <1>1, <1>3, <1>8, <2>1 DEF Pending
<1>10. Allowed(c)' = a - 1
  <2>1. (l - ((d + 1) % Wrap)) % Wrap = a - 1
    BY <1>4, <1>6, WheelSize, BackMoves, a \in Nat
  <2> QED
    BY <1>1, <1>3, <1>8, <2>1 DEF Allowed
<1>11. PICK s \in 0 .. Ring - 1 : s = d % Ring
  BY Wheel, Remainder, d \in Int
<1>12. /\ ring'[c][s] = [NoWqe EXCEPT !.idx = ring[c][s].idx]
       /\ \A x \in 0 .. Ring - 1 : x # s => ring'[c][x] = ring[c][x]
       /\ \A b \in Contexts : b # c => ring'[b] = ring[b]
  BY <1>1, <1>2, <1>3, <1>11
<1>13. ASSUME NEW i \in 1 .. p - 1 PROVE Queued(c, i)' = Queued(c, i + 1)
  <2>1. i \in 0 .. Ring - 1 /\ i # 0 /\ 0 \in 0 .. Ring - 1 /\ d \in Int
    BY <1>7, Wheel
  <2>2. (d + i) % Ring # (d + 0) % Ring
    BY <2>1, SlotsApart
  <2>3. d + 0 = d /\ d + (i + 1) - 1 = d + i
    OBVIOUS
  <2>4. (d + i) % Ring \in 0 .. Ring - 1
    BY <2>1, SlotShift, i \in Int
  <2>5. ring'[c][(d + i) % Ring] = ring[c][(d + i) % Ring]
    BY <1>11, <1>12, <2>2, <2>3, <2>4
  <2>6. (((d + 1) % Wrap) + i - 1) % Ring = (d + i) % Ring
    <3>1. PICK x \in Int, y \in Int : x = d + 1 /\ y = i - 1
      OBVIOUS
    <3>2. ((x % Wrap) + y) % Ring = (x + y) % Ring
      BY SlotShift
    <3>3. PICK z \in Int : z = x % Wrap
      <4>1. x % Wrap \in 0 .. Wrap - 1
        BY WheelSize, Remainder
      <4> QED
        BY <4>1
    <3>4. x + y = d + i /\ z + y = z + i - 1
      BY <3>1
    <3> QED
      BY <3>1, <3>2, <3>3, <3>4
  <2> QED
    BY <1>3, <1>8, <2>3, <2>5, <2>6 DEF Queued
<1>14. Queued(c, 1) = ring[c][s]
  <2>1. d + 1 - 1 = d
    OBVIOUS
  <2> QED
    BY <1>3, <1>11, <2>1 DEF Queued
<1>15. ASSUME NEW b \in Contexts, b # c
       PROVE  /\ Pending(b)' = Pending(b) /\ Allowed(b)' = Allowed(b)
              /\ \A i \in Int : Queued(b, i)' = Queued(b, i)
  BY <1>1, <1>8, <1>12, <1>15 DEF Pending, Allowed, Queued
<1>16. ASSUME NEW b \in Contexts, NEW x \in 0 .. Ring - 1
       PROVE  ring'[b][x].idx = ring[b][x].idx
  <2>1. CASE b = c /\ x = s
    BY <1>12, <2>1 DEF NoWqe
  <2>2. CASE ~(b = c /\ x = s)
    BY <1>12, <2>2
  <2> QED
    BY <2>1, <2>2
<1> QED
  BY <1>1, <1>3, <1>4, <1>7, <1>9, <1>10, <1>11, <1>13, <1>14, <1>15, <1>16

-----------------------------------------------------------------------------
(* There is room: what is in a ring is of two launches.                    *)

LEMMA JobFields ==
    ASSUME NEW j \in AllJobs
    PROVE  /\ j.launch \in Launches /\ j.dst \in Peers /\ j.local \in Locals
           /\ j.row \in 0 .. MaxTokens
           /\ j = [launch |-> j.launch, dst |-> j.dst, local |-> j.local, row |-> j.row]
  BY DEF AllJobs

LEMMA JobsFinite == IsFiniteSet(AllJobs)
<1>1. IsFiniteSet(Launches) /\ IsFiniteSet(Locals) /\ IsFiniteSet(0 .. MaxTokens)
      /\ IsFiniteSet(Ranks)
  <2>1. LastLaunch \in Int /\ LocalExperts \in Int /\ MaxTokens \in Int /\ NumRanks \in Int
    BY AddressingAssumption, WorkQueueAssumption
  <2>2. LocalExperts - 1 \in Int /\ NumRanks - 1 \in Int
    BY <2>1
  <2>3. IsFiniteSet(Launches) /\ IsFiniteSet(0 .. MaxTokens)
    BY <2>1, FS_Interval DEF Launches
  <2>4. IsFiniteSet(Locals) /\ IsFiniteSet(Ranks)
    BY <2>2, FS_Interval DEF Locals, Ranks
  <2> QED
    BY <2>3, <2>4
<1>2. IsFiniteSet(Peers)
  BY <1>1, FS_Subset, Peers \in SUBSET Ranks DEF Peers
<1> DEFINE T == (Launches \X Peers) \X (Locals \X (0 .. MaxTokens))
           f == [j \in AllJobs |-> <<<<j.launch, j.dst>>, <<j.local, j.row>>>>]
<1>3. IsFiniteSet(T)
  BY <1>1, <1>2, FS_Product
<1>4. f \in [AllJobs -> T]
  BY JobFields
<1>5. ASSUME NEW i \in AllJobs, NEW j \in AllJobs, f[i] = f[j] PROVE i = j
  <2>1. i.launch = j.launch /\ i.dst = j.dst /\ i.local = j.local /\ i.row = j.row
    BY <1>5
  <2> QED
    BY <2>1, JobFields
<1>6. f \in Injection(AllJobs, T)
  BY <1>4, <1>5 DEF Injection, IsInjective
<1> HIDE DEF T, f
<1> QED
  BY <1>3, <1>6, FS_Injection

\* The requests of a launch for one context.
Share(k, c) == {j \in Jobs(k) : CtxOfJob(j) = c}

LEMMA ShareBound ==
    ASSUME NEW k \in Launches, NEW c \in Contexts
    PROVE  /\ IsFiniteSet(Share(k, c) \cup Share(k - 1, c))
           /\ Cardinality(Share(k, c) \cup Share(k - 1, c)) <= Ring
<1>1. ASSUME NEW i PROVE IsFiniteSet(Share(i, c)) /\ Cardinality(Share(i, c)) \in Nat
  <2>1. Share(i, c) \in SUBSET AllJobs
    BY DEF Share, Jobs
  <2>2. IsFiniteSet(Share(i, c))
    BY <2>1, JobsFinite, FS_Subset
  <2> QED
    BY <2>2, FS_CardinalityType
<1> DEFINE S == Share(k, c)
           T == Share(k - 1, c)
<1>2. /\ IsFiniteSet(S) /\ IsFiniteSet(T)
      /\ Cardinality(S) \in Nat /\ Cardinality(T) \in Nat
  BY <1>1
<1>3. Cardinality(S) + (IF k > 1 THEN Cardinality(T) ELSE 0) <= Ring
  BY WorkQueueAssumption DEF PerLaunch, Share
<1>4. k \in Nat /\ k >= 1
  BY DEF Launches
<1>5. k = 1 => Cardinality(T) = 0
  <2>1. ASSUME k = 1 PROVE T = {}
    <3>1. ASSUME NEW j \in T PROVE FALSE
      <4>1. j \in AllJobs /\ j.launch = k - 1
        BY <3>1 DEF Share, Jobs
      <4>2. j.launch \in Launches
        BY <4>1, JobFields
      <4> QED
        BY <2>1, <4>1, <4>2 DEF Launches
    <3> QED
      BY <3>1
  <2> QED
    BY <2>1, FS_EmptySet
<1> HIDE DEF S, T
<1>6. /\ IsFiniteSet(S \cup T)
      /\ Cardinality(S \cup T) = Cardinality(S) + Cardinality(T) - Cardinality(S \cap T)
  BY <1>2, FS_Union
<1>7. Cardinality(S \cap T) \in Nat
  <2>1. IsFiniteSet(S \cap T)
    BY <1>2, FS_Subset, S \cap T \in SUBSET S
  <2> QED
    BY <2>1, FS_CardinalityType
<1>8. Cardinality(S \cup T) <= Ring
  BY <1>2, <1>3, <1>4, <1>5, <1>6, <1>7, Wheel
<1> QED
  BY <1>6, <1>8 DEF S, T

\* A warp that holds a context finds a free slot.
LEMMA Room ==
    ASSUME LockInv, MemoryInv, JobsInv, RingInv, NEW w \in Warps, pc[w] = "write",
           NEW c \in Contexts, c = C(w)
    PROVE  Pending(c) < Ring
<1>1. PICK p \in Nat : p = Pending(c) /\ p <= Ring
  BY Turns DEF RingInv
<1>2. PICK k \in Launches : k = launch
  <2>1. job[w] \in AllJobs /\ job[w].launch = launch
    BY DEF JobsInv, Jobs
  <2> QED
    BY <2>1, JobFields
<1> DEFINE T == Share(k, c) \cup Share(k - 1, c)
           f == [i \in 1 .. p + 1 |-> IF i <= p THEN Queued(c, i).job ELSE job[w]]
<1>3. ASSUME NEW i \in 1 .. p
      PROVE  /\ Queued(c, i).job \in T /\ ~Awaited(Queued(c, i).job)
             /\ \A n \in 1 .. p : Queued(c, n).job = Queued(c, i).job => n = i
  <2>1. PICK j \in AllJobs : Holds(c, i, j)
    BY <1>1 DEF RingInv
  <2> QED
    BY <1>1, <1>2, <2>1 DEF Share, Jobs, Holds
<1>4. job[w] \in T /\ Awaited(job[w])
  <2>1. job[w] \in Jobs(k) /\ CtxOfJob(job[w]) = c
    BY <1>2 DEF JobsInv, C
  <2> QED
    BY <2>1 DEF Share, Awaited, Unwritten
<1>5. f \in [1 .. p + 1 -> T]
  BY <1>3, <1>4
<1>6. ASSUME NEW i \in 1 .. p + 1, NEW n \in 1 .. p + 1, f[i] = f[n] PROVE i = n
  <2>1. CASE i <= p /\ n <= p
    BY <1>3, <1>6, <2>1
  <2>2. CASE i <= p /\ ~(n <= p)
    BY <1>3, <1>4, <1>6, <2>2
  <2>3. CASE ~(i <= p) /\ n <= p
    BY <1>3, <1>4, <1>6, <2>3
  <2>4. CASE ~(i <= p) /\ ~(n <= p)
    BY <2>4
  <2> QED
    BY <2>1, <2>2, <2>3, <2>4
<1>7. f \in Injection(1 .. p + 1, T)
  BY <1>5, <1>6 DEF Injection, IsInjective
<1>8. IsFiniteSet(T) /\ Cardinality(T) <= Ring
  BY ShareBound
<1> HIDE DEF T, f
<1>9. Cardinality(1 .. p + 1) <= Cardinality(T)
  BY <1>7, <1>8, FS_Injection
<1>10. Cardinality(1 .. p + 1) = p + 1
  BY FS_Interval, 1 \in Int, p + 1 \in Int
<1>11. Cardinality(T) \in Nat
  BY <1>8, FS_CardinalityType
<1> QED
  BY <1>1, <1>8, <1>9, <1>10, <1>11, Wheel

-----------------------------------------------------------------------------
(* Steps that write no request and carry none out.                         *)

\* The rings stay as they are.
SameRings ==
    \A c \in Contexts : Pending(c)' = Pending(c) /\ \A i \in Int : Queued(c, i)' = Queued(c, i)

LEMMA RingsKept ==
    ASSUME UNCHANGED <<ring, head, done>>
    PROVE  SameRings /\ \A j \in AllJobs : InRing(j)' <=> InRing(j)
<1>1. SameRings
  BY DEF SameRings, Pending, Queued
<1>2. ASSUME NEW j \in AllJobs PROVE InRing(j)' <=> InRing(j)
  <2>1. PICK c \in Contexts : c = CtxOfJob(j)
    BY JobContext
  <2>2. Pending(c)' = Pending(c) /\ \A i : Queued(c, i)' = Queued(c, i)
    BY DEF Pending, Queued
  <2> QED
    BY <2>1, <2>2 DEF InRing
<1> QED
  BY <1>1, <1>2

\* A ring keeps its meaning when no request changes its place.
LEMMA RingsMeanTheSame ==
    ASSUME RingInv, UNCHANGED <<ring, head, done, landed, launch>>,
           \A j \in AllJobs : Awaited(j)' => Awaited(j),
           \A c \in Contexts : Allowed(c)' <= Pending(c)
    PROVE  RingInv'
<1>1. SameRings
  BY RingsKept
<1> SUFFICES ASSUME NEW c \in Contexts
             PROVE  /\ Pending(c)' <= Ring /\ Allowed(c)' <= Pending(c)'
                    /\ \A i \in 1 .. Pending(c)' : \E j \in AllJobs : Holds(c, i, j)'
  BY DEF RingInv
<1>2. Pending(c)' = Pending(c) /\ Pending(c) <= Ring
  BY <1>1 DEF RingInv, SameRings
<1>3. ASSUME NEW i \in 1 .. Pending(c) PROVE \E j \in AllJobs : Holds(c, i, j)'
  <2>1. PICK j \in AllJobs : Holds(c, i, j)
    BY DEF RingInv
  <2>2. \A k \in Int : Queued(c, k)' = Queued(c, k)
    BY <1>1 DEF SameRings
  <2>3. Holds(c, i, j)'
    BY <1>2, <2>1, <2>2 DEF Holds
  <2> QED
    BY <2>3
<1> QED
  BY <1>2, <1>3

LEMMA SignalsMeanTheSame ==
    ASSUME SignalInv, MemoryInv, UNCHANGED <<ring, head, done, landed>>,
           \A w \in Warps : Unwritten(w)' => Unwritten(w) /\ job'[w] = job[w]
    PROVE  SignalInv'
<1>1. SameRings /\ \A j \in AllJobs : InRing(j)' <=> InRing(j)
  BY RingsKept
<1>2. ASSUME NEW w \in Warps, Unwritten(w)', IsSignal(job'[w]),
             NEW i \in AllJobs, RowOf(i, job'[w])
      PROVE  InRing(i)' \/ i \in landed'
  BY <1>1, <1>2 DEF SignalInv
<1>3. ASSUME NEW c \in Contexts, NEW n \in 1 .. Pending(c)', IsSignal(Queued(c, n)'.job),
             NEW i \in AllJobs, RowOf(i, Queued(c, n)'.job)
      PROVE  i \in landed' \/ \E k \in 1 .. n - 1 : Queued(c, k)'.job = i
  <2>1. Pending(c)' = Pending(c) /\ \A k \in Int : Queued(c, k)' = Queued(c, k)
    BY <1>1 DEF SameRings
  <2> QED
    BY <1>3, <2>1 DEF SignalInv
<1>4. \A j \in landed' : IsSignal(j) => \A i \in AllJobs : RowOf(i, j) => i \in landed'
  BY DEF SignalInv
<1> QED
  BY <1>2, <1>3, <1>4 DEF SignalInv

\* A step in which no warp takes up a request or writes one.
LEMMA QuietStep ==
    ASSUME LockInv, MemoryInv, JobsInv, RingInv, SignalInv,
           UNCHANGED <<launch, todo, ring, head, done, landed>>,
           \A w \in Warps : Unwritten(w)' <=> Unwritten(w),
           \A w \in Warps : pc'[w] # "idle" => pc[w] # "idle" /\ job'[w] = job[w],
           \A c \in Contexts : Allowed(c)' <= Pending(c)
    PROVE  JobsInv' /\ RingInv' /\ SignalInv'
<1>1. \A w \in Warps : Unwritten(w) => Unwritten(w)' /\ job'[w] = job[w]
  <2>1. \A w \in Warps : Unwritten(w)' => pc'[w] # "idle"
    BY DEF Unwritten
  <2> QED
    BY <2>1
<1>2. \A j : Awaited(j)' <=> Awaited(j)
  BY <1>1 DEF Awaited
<1>3. RingInv'
  BY <1>2, RingsMeanTheSame
<1>4. SignalInv'
  BY <1>1, SignalsMeanTheSame
<1>5. \A j \in AllJobs : InRing(j)' <=> InRing(j)
  BY RingsKept
<1>6. Jobs(launch)' = Jobs(launch)
  BY DEF Jobs
<1>7. Jobs(launch) \subseteq AllJobs
  BY DEF Jobs
<1>8. /\ todo' \subseteq Jobs(launch)'
      /\ \A w \in Warps : pc'[w] # "idle" => job'[w] \in Jobs(launch)' /\ job'[w] \notin todo'
  BY <1>6 DEF JobsInv
<1>9. \A v, w \in Warps : Unwritten(v)' /\ Unwritten(w)' /\ job'[v] = job'[w] => v = w
  BY <1>1 DEF JobsInv
<1>10. \A j \in landed' : j.launch <= launch' /\ ~Awaited(j)'
  BY <1>2 DEF JobsInv
<1>11. \A j \in Jobs(launch)' : Awaited(j)' \/ InRing(j)' \/ j \in landed'
  BY <1>2, <1>5, <1>6, <1>7 DEF JobsInv
<1>12. JobsInv'
  BY <1>8, <1>9, <1>10, <1>11 DEF JobsInv
<1> QED
  BY <1>3, <1>4, <1>12

\* A warp takes up a request: a signal only when its rows have been written.
LEMMA TakeStep ==
    ASSUME LockInv, MemoryInv, JobsInv, RingInv, SignalInv,
           NEW w \in Warps, NEW j \in todo, Take(w, j)
    PROVE  JobsInv' /\ RingInv' /\ SignalInv'
<1>1. /\ pc[w] = "idle" /\ Ready(j) /\ todo' = todo \ {j}
      /\ job' = [job EXCEPT ![w] = j] /\ pc' = [pc EXCEPT ![w] = "lock"]
      /\ UNCHANGED <<launch, ring, head, done, landed, limit>>
  BY DEF Take, nicVars
<1>2. /\ pc \in [Warps -> {"idle", "lock", "write", "record", "ring", "unlock"}]
      /\ job \in [Warps -> AllJobs \cup {NoJob}]
  BY DEF LockInv
<1>3. /\ Unwritten(w)' /\ ~Unwritten(w) /\ job'[w] = j /\ pc'[w] = "lock"
      /\ \A v \in Warps : v # w =>
            (Unwritten(v)' <=> Unwritten(v)) /\ job'[v] = job[v] /\ pc'[v] = pc[v]
  BY <1>1, <1>2 DEF Unwritten
<1>4. \A i : Awaited(i)' <=> Awaited(i)
  <2> SUFFICES ASSUME NEW i PROVE Awaited(i)' <=> Awaited(i)
    OBVIOUS
  <2>1. CASE i = j
    <3>1. Awaited(i)' /\ Awaited(i)
      BY <1>3, <2>1 DEF Awaited
    <3> QED
      BY <3>1
  <2>2. CASE i # j
    <3>1. i \in todo' <=> i \in todo
      BY <1>1, <2>2
    <3>2. (\E v \in Warps : Unwritten(v)' /\ job'[v] = i)
          <=> (\E v \in Warps : Unwritten(v) /\ job[v] = i)
      BY <1>3, <2>2
    <3> QED
      BY <3>1, <3>2 DEF Awaited
  <2> QED
    BY <2>1, <2>2
<1>5. RingInv'
  <2>1. \A c \in Contexts : Allowed(c)' <= Pending(c)
    BY <1>1 DEF Allowed, RingInv
  <2> QED
    BY <1>1, <1>4, <2>1, RingsMeanTheSame
<1>6. SameRings /\ \A i \in AllJobs : InRing(i)' <=> InRing(i)
  BY <1>1, RingsKept
<1>7. Jobs(launch)' = Jobs(launch) /\ j \in Jobs(launch) /\ Jobs(launch) \subseteq AllJobs
  BY <1>1 DEF Jobs, JobsInv
<1>8. JobsInv'
  <2>1. /\ todo' \subseteq Jobs(launch)'
        /\ \A v \in Warps : pc'[v] # "idle" => job'[v] \in Jobs(launch)' /\ job'[v] \notin todo'
    BY <1>1, <1>3, <1>7 DEF JobsInv
  <2>2. \A v \in Warps : Unwritten(v) => job[v] # j
    BY DEF JobsInv, Unwritten
  <2>3. \A v, u \in Warps : Unwritten(v)' /\ Unwritten(u)' /\ job'[v] = job'[u] => v = u
    BY <1>3, <2>2 DEF JobsInv
  <2>4. \A i \in landed' : i.launch <= launch' /\ ~Awaited(i)'
    BY <1>1, <1>4 DEF JobsInv
  <2>5. \A i \in Jobs(launch)' : Awaited(i)' \/ InRing(i)' \/ i \in landed'
    BY <1>1, <1>4, <1>6, <1>7 DEF JobsInv
  <2> QED
    BY <2>1, <2>3, <2>4, <2>5 DEF JobsInv
<1>9. SignalInv'
  <2>1. ASSUME NEW v \in Warps, Unwritten(v)', IsSignal(job'[v]),
               NEW i \in AllJobs, RowOf(i, job'[v])
        PROVE  InRing(i)' \/ i \in landed'
    <3>1. CASE v = w
      <4>1. job'[v] = j /\ IsSignal(j) /\ RowOf(i, j)
        BY <1>3, <2>1, <3>1
      <4>2. i \in Jobs(launch)
        BY <1>7, <4>1 DEF Jobs, RowOf
      <4>3. i \notin todo /\ \A u \in Warps : job[u] # i
        BY <1>1, <4>1, <4>2 DEF Ready, RowOf
      <4>4. ~Awaited(i)
        BY <4>3 DEF Awaited
      <4>5. InRing(i) \/ i \in landed
        BY <4>2, <4>4 DEF JobsInv
      <4> QED
        BY <1>1, <1>6, <4>5
    <3>2. CASE v # w
      <4>1. Unwritten(v) /\ job'[v] = job[v]
        BY <1>3, <2>1, <3>2
      <4>2. InRing(i) \/ i \in landed
        BY <2>1, <4>1 DEF SignalInv
      <4> QED
        BY <1>1, <1>6, <4>2
    <3> QED
      BY <3>1, <3>2
  <2>2. ASSUME NEW c \in Contexts, NEW n \in 1 .. Pending(c)', IsSignal(Queued(c, n)'.job),
               NEW i \in AllJobs, RowOf(i, Queued(c, n)'.job)
        PROVE  i \in landed' \/ \E k \in 1 .. n - 1 : Queued(c, k)'.job = i
    <3>1. Pending(c)' = Pending(c) /\ \A k \in Int : Queued(c, k)' = Queued(c, k)
      BY <1>6 DEF SameRings
    <3> QED
      BY <1>1, <2>2, <3>1 DEF SignalInv
  <2>3. \A i \in landed' : IsSignal(i) => \A k \in AllJobs : RowOf(k, i) => k \in landed'
    BY <1>1 DEF SignalInv
  <2> QED
    BY <2>1, <2>2, <2>3 DEF SignalInv
<1> QED
  BY <1>5, <1>8, <1>9

\* The next launch starts with rings that hold requests of the last one only.
LEMMA NextLaunchStep ==
    ASSUME LockInv, MemoryInv, JobsInv, RingInv, SignalInv, NextLaunch
    PROVE  JobsInv' /\ RingInv' /\ SignalInv'
<1>1. /\ launch \in Launches /\ todo = {} /\ \A w \in Warps : pc[w] = "idle"
      /\ OldRequestsDone(launch) /\ launch' = launch + 1
      /\ todo' = IF launch < LastLaunch THEN Jobs(launch + 1) ELSE {}
      /\ UNCHANGED <<pc, job, ring, head, done, landed, limit>>
  BY DEF NextLaunch, nicVars
<1>2. PICK k \in Launches : k = launch /\ k \in Int
  BY <1>1 DEF Launches
<1>3. \A w \in Warps : ~Unwritten(w) /\ ~Unwritten(w)'
  BY <1>1 DEF Unwritten
<1>4. \A j : Awaited(j)' <=> j \in todo'
  BY <1>3 DEF Awaited
<1>5. todo' = Jobs(k + 1)
  <2>1. CASE k < LastLaunch
    BY <1>1, <1>2, <2>1
  <2>2. CASE ~(k < LastLaunch)
    <3>1. ASSUME NEW j \in Jobs(k + 1) PROVE FALSE
      <4>1. j \in AllJobs /\ j.launch = k + 1
        BY <3>1 DEF Jobs
      <4>2. k + 1 \in 1 .. LastLaunch
        BY <4>1, JobFields DEF Launches
      <4> QED
        BY <1>2, <2>2, <4>2, WorkQueueAssumption
    <3> QED
      BY <1>1, <1>2, <2>2, <3>1
  <2> QED
    BY <2>1, <2>2
<1>6. SameRings /\ \A i \in AllJobs : InRing(i)' <=> InRing(i)
  BY <1>1, RingsKept
<1>7. \A j \in AllJobs : j.launch <= k => ~Awaited(j)'
  BY <1>2, <1>4, <1>5 DEF Jobs
<1>8. RingInv'
  <2> SUFFICES ASSUME NEW c \in Contexts
               PROVE  /\ Pending(c)' <= Ring /\ Allowed(c)' <= Pending(c)'
                      /\ \A i \in 1 .. Pending(c)' : \E j \in AllJobs : Holds(c, i, j)'
    BY DEF RingInv
  <2>1. Pending(c)' = Pending(c) /\ \A i \in Int : Queued(c, i)' = Queued(c, i)
    BY <1>6 DEF SameRings
  <2>2. Allowed(c)' = Allowed(c)
    BY <1>1 DEF Allowed
  <2>3. ASSUME NEW i \in 1 .. Pending(c) PROVE \E j \in AllJobs : Holds(c, i, j)'
    <3>1. PICK j \in AllJobs : Holds(c, i, j)
      BY DEF RingInv
    <3>2. j.launch = k
      <4>1. j.launch \in {k - 1, k} /\ j \notin landed
        BY <1>2, <3>1 DEF Holds
      <4>2. CASE j.launch = k - 1
        <5>1. k - 1 \in Launches /\ j \in Jobs(k - 1)
          BY <4>2, JobFields DEF Jobs
        <5>2. Jobs(k - 1) \subseteq landed
          BY <1>1, <1>2, <5>1 DEF OldRequestsDone
        <5> QED
          BY <4>1, <5>1, <5>2
      <4> QED
        BY <4>1, <4>2
    <3>3. ~Awaited(j)'
      BY <1>2, <1>7, <3>2
    <3>4. j.launch \in {launch' - 1, launch'}
      BY <1>1, <1>2, <3>2
    <3>5. Holds(c, i, j)'
      BY <1>1, <2>1, <3>1, <3>3, <3>4 DEF Holds
    <3> QED
      BY <3>5
  <2> QED
    BY <2>1, <2>2, <2>3 DEF RingInv
<1>9. SignalInv'
  BY <1>1, <1>3, SignalsMeanTheSame
<1>10. JobsInv'
  <2>1. Jobs(launch)' = Jobs(k + 1)
    BY <1>1, <1>2 DEF Jobs
  <2>2. /\ todo' \subseteq Jobs(launch)'
        /\ \A w \in Warps : pc'[w] = "idle" /\ ~Unwritten(w)'
    BY <1>1, <1>3, <1>5, <2>1
  <2>3. \A j \in landed' : j.launch <= launch' /\ ~Awaited(j)'
    <3> SUFFICES ASSUME NEW j \in landed PROVE j.launch <= launch' /\ ~Awaited(j)'
      BY <1>1
    <3>1. j.launch <= k /\ j \in AllJobs
      BY <1>2 DEF JobsInv, MemoryInv
    <3>2. j.launch \in Int
      BY <3>1, JobFields DEF Launches
    <3> QED
      BY <1>1, <1>2, <1>7, <3>1, <3>2
  <2>4. \A j \in Jobs(launch)' : Awaited(j)'
    BY <1>4, <1>5, <2>1
  <2> QED
    BY <2>2, <2>3, <2>4 DEF JobsInv
<1> QED
  BY <1>8, <1>9, <1>10

\* A warp writes its request.
LEMMA WriteStep ==
    ASSUME LockInv, MemoryInv, JobsInv, RingInv, SignalInv, NEW w \in Warps, WriteWqe(w)
    PROVE  JobsInv' /\ RingInv' /\ SignalInv'
<1>1. /\ pc[w] = "write" /\ pc' = [pc EXCEPT ![w] = "record"]
      /\ UNCHANGED <<launch, todo, job, landed, done, limit>>
  BY DEF WriteWqe, Move, nicVars
<1>2. pc \in [Warps -> {"idle", "lock", "write", "record", "ring", "unlock"}]
  BY DEF LockInv
<1>3. PICK r \in AllJobs : r = job[w] /\ r \in Jobs(launch) /\ r \notin todo
  BY <1>1 DEF JobsInv, Jobs
<1>4. PICK c \in Contexts : c = C(w) /\ c = CtxOfJob(r)
  BY <1>3, JobContext DEF C
<1>5. Pending(c) < Ring
  BY <1>1, <1>4, Room
<1>6. PICK p \in Nat : p = Pending(c)
  BY Turns
<1>7. /\ Pending(c)' = p + 1
      /\ \A i \in 1 .. p : Queued(c, i)' = Queued(c, i)
      /\ Queued(c, p + 1)' = Wqe(r, head[c])
      /\ \A b \in Contexts : b # c =>
            Pending(b)' = Pending(b) /\ \A i \in Int : Queued(b, i)' = Queued(b, i)
      /\ \A b \in Contexts : Allowed(b)' = Allowed(b)
  BY <1>3, <1>4, <1>5, <1>6, Pushed
<1>8. Queued(c, p + 1)'.job = r /\ Queued(c, p + 1)'.idx = head[c]
  BY <1>7 DEF Wqe
<1>9. /\ Unwritten(w) /\ ~Unwritten(w)'
      /\ \A v \in Warps : v # w => (Unwritten(v)' <=> Unwritten(v)) /\ job[v] = job'[v]
      /\ \A v \in Warps : pc'[v] # "idle" <=> pc[v] # "idle"
  BY <1>1, <1>2 DEF Unwritten
<1>10. \A v \in Warps : v # w /\ Unwritten(v) => job[v] # r
  BY <1>3, <1>9 DEF JobsInv
<1>11. ~Awaited(r)' /\ Awaited(r)
  <2>1. ~Awaited(r)'
    BY <1>1, <1>3, <1>9, <1>10 DEF Awaited
  <2>2. Awaited(r)
    BY <1>3, <1>9 DEF Awaited
  <2> QED
    BY <2>1, <2>2
<1>12. \A j : j # r => (Awaited(j)' <=> Awaited(j))
  <2> SUFFICES ASSUME NEW j, j # r PROVE Awaited(j)' <=> Awaited(j)
    OBVIOUS
  <2>1. (\E v \in Warps : Unwritten(v)' /\ job'[v] = j)
        <=> (\E v \in Warps : Unwritten(v) /\ job[v] = j)
    BY <1>3, <1>9
  <2> QED
    BY <1>1, <2>1 DEF Awaited
<1>13. \A i \in 1 .. p : Queued(c, i).job # r
  <2> SUFFICES ASSUME NEW i \in 1 .. p PROVE Queued(c, i).job # r
    OBVIOUS
  <2>1. PICK j \in AllJobs : Holds(c, i, j)
    BY <1>6 DEF RingInv
  <2> QED
    BY <1>11, <2>1 DEF Holds
<1>14. ASSUME NEW j \in AllJobs PROVE InRing(j)' <=> (InRing(j) \/ j = r)
  <2>1. CASE CtxOfJob(j) = c
    <3>1. InRing(j)' <=> \E i \in 1 .. p + 1 : Queued(c, i)'.job = j
      BY <1>7, <2>1 DEF InRing
    <3>2. InRing(j) <=> \E i \in 1 .. p : Queued(c, i).job = j
      BY <1>6, <2>1 DEF InRing
    <3>3. \A i \in 1 .. p + 1 : i \in 1 .. p \/ i = p + 1
      BY <1>6
    <3>4. 1 .. p \subseteq 1 .. p + 1 /\ p + 1 \in 1 .. p + 1
      BY <1>6
    <3> QED
      BY <1>7, <1>8, <3>1, <3>2, <3>3, <3>4
  <2>2. CASE CtxOfJob(j) # c
    <3>1. PICK b \in Contexts : b = CtxOfJob(j)
      BY JobContext
    <3>2. Pending(b)' = Pending(b) /\ \A i \in Int : Queued(b, i)' = Queued(b, i)
      BY <1>7, <2>2, <3>1
    <3>3. InRing(j)' <=> \E i \in 1 .. Pending(b) : Queued(b, i)'.job = j
      BY <3>1, <3>2 DEF InRing
    <3>4. InRing(j) <=> \E i \in 1 .. Pending(b) : Queued(b, i).job = j
      BY <3>1 DEF InRing
    <3> QED
      BY <1>4, <2>2, <3>2, <3>3, <3>4
  <2> QED
    BY <2>1, <2>2
<1>15. JobsInv'
  <2>1. Jobs(launch)' = Jobs(launch) /\ Jobs(launch) \subseteq AllJobs
    BY <1>1 DEF Jobs
  <2>2. /\ todo' \subseteq Jobs(launch)'
        /\ \A v \in Warps : pc'[v] # "idle" => job'[v] \in Jobs(launch)' /\ job'[v] \notin todo'
    BY <1>1, <1>9, <2>1 DEF JobsInv
  <2>3. \A u, v \in Warps : Unwritten(u)' /\ Unwritten(v)' /\ job'[u] = job'[v] => u = v
    BY <1>9 DEF JobsInv
  <2>4. \A j \in landed' : j.launch <= launch' /\ ~Awaited(j)'
    BY <1>1, <1>11, <1>12 DEF JobsInv
  <2>5. \A j \in Jobs(launch)' : Awaited(j)' \/ InRing(j)' \/ j \in landed'
    BY <1>1, <1>12, <1>14, <2>1 DEF JobsInv
  <2> QED
    BY <2>2, <2>3, <2>4, <2>5 DEF JobsInv
<1>16. RingInv'
  <2> SUFFICES ASSUME NEW b \in Contexts
               PROVE  /\ Pending(b)' <= Ring /\ Allowed(b)' <= Pending(b)'
                      /\ \A i \in 1 .. Pending(b)' : \E j \in AllJobs : Holds(b, i, j)'
    BY DEF RingInv
  <2>1. CASE b = c
    <3>1. Pending(b)' <= Ring /\ Allowed(b)' <= Pending(b)'
      <4>1. Allowed(c) <= p /\ Allowed(c) \in Int
        BY <1>6, Turns DEF RingInv
      <4> QED
        BY <1>5, <1>6, <1>7, <2>1, <4>1, Wheel
    <3>2. ASSUME NEW i \in 1 .. p PROVE \E j \in AllJobs : Holds(c, i, j)'
      <4>1. PICK j \in AllJobs : Holds(c, i, j)
        BY <1>6 DEF RingInv
      <4>2. j # r /\ ~Awaited(j)'
        BY <1>11, <1>12, <4>1 DEF Holds
      <4>3. \A k \in 1 .. p + 1 : Queued(c, k)'.job = j => k = i
        BY <1>6, <1>7, <1>8, <4>1, <4>2 DEF Holds
      <4>4. Holds(c, i, j)'
        BY <1>1, <1>7, <4>1, <4>2, <4>3 DEF Holds
      <4> QED
        BY <4>4
    <3>3. Holds(c, p + 1, r)'
      <4>1. r \notin landed
        BY <1>11 DEF JobsInv
      <4>2. r.launch = launch
        BY <1>3 DEF Jobs
      <4>3. \A k \in 1 .. p + 1 : Queued(c, k)'.job = r => k = p + 1
        BY <1>6, <1>7, <1>13
      <4>4. Queued(c, p + 1)' = Wqe(r, Queued(c, p + 1)'.idx)
        BY <1>7, <1>8
      <4> QED
        BY <1>1, <1>4, <1>7, <1>8, <1>11, <4>1, <4>2, <4>3, <4>4 DEF Holds
    <3>4. \A i \in 1 .. p + 1 : i \in 1 .. p \/ i = p + 1
      BY <1>6
    <3>5. \A i \in 1 .. Pending(b)' : \E j \in AllJobs : Holds(b, i, j)'
      BY <1>7, <2>1, <3>2, <3>3, <3>4
    <3> QED
      BY <3>1, <3>5
  <2>2. CASE b # c
    <3>1. Pending(b)' = Pending(b) /\ (\A i \in Int : Queued(b, i)' = Queued(b, i))
          /\ Allowed(b)' = Allowed(b)
      BY <1>7, <2>2
    <3>2. ASSUME NEW i \in 1 .. Pending(b) PROVE \E j \in AllJobs : Holds(b, i, j)'
      <4>1. PICK j \in AllJobs : Holds(b, i, j)
        BY DEF RingInv
      <4>2. ~Awaited(j)'
        BY <1>11, <1>12, <4>1 DEF Holds
      <4>3. Holds(b, i, j)'
        BY <1>1, <3>1, <4>1, <4>2 DEF Holds
      <4> QED
        BY <4>3
    <3> QED
      BY <3>1, <3>2 DEF RingInv
  <2> QED
    BY <2>1, <2>2
<1>17. SignalInv'
  <2>1. ASSUME NEW v \in Warps, Unwritten(v)', IsSignal(job'[v]),
               NEW i \in AllJobs, RowOf(i, job'[v])
        PROVE  InRing(i)' \/ i \in landed'
    <3>1. Unwritten(v) /\ job'[v] = job[v]
      BY <1>9, <2>1
    <3>2. InRing(i) \/ i \in landed
      BY <2>1, <3>1 DEF SignalInv
    <3> QED
      BY <1>1, <1>14, <3>2
  <2>2. ASSUME NEW b \in Contexts, NEW n \in 1 .. Pending(b)', IsSignal(Queued(b, n)'.job),
               NEW i \in AllJobs, RowOf(i, Queued(b, n)'.job)
        PROVE  i \in landed' \/ \E k \in 1 .. n - 1 : Queued(b, k)'.job = i
    <3>1. CASE b = c /\ n = p + 1
      <4>1. IsSignal(r) /\ RowOf(i, r)
        BY <1>8, <2>2, <3>1
      <4>2. InRing(i) \/ i \in landed
        BY <1>3, <1>9, <4>1 DEF SignalInv
      <4>3. CtxOfJob(i) = c
        BY <1>4, <4>1 DEF RowOf, CtxOfJob
      <4>4. InRing(i) => \E k \in 1 .. p : Queued(c, k).job = i
        BY <1>6, <4>3 DEF InRing
      <4>5. n - 1 = p
        BY <3>1
      <4> QED
        BY <1>1, <1>7, <3>1, <4>2, <4>4, <4>5
    <3>2. CASE b = c /\ n # p + 1
      <4>1. n \in 1 .. p
        BY <1>6, <1>7, <2>2, <3>2
      <4>2. Queued(c, n)' = Queued(c, n)
        BY <1>7, <4>1
      <4>3. i \in landed \/ \E k \in 1 .. n - 1 : Queued(c, k).job = i
        BY <1>6, <2>2, <3>2, <4>1, <4>2 DEF SignalInv
      <4>4. \A k \in 1 .. n - 1 : k \in 1 .. p
        BY <1>6, <4>1
      <4> QED
        BY <1>1, <1>7, <3>2, <4>3, <4>4
    <3>3. CASE b # c
      <4>1. Pending(b)' = Pending(b) /\ \A k \in Int : Queued(b, k)' = Queued(b, k)
        BY <1>7, <3>3
      <4> QED
        BY <1>1, <2>2, <4>1 DEF SignalInv
    <3> QED
      BY <3>1, <3>2, <3>3
  <2>3. \A j \in landed' : IsSignal(j) => \A i \in AllJobs : RowOf(i, j) => i \in landed'
    BY <1>1 DEF SignalInv
  <2> QED
    BY <2>1, <2>2, <2>3 DEF SignalInv
<1> QED
  BY <1>15, <1>16, <1>17

\* The NIC carries out the oldest request.
LEMMA ExecuteStep ==
    ASSUME LockInv, MemoryInv, JobsInv, RingInv, SignalInv, NEW c \in Contexts, Execute(c)
    PROVE  JobsInv' /\ RingInv' /\ SignalInv'
<1>1. UNCHANGED <<launch, todo, pc, job, head, limit>>
  BY DEF Execute, gpuVars
<1>2. PICK p \in Nat : p = Pending(c)
  BY Turns
<1>3. /\ p \in 1 .. Ring /\ Pending(c)' = p - 1 /\ Allowed(c)' = Allowed(c) - 1
      /\ \A i \in 1 .. p - 1 : Queued(c, i)' = Queued(c, i + 1)
      /\ landed' = landed \cup {Queued(c, 1).job}
      /\ \A b \in Contexts : b # c =>
            /\ Pending(b)' = Pending(b) /\ Allowed(b)' = Allowed(b)
            /\ \A i \in Int : Queued(b, i)' = Queued(b, i)
  BY <1>2, Popped
<1>4. 1 \in 1 .. Pending(c)
  BY <1>2, <1>3
<1>5. PICK r \in AllJobs : Holds(c, 1, r)
  BY <1>4 DEF RingInv
<1>6. /\ Queued(c, 1).job = r /\ CtxOfJob(r) = c /\ r.launch \in {launch - 1, launch}
      /\ ~Awaited(r) /\ landed' = landed \cup {r}
      /\ \A k \in 1 .. p : Queued(c, k).job = r => k = 1
  BY <1>2, <1>3, <1>5 DEF Holds
<1>7. \A j : Awaited(j)' <=> Awaited(j)
  BY <1>1 DEF Awaited, Unwritten
<1>8. \A i \in 1 .. p - 1 : i + 1 \in 1 .. p /\ i + 1 # 1
  BY <1>3
<1>9. \A i \in 1 .. p : i # 1 => i - 1 \in 1 .. p - 1 /\ (i - 1) + 1 = i
  BY <1>3
<1>10. ASSUME NEW j \in AllJobs PROVE InRing(j) => InRing(j)' \/ j \in landed'
  <2>1. CASE CtxOfJob(j) = c
    <3>1. InRing(j)' <=> \E i \in 1 .. p - 1 : Queued(c, i)'.job = j
      BY <1>3, <2>1 DEF InRing
    <3>2. InRing(j) <=> \E i \in 1 .. p : Queued(c, i).job = j
      BY <1>2, <2>1 DEF InRing
    <3>3. ASSUME NEW i \in 1 .. p, Queued(c, i).job = j PROVE InRing(j)' \/ j \in landed'
      <4>1. CASE i = 1
        BY <1>6, <3>3, <4>1
      <4>2. CASE i # 1
        <5>1. PICK k \in 1 .. p - 1 : k + 1 = i
          BY <1>9, <4>2
        <5>2. Queued(c, k)' = Queued(c, i)
          BY <1>3, <5>1
        <5> QED
          BY <3>1, <3>3, <5>2
      <4> QED
        BY <4>1, <4>2
    <3> QED
      BY <3>2, <3>3
  <2>2. CASE CtxOfJob(j) # c
    <3>1. PICK b \in Contexts : b = CtxOfJob(j)
      BY JobContext
    <3>2. Pending(b)' = Pending(b) /\ \A i \in Int : Queued(b, i)' = Queued(b, i)
      BY <1>3, <2>2, <3>1
    <3>3. InRing(j)' <=> \E i \in 1 .. Pending(b) : Queued(b, i)'.job = j
      BY <3>1, <3>2 DEF InRing
    <3>4. InRing(j) <=> \E i \in 1 .. Pending(b) : Queued(b, i).job = j
      BY <3>1 DEF InRing
    <3> QED
      BY <3>2, <3>3, <3>4
  <2> QED
    BY <2>1, <2>2
<1>11. JobsInv'
  <2>1. Jobs(launch)' = Jobs(launch) /\ Jobs(launch) \subseteq AllJobs
    BY <1>1 DEF Jobs
  <2>2. /\ todo' \subseteq Jobs(launch)'
        /\ \A v \in Warps : pc'[v] # "idle" => job'[v] \in Jobs(launch)' /\ job'[v] \notin todo'
        /\ \A u, v \in Warps : Unwritten(u)' /\ Unwritten(v)' /\ job'[u] = job'[v] => u = v
    BY <1>1, <2>1 DEF JobsInv, Unwritten
  <2>3. r.launch <= launch
    <3>1. launch \in Int
      BY DEF MemoryInv
    <3> QED
      BY <1>6, <3>1
  <2>4. \A j \in landed' : j.launch <= launch' /\ ~Awaited(j)'
    BY <1>1, <1>6, <1>7, <2>3 DEF JobsInv
  <2>5. \A j \in Jobs(launch)' : Awaited(j)' \/ InRing(j)' \/ j \in landed'
    BY <1>6, <1>7, <1>10, <2>1 DEF JobsInv
  <2> QED
    BY <2>2, <2>4, <2>5 DEF JobsInv
<1>12. RingInv'
  <2> SUFFICES ASSUME NEW b \in Contexts
               PROVE  /\ Pending(b)' <= Ring /\ Allowed(b)' <= Pending(b)'
                      /\ \A i \in 1 .. Pending(b)' : \E j \in AllJobs : Holds(b, i, j)'
    BY DEF RingInv
  <2>1. CASE b = c
    <3>1. Pending(b)' <= Ring /\ Allowed(b)' <= Pending(b)'
      <4>1. Allowed(c) <= p /\ Allowed(c) \in Int
        BY <1>2, Turns DEF RingInv
      <4> QED
        BY <1>3, <2>1, <4>1, Wheel
    <3>2. ASSUME NEW i \in 1 .. p - 1 PROVE \E j \in AllJobs : Holds(c, i, j)'
      <4>1. PICK n \in 1 .. p : n = i + 1 /\ n # 1
        BY <1>8
      <4>2. PICK j \in AllJobs : Holds(c, n, j)
        BY <1>2 DEF RingInv
      <4>3. Queued(c, i)' = Queued(c, n)
        BY <1>3, <4>1
      <4>4. j # r
        BY <1>6, <4>1, <4>2 DEF Holds
      <4>5. \A k \in 1 .. p - 1 : Queued(c, k)'.job = j => k = i
        <5> SUFFICES ASSUME NEW k \in 1 .. p - 1, Queued(c, k)'.job = j PROVE k = i
          OBVIOUS
        <5>1. Queued(c, k)' = Queued(c, k + 1) /\ k + 1 \in 1 .. p
          BY <1>3, <1>8
        <5>2. k + 1 = n
          BY <1>2, <4>2, <5>1 DEF Holds
        <5> QED
          BY <4>1, <5>2
      <4>6. Holds(c, i, j)'
        BY <1>1, <1>3, <1>6, <1>7, <4>2, <4>3, <4>4, <4>5 DEF Holds
      <4> QED
        BY <4>6
    <3> QED
      BY <1>3, <2>1, <3>1, <3>2
  <2>2. CASE b # c
    <3>1. Pending(b)' = Pending(b) /\ (\A i \in Int : Queued(b, i)' = Queued(b, i))
          /\ Allowed(b)' = Allowed(b)
      BY <1>3, <2>2
    <3>2. ASSUME NEW i \in 1 .. Pending(b) PROVE \E j \in AllJobs : Holds(b, i, j)'
      <4>1. PICK j \in AllJobs : Holds(b, i, j)
        BY DEF RingInv
      <4>2. j # r
        BY <1>6, <2>2, <4>1 DEF Holds
      <4>3. Holds(b, i, j)'
        BY <1>1, <1>6, <1>7, <3>1, <4>1, <4>2 DEF Holds
      <4> QED
        BY <4>3
    <3> QED
      BY <3>1, <3>2 DEF RingInv
  <2> QED
    BY <2>1, <2>2
<1>13. SignalInv'
  <2>1. ASSUME NEW v \in Warps, Unwritten(v)', IsSignal(job'[v]),
               NEW i \in AllJobs, RowOf(i, job'[v])
        PROVE  InRing(i)' \/ i \in landed'
    <3>1. Unwritten(v) /\ job'[v] = job[v]
      BY <1>1, <2>1 DEF Unwritten
    <3>2. InRing(i) \/ i \in landed
      BY <2>1, <3>1 DEF SignalInv
    <3> QED
      BY <1>6, <1>10, <3>2
  <2>2. ASSUME NEW b \in Contexts, NEW n \in 1 .. Pending(b)', IsSignal(Queued(b, n)'.job),
               NEW i \in AllJobs, RowOf(i, Queued(b, n)'.job)
        PROVE  i \in landed' \/ \E k \in 1 .. n - 1 : Queued(b, k)'.job = i
    <3>1. CASE b = c
      <4>1. n \in 1 .. p - 1
        BY <1>3, <3>1
      <4>2. PICK x \in 1 .. p : x = n + 1 /\ Queued(c, n)' = Queued(c, x)
        BY <1>3, <1>8, <4>1
      <4>3. i \in landed \/ \E k \in 1 .. x - 1 : Queued(c, k).job = i
        BY <1>2, <2>2, <3>1, <4>2 DEF SignalInv
      <4>4. ASSUME NEW k \in 1 .. x - 1, Queued(c, k).job = i
            PROVE  i \in landed' \/ \E y \in 1 .. n - 1 : Queued(c, y)'.job = i
        <5>1. CASE k = 1
          BY <1>6, <4>4, <5>1
        <5>2. CASE k # 1
          <6>1. PICK y \in 1 .. n - 1 : y + 1 = k /\ y \in 1 .. p - 1
            <7>1. k - 1 \in 1 .. n - 1 /\ (k - 1) + 1 = k /\ k - 1 \in 1 .. p - 1
              BY <4>1, <4>2, <5>2
            <7> QED
              BY <7>1
          <6>2. Queued(c, y)' = Queued(c, k)
            BY <1>3, <6>1
          <6> QED
            BY <4>4, <6>2
        <5> QED
          BY <5>1, <5>2
      <4> QED
        BY <1>6, <3>1, <4>3, <4>4
    <3>2. CASE b # c
      <4>1. Pending(b)' = Pending(b) /\ \A k \in Int : Queued(b, k)' = Queued(b, k)
        BY <1>3, <3>2
      <4> QED
        BY <1>6, <2>2, <4>1 DEF SignalInv
    <3> QED
      BY <3>1, <3>2
  <2>3. ASSUME NEW j \in landed', IsSignal(j), NEW i \in AllJobs, RowOf(i, j)
        PROVE  i \in landed'
    <3>1. CASE j \in landed
      BY <1>6, <2>3, <3>1 DEF SignalInv
    <3>2. CASE j = r
      <4>1. IsSignal(Queued(c, 1).job) /\ RowOf(i, Queued(c, 1).job)
        BY <1>6, <2>3, <3>2
      <4>2. i \in landed \/ \E k \in 1 .. 1 - 1 : Queued(c, k).job = i
        BY <1>4, <4>1 DEF SignalInv
      <4> QED
        BY <1>6, <4>2
    <3> QED
      BY <1>6, <3>1, <3>2
  <2> QED
    BY <2>1, <2>2, <2>3 DEF SignalInv
<1> QED
  BY <1>11, <1>12, <1>13

-----------------------------------------------------------------------------
(* Doorbells.                                                              *)

\* Counted from the next head, everything is one further back.
LEMMA OneFurtherBack ==
    ASSUME NEW h \in 0 .. Wrap - 1, NEW t \in Int
    PROVE  (((h + 1) % Wrap) - t) % Wrap = (h + 1 - t) % Wrap
<1>1. PICK a \in Int, b \in Int : a = h + 1 /\ b = -t
  OBVIOUS
<1>2. ((a % Wrap) + b) % Wrap = (a + b) % Wrap
  BY WheelSize, RemainderShift
<1>3. PICK z \in Int : z = a % Wrap
  <2>1. a % Wrap \in 0 .. Wrap - 1
    BY WheelSize, Remainder
  <2> QED
    BY <2>1
<1>4. z + b = z - t /\ a + b = h + 1 - t
  BY <1>1
<1> QED
  BY <1>1, <1>2, <1>3, <1>4

\* An index at most two behind the head is ignored, or it is one the NIC may go to.
LEMMA FurtherInside ==
    ASSUME NEW h \in 0 .. Wrap - 1, NEW d \in 0 .. Wrap - 1, NEW l \in 0 .. Wrap - 1,
           NEW p \in 0 .. Wrap - 1, NEW a \in 0 .. Wrap - 1,
           NEW t \in 0 .. 2, NEW x \in 0 .. Wrap - 1
    PROVE  /\ h = (d + p) % Wrap /\ l = (d + a) % Wrap /\ p <= Ring /\ a <= p
           /\ x = (h - t) % Wrap /\ (x - l) % Wrap <= Ring
           => (x - d) % Wrap <= p
<1>0. SUFFICES ASSUME h = (d + p) % Wrap, l = (d + a) % Wrap, p <= Ring, a <= p,
                      x = (h - t) % Wrap, (x - l) % Wrap <= Ring
               PROVE  (x - d) % Wrap <= p
  OBVIOUS
<1>a. p <= Ring /\ a <= p
  BY <1>0
<1>1. PICK u \in Int : u = p - a /\ u >= 0
  BY <1>a
<1>2. x = (d + (p - t)) % Wrap
  <2>1. PICK y \in Int, b \in Int : y = d + p /\ b = -t
    OBVIOUS
  <2>2. ((y % Wrap) + b) % Wrap = (y + b) % Wrap
    BY WheelSize, RemainderShift
  <2>3. y + b = d + (p - t) /\ h + b = h - t
    BY <2>1
  <2> QED
    BY <1>0, <2>1, <2>2, <2>3
<1>3. CASE t <= u
  <2>1. PICK k \in 0 .. Wrap - 1 : k = p - t /\ k <= p
    BY <1>1, <1>3, WheelSize
  <2>2. x = (d + k) % Wrap
    BY <1>2, <2>1
  <2>3. (x - d) % Wrap = k
    BY <2>2, WheelSize, DistanceIs
  <2> QED
    BY <2>1, <2>3
<1>4. CASE t > u
  <2>1. PICK k \in 0 .. Wrap - 1 : k = u - t + Wrap /\ k > Ring
    BY <1>1, <1>4, Wheel
  <2>2. x = (l + k) % Wrap
    <3>1. PICK y \in Int, b \in Int : y = d + a /\ b = u - t
      BY <1>1
    <3>2. y + b = d + (p - t)
      BY <1>1, <3>1
    <3>3. (l + b) % Wrap = (y + b) % Wrap
      <4>1. ((y % Wrap) + b) % Wrap = (y + b) % Wrap
        BY WheelSize, RemainderShift
      <4> QED
        BY <1>0, <3>1, <4>1
    <3>4. PICK z \in Int, W \in Int : z = l + b /\ W = Wrap /\ l + k = W + z
      BY <2>1, <3>1, WheelSize
    <3>5. W % Wrap = 0
      <4>1. Wrap = 1 * Wrap + 0 /\ 0 \in 0 .. Wrap - 1 /\ Wrap \in Int
        BY WheelSize
      <4>2. Wrap % Wrap = 0
        BY <4>1, WheelSize, RemainderUnique, 1 \in Int
      <4> QED
        BY <3>4, <4>2
    <3>6. ((W % Wrap) + z) % Wrap = (W + z) % Wrap
      BY WheelSize, RemainderShift
    <3>7. 0 + z = z
      OBVIOUS
    <3> QED
      BY <1>2, <3>2, <3>3, <3>4, <3>5, <3>6, <3>7
  <2>3. (x - l) % Wrap = k
    BY <2>2, WheelSize, DistanceIs
  <2> QED
    BY <1>0, <2>1, <2>3, Wheel
<1> QED
  BY <1>1, <1>3, <1>4

\* What a doorbell makes the NIC look at is at most two behind the head.
LEMMA Candidates ==
    ASSUME MemoryInv, DoorbellInv, NEW c \in Contexts, NEW h \in {0, BfSize},
           bell[c][h] # NoBell, NEW x \in {Counter(dbr[c]), (bell[c][h] + 1) % Wrap}
    PROVE  x \in 0 .. Wrap - 1 /\ \E t \in 0 .. 2 : x = (head[c] - t) % Wrap
<1>1. PICK n \in 0 .. Wrap - 1 : n = head[c]
  BY Turns
<1>2. CASE x = Counter(dbr[c])
  <2>1. x = n \/ x = (n - 1) % Wrap
    BY <1>1, <1>2 DEF DoorbellInv
  <2>2. n % Wrap = n /\ n - 0 = n
    BY WheelSize, RemainderSmall, n \in Int
  <2>3. (n - 1) % Wrap \in 0 .. Wrap - 1
    BY WheelSize, Remainder, n - 1 \in Int
  <2>4. x \in 0 .. Wrap - 1 /\ (x = (n - 0) % Wrap \/ x = (n - 1) % Wrap)
    BY <2>1, <2>2, <2>3
  <2> QED
    BY <1>1, <2>4
<1>3. CASE x = (bell[c][h] + 1) % Wrap
  <2>1. PICK t \in 0 .. 2 : bell[c][h] = (n - 1 - t) % Wrap
    <3>1. PICK t \in 0 .. (IF Unrung(c) THEN 1 ELSE 0) + (IF h = bf[c] THEN 1 ELSE 0) :
              bell[c][h] = (head[c] - 1 - t) % Wrap
      BY DEF DoorbellInv
    <3>2. t \in 0 .. 2
      BY <3>1
    <3> QED
      BY <1>1, <3>1, <3>2
  <2>2. PICK a \in Int, b \in Int : a = n - 1 - t /\ b = 1
    OBVIOUS
  <2>3. ((a % Wrap) + b) % Wrap = (a + b) % Wrap
    BY WheelSize, RemainderShift
  <2>4. a + b = n - t
    BY <2>2
  <2>5. x = (n - t) % Wrap
    BY <1>3, <2>1, <2>2, <2>3, <2>4
  <2>6. (n - t) % Wrap \in 0 .. Wrap - 1
    BY WheelSize, Remainder, n - t \in Int
  <2> QED
    BY <1>1, <2>1, <2>5, <2>6
<1> QED
  BY <1>2, <1>3

\* A doorbell lets the NIC go no further than the head.
LEMMA FetchInside ==
    ASSUME MemoryInv, RingInv, DoorbellInv, NEW c \in Contexts, NEW h \in {0, BfSize},
           Fetch(c, h)
    PROVE  /\ limit' \in [Contexts -> 0 .. Wrap - 1]
           /\ \A b \in Contexts : Allowed(b)' <= Pending(b)
<1>1. PICK x \in {Counter(dbr[c]), (bell[c][h] + 1) % Wrap} :
          limit' = [limit EXCEPT ![c] = Further(c, x)]
  BY DEF Fetch
<1>2. bell[c][h] # NoBell /\ done' = done
  BY DEF Fetch
<1>3. limit \in [Contexts -> 0 .. Wrap - 1]
  BY DEF MemoryInv
<1>4. PICK n \in 0 .. Wrap - 1, d \in 0 .. Wrap - 1, l \in 0 .. Wrap - 1 :
          n = head[c] /\ d = done[c] /\ l = limit[c]
  BY Turns
<1>5. PICK p \in 0 .. Wrap - 1, a \in 0 .. Wrap - 1 :
          /\ p = Pending(c) /\ a = Allowed(c) /\ n = (d + p) % Wrap /\ l = (d + a) % Wrap
          /\ p <= Ring /\ a <= p
  BY <1>4, Turns DEF RingInv
<1>6. PICK y \in 0 .. Wrap - 1, t \in 0 .. 2 : y = x /\ y = (n - t) % Wrap
  BY <1>2, <1>4, Candidates
<1>7. /\ Further(c, x) \in 0 .. Wrap - 1
      /\ (Further(c, x) - d) % Wrap <= p
  <2>1. CASE (y - l) % Wrap <= Ring
    <3>1. Further(c, x) = y
      BY <1>4, <1>6, <2>1 DEF Further
    <3>2. /\ n = (d + p) % Wrap /\ l = (d + a) % Wrap /\ p <= Ring /\ a <= p
          /\ y = (n - t) % Wrap /\ (y - l) % Wrap <= Ring
      BY <1>5, <1>6, <2>1
    <3>3. (y - d) % Wrap <= p
      BY <3>2, FurtherInside
    <3> QED
      BY <3>1, <3>3
  <2>2. CASE ~((y - l) % Wrap <= Ring)
    <3>1. Further(c, x) = l
      BY <1>4, <1>6, <2>2 DEF Further
    <3>2. (l - d) % Wrap <= p
      BY <1>4, <1>5 DEF Allowed
    <3> QED
      BY <3>1, <3>2
  <2> QED
    BY <2>1, <2>2
<1>8. limit' \in [Contexts -> 0 .. Wrap - 1]
  BY <1>1, <1>3, <1>7
<1>9. ASSUME NEW b \in Contexts PROVE Allowed(b)' <= Pending(b)
  <2>1. CASE b = c
    <3>1. limit'[c] = Further(c, x) /\ done'[c] = d
      BY <1>1, <1>2, <1>3, <1>4
    <3>2. Allowed(c)' <= p
      BY <1>7, <3>1 DEF Allowed
    <3> QED
      BY <1>5, <2>1, <3>2
  <2>2. CASE b # c
    <3>1. limit'[b] = limit[b] /\ done'[b] = done[b]
      BY <1>1, <1>2, <1>3, <2>2
    <3>2. Allowed(b)' = Allowed(b)
      BY <3>1 DEF Allowed
    <3> QED
      BY <3>2 DEF RingInv
  <2> QED
    BY <2>1, <2>2
<1> QED
  BY <1>8, <1>9

\* The doorbells mean the same when nobody writes, records or rings.
LEMMA DoorbellsKept ==
    ASSUME DoorbellInv, MemoryInv, UNCHANGED <<head, dbr, bf>>,
           \A c \in Contexts, x \in 0 .. Ring - 1 : ring'[c][x].idx = ring[c][x].idx,
           \A c \in Contexts, h \in {0, BfSize} : bell'[c][h] \in {NoBell, bell[c][h]},
           \A v \in Warps : pc'[v] = pc[v] \/ {pc'[v], pc[v]} \cap {"record", "ring"} = {},
           \A v \in Warps : pc[v] \in {"record", "ring"} => job'[v] = job[v]
    PROVE  DoorbellInv'
<1>1. ASSUME NEW c \in Contexts
      PROVE  (Unrung(c)' <=> Unrung(c)) /\ (Unrecorded(c)' <=> Unrecorded(c))
  <2>1. \A v \in Warps : pc'[v] \in {"record", "ring"} \/ pc[v] \in {"record", "ring"} =>
            pc'[v] = pc[v] /\ C(v)' = C(v)
    BY DEF C
  <2> QED
    BY <2>1 DEF Unrung, Unrecorded
<1> SUFFICES ASSUME NEW c \in Contexts
             PROVE  /\ Counter(dbr'[c]) = IF Unrecorded(c)' THEN (head'[c] - 1) % Wrap ELSE head'[c]
                    /\ \A h \in {0, BfSize} : bell'[c][h] # NoBell =>
                          \E t \in 0 .. (IF Unrung(c)' THEN 1 ELSE 0)
                                        + (IF h = bf'[c] THEN 1 ELSE 0) :
                              bell'[c][h] = (head'[c] - 1 - t) % Wrap
                    /\ Unrung(c)' => ring'[c][Slot(head'[c] - 1)].idx = (head'[c] - 1) % Wrap
  BY DEF DoorbellInv
<1>2. Counter(dbr'[c]) = IF Unrecorded(c)' THEN (head'[c] - 1) % Wrap ELSE head'[c]
  BY <1>1 DEF DoorbellInv
<1>3. ASSUME NEW h \in {0, BfSize}, bell'[c][h] # NoBell
      PROVE  \E t \in 0 .. (IF Unrung(c)' THEN 1 ELSE 0) + (IF h = bf'[c] THEN 1 ELSE 0) :
                 bell'[c][h] = (head'[c] - 1 - t) % Wrap
  <2>1. bell'[c][h] = bell[c][h]
    BY <1>3
  <2> QED
    BY <1>1, <1>3, <2>1 DEF DoorbellInv
<1>4. Slot(head[c] - 1) \in 0 .. Ring - 1
  <2>1. head[c] - 1 \in Int
    BY Turns
  <2> QED
    BY <2>1, Wheel, Remainder DEF Slot
<1>5. Unrung(c)' => ring'[c][Slot(head'[c] - 1)].idx = (head'[c] - 1) % Wrap
  BY <1>1, <1>4 DEF DoorbellInv
<1> QED
  BY <1>2, <1>3, <1>5

\* At most one warp is between the lock and the unlock of a context.
LEMMA OneHolder ==
    ASSUME LockInv, NEW w \in Warps, Holding(w), NEW v \in Warps, v # w,
           pc[v] \in {"record", "ring"}
    PROVE  C(v) # C(w)
  BY DEF LockInv, OneWriter, Holding

\* A step of a warp on its context leaves the doorbells of the others alone.
LEMMA OtherDoorbells ==
    ASSUME DoorbellInv, LockInv, NEW w \in Warps, NEW c \in Contexts, c = C(w),
           pc[w] # "idle", UNCHANGED job,
           \A v \in Warps : v # w => pc'[v] = pc[v],
           NEW b \in Contexts, b # c,
           head'[b] = head[b], dbr'[b] = dbr[b], bf'[b] = bf[b], bell'[b] = bell[b],
           ring'[b] = ring[b]
    PROVE  /\ Counter(dbr'[b]) = IF Unrecorded(b)' THEN (head'[b] - 1) % Wrap ELSE head'[b]
           /\ \A h \in {0, BfSize} : bell'[b][h] # NoBell =>
                 \E t \in 0 .. (IF Unrung(b)' THEN 1 ELSE 0) + (IF h = bf'[b] THEN 1 ELSE 0) :
                     bell'[b][h] = (head'[b] - 1 - t) % Wrap
           /\ Unrung(b)' => ring'[b][Slot(head'[b] - 1)].idx = (head'[b] - 1) % Wrap
<1>1. \A v \in Warps : C(v)' = C(v)
  BY DEF C
<1>2. (Unrung(b)' <=> Unrung(b)) /\ (Unrecorded(b)' <=> Unrecorded(b))
  BY <1>1 DEF Unrung, Unrecorded
<1> QED
  BY <1>2 DEF DoorbellInv

LEMMA WriteDoorbell ==
    ASSUME LockInv, MemoryInv, JobsInv, DoorbellInv, NEW w \in Warps, WriteWqe(w)
    PROVE  DoorbellInv'
<1>1. /\ pc[w] = "write" /\ pc' = [pc EXCEPT ![w] = "record"]
      /\ UNCHANGED <<job, bf, dbr, bell>>
      /\ ring' = [ring EXCEPT ![C(w)][Slot(head[C(w)])] = Wqe(job[w], head[C(w)])]
      /\ head' = [head EXCEPT ![C(w)] = (@ + 1) % Wrap]
  BY DEF WriteWqe, Move
<1>2. /\ pc \in [Warps -> {"idle", "lock", "write", "record", "ring", "unlock"}]
      /\ ring \in [Contexts -> [0 .. Ring - 1 -> Wqes]]
      /\ head \in [Contexts -> 0 .. Wrap - 1]
  BY DEF LockInv, MemoryInv
<1>3. PICK c \in Contexts : c = C(w)
  BY <1>1, JobContext DEF JobsInv, Jobs, C
<1>4. PICK n \in 0 .. Wrap - 1 : n = head[c]
  BY Turns
<1>5. /\ pc'[w] = "record" /\ \A v \in Warps : v # w => pc'[v] = pc[v]
      /\ \A v \in Warps : C(v)' = C(v)
  BY <1>1, <1>2 DEF C
<1>6. Unrung(c)' /\ Unrecorded(c)' /\ ~Unrung(c) /\ ~Unrecorded(c)
  <2>1. Unrung(c)' /\ Unrecorded(c)'
    BY <1>3, <1>5 DEF Unrung, Unrecorded
  <2>2. \A v \in Warps : pc[v] \in {"record", "ring"} => C(v) # c
    BY <1>1, <1>3, OneHolder DEF Holding
  <2> QED
    BY <2>1, <2>2 DEF Unrung, Unrecorded
<1>7. PICK m \in 0 .. Wrap - 1 : m = (n + 1) % Wrap /\ m = head'[c]
  <2>1. (n + 1) % Wrap \in 0 .. Wrap - 1
    BY WheelSize, Remainder, n + 1 \in Int
  <2> QED
    BY <1>1, <1>2, <1>3, <1>4, <2>1
<1>8. \A t \in Int : (m - t) % Wrap = (n + 1 - t) % Wrap
  BY <1>7, OneFurtherBack
<1>9. (m - 1) % Wrap = n
  <2>1. (m - 1) % Wrap = (n + 1 - 1) % Wrap
    BY <1>8, 1 \in Int
  <2>2. n + 1 - 1 = n
    OBVIOUS
  <2>3. n % Wrap = n
    BY WheelSize, RemainderSmall, n \in Int
  <2> QED
    BY <2>1, <2>2, <2>3
<1>10. Counter(dbr'[c]) = (m - 1) % Wrap
  BY <1>1, <1>4, <1>6, <1>9 DEF DoorbellInv
<1>11. ASSUME NEW h \in {0, BfSize}, bell'[c][h] # NoBell
       PROVE  \E t \in 0 .. 1 + (IF h = bf'[c] THEN 1 ELSE 0) :
                  bell'[c][h] = (m - 1 - t) % Wrap
  <2>1. PICK t \in 0 .. 0 + (IF h = bf[c] THEN 1 ELSE 0) : bell[c][h] = (n - 1 - t) % Wrap
    BY <1>1, <1>4, <1>6, <1>11 DEF DoorbellInv
  <2>2. PICK u \in Int : u = 2 + t
    OBVIOUS
  <2>3. m - 1 - (t + 1) = m - u /\ n + 1 - u = n - 1 - t
    BY <2>2
  <2>4. bell'[c][h] = (m - 1 - (t + 1)) % Wrap
    BY <1>1, <1>8, <2>1, <2>2, <2>3
  <2>5. t + 1 \in 0 .. 1 + (IF h = bf'[c] THEN 1 ELSE 0)
    BY <1>1, <2>1
  <2> QED
    BY <2>4, <2>5
<1>12. ring'[c][Slot(m - 1)].idx = (m - 1) % Wrap
  <2>1. Slot(n) \in 0 .. Ring - 1
    BY Wheel, Remainder, n \in Int DEF Slot
  <2>2. ring'[c][Slot(n)] = Wqe(job[w], n)
    BY <1>1, <1>2, <1>3, <1>4, <2>1
  <2>3. Slot(m - 1) = Slot(n)
    <3>1. ((m - 1) % Wrap) % Ring = (m - 1) % Ring
      BY Wheel, RemainderNested, m - 1 \in Int
    <3> QED
      BY <1>9, <3>1 DEF Slot
  <2>4. Wqe(job[w], n).idx = n
    BY DEF Wqe
  <2> QED
    BY <1>9, <2>2, <2>3, <2>4
<1>13. ASSUME NEW b \in Contexts
       PROVE  /\ Counter(dbr'[b]) = IF Unrecorded(b)' THEN (head'[b] - 1) % Wrap ELSE head'[b]
              /\ \A h \in {0, BfSize} : bell'[b][h] # NoBell =>
                    \E t \in 0 .. (IF Unrung(b)' THEN 1 ELSE 0)
                                  + (IF h = bf'[b] THEN 1 ELSE 0) :
                        bell'[b][h] = (head'[b] - 1 - t) % Wrap
              /\ Unrung(b)' => ring'[b][Slot(head'[b] - 1)].idx = (head'[b] - 1) % Wrap
  <2>1. CASE b = c
    BY <1>6, <1>7, <1>10, <1>11, <1>12, <2>1
  <2>2. CASE b # c
    <3>1. /\ head'[b] = head[b] /\ ring'[b] = ring[b] /\ dbr'[b] = dbr[b]
          /\ bf'[b] = bf[b] /\ bell'[b] = bell[b]
      BY <1>1, <1>2, <1>3, <2>2
    <3> QED
      BY <1>1, <1>3, <1>5, <2>2, <3>1, OtherDoorbells
  <2> QED
    BY <2>1, <2>2
<1> QED
  BY <1>13 DEF DoorbellInv

\* The record in memory is big-endian and so is the NIC's reading of it.
LEMMA RecordRead ==
    ASSUME NEW x \in 0 .. Wrap - 1
    PROVE  Counter(Record(x)) = x /\ Record(x) \in Seq(Nat)
<1>1. PICK lo \in Nat, hi \in Nat : /\ lo = x % ByteBase /\ hi = x \div ByteBase
                                    /\ x = hi * ByteBase + lo
  <2>1. x \in 0 .. ByteBase * ByteBase - 1
    BY DEF Wrap
  <2>2. ByteBase \in Nat \ {0} /\ ByteBase \in Nat
    BY Wheel
  <2>3. /\ x \div ByteBase \in 0 .. ByteBase - 1 /\ x % ByteBase \in 0 .. ByteBase - 1
        /\ x = (x \div ByteBase) * ByteBase + (x % ByteBase)
    BY <2>1, <2>2, RadixDigits
  <2> QED
    BY <2>3
<1>2. Record(x) = Reverse(<<lo, hi, 0, 0>>)
  BY <1>1 DEF Record
<1>3. /\ Reverse(<<lo, hi, 0, 0>>) \in Seq(Nat)
      /\ Reverse(<<lo, hi, 0, 0>>)[3] = hi /\ Reverse(<<lo, hi, 0, 0>>)[4] = lo
  BY DEF Reverse
<1> QED
  BY <1>1, <1>2, <1>3 DEF Counter

LEMMA RecordDoorbell ==
    ASSUME LockInv, MemoryInv, JobsInv, DoorbellInv, NEW w \in Warps, StoreRecord(w)
    PROVE  DoorbellInv' /\ dbr' \in [Contexts -> Seq(Nat)]
<1>1. /\ pc[w] = "record" /\ pc' = [pc EXCEPT ![w] = "ring"]
      /\ UNCHANGED <<job, bf, ring, head, bell>>
      /\ dbr' = [dbr EXCEPT ![C(w)] = Record(head[C(w)])]
  BY DEF StoreRecord, Move
<1>2. /\ pc \in [Warps -> {"idle", "lock", "write", "record", "ring", "unlock"}]
      /\ dbr \in [Contexts -> Seq(Nat)]
  BY DEF LockInv, MemoryInv
<1>3. PICK c \in Contexts : c = C(w)
  BY <1>1, JobContext DEF JobsInv, Jobs, C
<1>4. PICK n \in 0 .. Wrap - 1 : n = head[c]
  BY Turns
<1>5. /\ pc'[w] = "ring" /\ \A v \in Warps : v # w => pc'[v] = pc[v]
      /\ \A v \in Warps : C(v)' = C(v)
  BY <1>1, <1>2 DEF C
<1>6. Unrung(c)' /\ Unrung(c) /\ ~Unrecorded(c)'
  <2>1. \A v \in Warps : v # w /\ pc[v] \in {"record", "ring"} => C(v) # c
    BY <1>1, <1>3, OneHolder DEF Holding
  <2> QED
    BY <1>1, <1>3, <1>5, <2>1 DEF Unrung, Unrecorded
<1>7. /\ dbr'[c] = Record(n) /\ \A b \in Contexts : b # c => dbr'[b] = dbr[b]
      /\ dbr' \in [Contexts -> Seq(Nat)]
  BY <1>1, <1>2, <1>3, <1>4, RecordRead
<1>8. Counter(dbr'[c]) = head'[c]
  BY <1>1, <1>4, <1>7, RecordRead
<1>9. /\ \A h \in {0, BfSize} : bell'[c][h] # NoBell =>
            \E t \in 0 .. (IF Unrung(c)' THEN 1 ELSE 0) + (IF h = bf'[c] THEN 1 ELSE 0) :
                bell'[c][h] = (head'[c] - 1 - t) % Wrap
      /\ ring'[c][Slot(head'[c] - 1)].idx = (head'[c] - 1) % Wrap
  BY <1>1, <1>6 DEF DoorbellInv
<1>10. ASSUME NEW b \in Contexts
       PROVE  /\ Counter(dbr'[b]) = IF Unrecorded(b)' THEN (head'[b] - 1) % Wrap ELSE head'[b]
              /\ \A h \in {0, BfSize} : bell'[b][h] # NoBell =>
                    \E t \in 0 .. (IF Unrung(b)' THEN 1 ELSE 0)
                                  + (IF h = bf'[b] THEN 1 ELSE 0) :
                        bell'[b][h] = (head'[b] - 1 - t) % Wrap
              /\ Unrung(b)' => ring'[b][Slot(head'[b] - 1)].idx = (head'[b] - 1) % Wrap
  <2>1. CASE b = c
    BY <1>6, <1>8, <1>9, <2>1
  <2>2. CASE b # c
    BY <1>1, <1>3, <1>5, <1>7, <2>2, OtherDoorbells
  <2> QED
    BY <2>1, <2>2
<1> QED
  BY <1>7, <1>10 DEF DoorbellInv

LEMMA RingingDoorbell ==
    ASSUME LockInv, MemoryInv, JobsInv, DoorbellInv, NEW w \in Warps, RingDoorbell(w)
    PROVE  /\ DoorbellInv' /\ bf' \in [Contexts -> {0, BfSize}]
           /\ bell' \in [Contexts -> [{0, BfSize} -> {NoBell} \cup 0 .. Wrap - 1]]
<1>1. PICK c : c = C(w)
  OBVIOUS
<1>2. /\ pc[w] = "ring" /\ pc' = [pc EXCEPT ![w] = "unlock"]
      /\ UNCHANGED <<job, ring, head, dbr>>
      /\ bell' = [bell EXCEPT ![c][bf[c]] = ring[c][Slot(head[c] - 1)].idx]
      /\ bf' = [bf EXCEPT ![c] = BfSize - @]
  BY <1>1 DEF RingDoorbell, Move
<1>3. c \in Contexts
  BY <1>1, <1>2, JobContext DEF JobsInv, Jobs, C
<1>4. /\ pc \in [Warps -> {"idle", "lock", "write", "record", "ring", "unlock"}]
      /\ bf \in [Contexts -> {0, BfSize}]
      /\ bell \in [Contexts -> [{0, BfSize} -> {NoBell} \cup 0 .. Wrap - 1]]
  BY DEF LockInv, MemoryInv
<1>5. /\ pc'[w] = "unlock" /\ \A v \in Warps : v # w => pc'[v] = pc[v]
      /\ \A v \in Warps : C(v)' = C(v)
  BY <1>2, <1>4 DEF C
<1>6. Unrung(c) /\ ~Unrung(c)' /\ ~Unrecorded(c)' /\ ~Unrecorded(c)
  <2>1. \A v \in Warps : v # w /\ pc[v] \in {"record", "ring"} => C(v) # c
    BY <1>1, <1>2, OneHolder DEF Holding
  <2> QED
    BY <1>1, <1>2, <1>5, <2>1 DEF Unrung, Unrecorded
<1>7. PICK n \in 0 .. Wrap - 1 : n = head[c]
  BY <1>3, Turns
<1>8. PICK x \in 0 .. Wrap - 1 : x = ring[c][Slot(head[c] - 1)].idx /\ x = (n - 1) % Wrap
  <2>1. (n - 1) % Wrap \in 0 .. Wrap - 1
    BY WheelSize, Remainder, n - 1 \in Int
  <2> QED
    BY <1>3, <1>6, <1>7, <2>1 DEF DoorbellInv
<1>9. PICK f \in {0, BfSize} : f = bf[c]
  BY <1>3, <1>4
<1>10. /\ bf'[c] = BfSize - f /\ BfSize - f \in {0, BfSize} /\ BfSize - f # f
       /\ \A b \in Contexts : b # c => bf'[b] = bf[b]
       /\ bf' \in [Contexts -> {0, BfSize}]
  BY <1>2, <1>3, <1>4, <1>9 DEF BfSize
<1>11. /\ bell'[c][f] = x /\ \A h \in {0, BfSize} : h # f => bell'[c][h] = bell[c][h]
       /\ \A b \in Contexts : b # c => bell'[b] = bell[b]
       /\ bell' \in [Contexts -> [{0, BfSize} -> {NoBell} \cup 0 .. Wrap - 1]]
  BY <1>2, <1>3, <1>4, <1>8, <1>9
<1>12. ASSUME NEW h \in {0, BfSize}, bell'[c][h] # NoBell
       PROVE  \E t \in 0 .. 0 + (IF h = bf'[c] THEN 1 ELSE 0) :
                  bell'[c][h] = (n - 1 - t) % Wrap
  <2>1. CASE h = f
    <3>1. n - 1 - 0 = n - 1
      OBVIOUS
    <3>2. bell'[c][h] = (n - 1 - 0) % Wrap
      BY <1>8, <1>11, <2>1, <3>1
    <3>3. 0 \in 0 .. 0 + (IF h = bf'[c] THEN 1 ELSE 0)
      OBVIOUS
    <3> QED
      BY <3>2, <3>3
  <2>2. CASE h # f
    <3>1. PICK t \in 0 .. 1 + (IF h = bf[c] THEN 1 ELSE 0) : bell[c][h] = (n - 1 - t) % Wrap
      BY <1>3, <1>6, <1>7, <1>11, <1>12, <2>2 DEF DoorbellInv
    <3>2. h = bf'[c]
      BY <1>10, <2>2, <1>9 DEF BfSize
    <3>3. t \in 0 .. 0 + (IF h = bf'[c] THEN 1 ELSE 0)
      BY <1>9, <2>2, <3>1, <3>2
    <3> QED
      BY <1>11, <2>2, <3>1, <3>3
  <2> QED
    BY <2>1, <2>2
<1>13. ASSUME NEW b \in Contexts
       PROVE  /\ Counter(dbr'[b]) = IF Unrecorded(b)' THEN (head'[b] - 1) % Wrap ELSE head'[b]
              /\ \A h \in {0, BfSize} : bell'[b][h] # NoBell =>
                    \E t \in 0 .. (IF Unrung(b)' THEN 1 ELSE 0)
                                  + (IF h = bf'[b] THEN 1 ELSE 0) :
                        bell'[b][h] = (head'[b] - 1 - t) % Wrap
              /\ Unrung(b)' => ring'[b][Slot(head'[b] - 1)].idx = (head'[b] - 1) % Wrap
  <2>1. CASE b = c
    <3>1. Counter(dbr'[c]) = head'[c]
      BY <1>2, <1>3, <1>6 DEF DoorbellInv
    <3>2. head'[c] = n
      BY <1>2, <1>7
    <3> QED
      BY <1>6, <1>12, <2>1, <3>1, <3>2
  <2>2. CASE b # c
    BY <1>1, <1>2, <1>3, <1>5, <1>10, <1>11, <2>2, OtherDoorbells
  <2> QED
    BY <2>1, <2>2
<1> QED
  BY <1>10, <1>11, <1>13 DEF DoorbellInv

-----------------------------------------------------------------------------
(* Every step keeps the invariant.                                         *)

LEMMA WqeTyped == \A m \in Wqes : m.idx \in -1 .. Wrap - 1
<1> SUFFICES ASSUME NEW m \in Wqes PROVE m.idx \in -1 .. Wrap - 1
  OBVIOUS
<1>1. CASE m \in [idx : -1 .. Wrap - 1, job : {NoJob}]
  BY <1>1
<1>2. ASSUME NEW j \in AllJobs, NEW x \in 0 .. Wrap - 1, m = Wqe(j, x)
      PROVE  m.idx \in -1 .. Wrap - 1
  <2>1. m.idx = x
    BY <1>2 DEF Wqe
  <2> QED
    BY <2>1, WheelSize
<1> QED
  BY <1>1, <1>2 DEF Wqes

LEMMA WriteMemory ==
    ASSUME LockInv, MemoryInv, JobsInv, NEW w \in Warps, WriteWqe(w)
    PROVE  MemoryInv'
<1>1. PICK c : c = C(w)
  OBVIOUS
<1>2. /\ pc[w] = "write" /\ UNCHANGED <<launch, bf, dbr, bell, limit, done, landed>>
      /\ ring' = [ring EXCEPT ![c][Slot(head[c])] = Wqe(job[w], head[c])]
      /\ head' = [head EXCEPT ![c] = (@ + 1) % Wrap]
  BY <1>1 DEF WriteWqe, Move, nicVars
<1>3. c \in Contexts /\ job[w] \in AllJobs
  BY <1>1, <1>2, JobContext DEF JobsInv, Jobs, C
<1>4. PICK n \in 0 .. Wrap - 1 : n = head[c]
  BY <1>3, Turns
<1>5. (n + 1) % Wrap \in 0 .. Wrap - 1
  BY WheelSize, Remainder, n + 1 \in Int
<1>6. head' \in [Contexts -> 0 .. Wrap - 1]
  <2>1. head \in [Contexts -> 0 .. Wrap - 1]
    BY DEF MemoryInv
  <2> QED
    BY <1>2, <1>3, <1>4, <1>5, <2>1
<1>7. ring' \in [Contexts -> [0 .. Ring - 1 -> Wqes]]
  <2>1. ring \in [Contexts -> [0 .. Ring - 1 -> Wqes]]
    BY DEF MemoryInv
  <2>2. Wqe(job[w], n) \in Wqes
    BY <1>3 DEF Wqes
  <2>3. Slot(n) \in 0 .. Ring - 1
    BY Wheel, Remainder, n \in Int DEF Slot
  <2> QED
    BY <1>2, <1>3, <1>4, <2>1, <2>2, <2>3
<1> QED
  BY <1>2, <1>6, <1>7 DEF MemoryInv

LEMMA ExecuteMemory ==
    ASSUME MemoryInv, RingInv, NEW c \in Contexts, Execute(c)
    PROVE  MemoryInv'
<1>1. /\ UNCHANGED <<launch, head, bf, dbr, bell, limit>>
      /\ done' = [done EXCEPT ![c] = (@ + 1) % Wrap]
      /\ ring' = [ring EXCEPT ![c][done[c] % Ring] =
                     [NoWqe EXCEPT !.idx = ring[c][done[c] % Ring].idx]]
  BY DEF Execute, gpuVars
<1>2. PICK d \in 0 .. Wrap - 1 : d = done[c]
  BY Turns
<1>3. done' \in [Contexts -> 0 .. Wrap - 1]
  <2>1. done \in [Contexts -> 0 .. Wrap - 1]
    BY DEF MemoryInv
  <2>2. (d + 1) % Wrap \in 0 .. Wrap - 1
    BY WheelSize, Remainder, d + 1 \in Int
  <2> QED
    BY <1>1, <1>2, <2>1, <2>2
<1>4. ring' \in [Contexts -> [0 .. Ring - 1 -> Wqes]]
  <2>1. ring \in [Contexts -> [0 .. Ring - 1 -> Wqes]]
    BY DEF MemoryInv
  <2>2. PICK s \in 0 .. Ring - 1 : s = done[c] % Ring
    BY <1>2, Wheel, Remainder, d \in Int
  <2>3. ring[c][s].idx \in -1 .. Wrap - 1
    BY <2>1, WqeTyped
  <2>4. [NoWqe EXCEPT !.idx = ring[c][s].idx] \in Wqes
    BY <2>3 DEF NoWqe, Wqes
  <2> QED
    BY <1>1, <2>1, <2>2, <2>4
<1>5. landed' \subseteq AllJobs
  <2>1. PICK p \in Nat : p = Pending(c)
    BY Turns
  <2>2. p \in 1 .. Ring /\ landed' = landed \cup {Queued(c, 1).job}
    BY <2>1, Popped
  <2>3. 1 \in 1 .. Pending(c)
    BY <2>1, <2>2
  <2>4. PICK r \in AllJobs : Holds(c, 1, r)
    BY <2>3 DEF RingInv
  <2> QED
    BY <2>2, <2>4 DEF Holds, MemoryInv
<1> QED
  BY <1>1, <1>3, <1>4, <1>5 DEF MemoryInv

LEMMA FetchMemory ==
    ASSUME MemoryInv, RingInv, DoorbellInv, NEW c \in Contexts, NEW h \in {0, BfSize},
           Fetch(c, h)
    PROVE  MemoryInv'
<1>1. /\ UNCHANGED <<launch, head, bf, ring, dbr, done, landed>>
      /\ bell' = [bell EXCEPT ![c][h] = NoBell]
  BY DEF Fetch, gpuVars
<1>2. limit' \in [Contexts -> 0 .. Wrap - 1]
  BY FetchInside
<1>3. bell' \in [Contexts -> [{0, BfSize} -> {NoBell} \cup 0 .. Wrap - 1]]
  <2>1. bell \in [Contexts -> [{0, BfSize} -> {NoBell} \cup 0 .. Wrap - 1]]
    BY DEF MemoryInv
  <2> QED
    BY <1>1, <2>1
<1> QED
  BY <1>1, <1>2, <1>3 DEF MemoryInv

LEMMA QueueInvInit == Init => QueueInv
<1> SUFFICES ASSUME Init PROVE QueueInv
  OBVIOUS
<1>1. 0 \in 0 .. Wrap - 1 /\ 0 \in 0 .. Ring - 1 /\ Wrap \in Nat
  BY Wheel
<1>2. NoWqe \in Wqes
  BY WheelSize DEF NoWqe, Wqes
<1>3. LastLaunch \in Nat
  BY WorkQueueAssumption
<1>4. MemoryInv
  <2>1. <<0, 0, 0, 0>> \in Seq(Nat)
    OBVIOUS
  <2> QED
    BY <1>1, <1>2, <1>3, <2>1 DEF Init, MemoryInv
<1>5. \A c \in Contexts : Pending(c) = 0 /\ Allowed(c) = 0
  <2>1. 0 % Wrap = 0 /\ 0 - 0 = 0
    BY <1>1, WheelSize, RemainderSmall
  <2> QED
    BY <2>1 DEF Init, Pending, Allowed
<1>6. \A w \in Warps : ~Unwritten(w) /\ pc[w] = "idle"
  BY DEF Init, Unwritten
<1>7. JobsInv
  <2>1. todo = Jobs(launch) /\ landed = {}
    BY DEF Init
  <2> QED
    BY <1>6, <2>1 DEF JobsInv, Awaited
<1>8. RingInv
  BY <1>5, Wheel DEF RingInv
<1>9. SignalInv
  BY <1>5, <1>6 DEF SignalInv, Init
<1>10. DoorbellInv
  <2>1. \A c \in Contexts : ~Unrung(c) /\ ~Unrecorded(c)
    BY <1>6 DEF Unrung, Unrecorded
  <2>2. Counter(<<0, 0, 0, 0>>) = 0
    <3>1. Counter(<<0, 0, 0, 0>>) = 0 * ByteBase + 0
      BY DEF Counter
    <3>2. 0 * ByteBase + 0 = 0
      BY Wheel
    <3> QED
      BY <3>1, <3>2
  <2>3. \A c \in Contexts, h \in {0, BfSize} : bell[c][h] = NoBell
    BY DEF Init
  <2>4. \A c \in Contexts : Counter(dbr[c]) = head[c]
    BY <2>2 DEF Init
  <2> QED
    BY <2>1, <2>3, <2>4 DEF DoorbellInv
<1> QED
  BY <1>4, <1>7, <1>8, <1>9, <1>10, LockInvInit DEF QueueInv

\* Without a step of the NIC it may go as far as before.
LEMMA AllowedKept ==
    ASSUME RingInv, UNCHANGED <<limit, done>>
    PROVE  \A c \in Contexts : Allowed(c)' <= Pending(c)
  BY DEF RingInv, Allowed

LEMMA QueueInvNext == QueueInv /\ [Next]_vars => QueueInv'
<1> SUFFICES ASSUME QueueInv, [Next]_vars PROVE QueueInv'
  OBVIOUS
<1>1. LockInv /\ MemoryInv /\ JobsInv /\ RingInv /\ DoorbellInv /\ SignalInv
  BY DEF QueueInv
<1>2. LockInv'
  BY <1>1, LockInvNext
<1>3. pc \in [Warps -> {"idle", "lock", "write", "record", "ring", "unlock"}]
      /\ job \in [Warps -> AllJobs \cup {NoJob}]
  BY <1>1 DEF LockInv
<1>4. ASSUME NEW w \in Warps, NEW j \in todo, Take(w, j) PROVE QueueInv'
  <2>1. /\ pc[w] = "idle" /\ pc' = [pc EXCEPT ![w] = "lock"] /\ job' = [job EXCEPT ![w] = j]
        /\ UNCHANGED <<launch, head, bf, ring, dbr, bell, limit, done, landed>>
    BY <1>4 DEF Take, nicVars
  <2>2. JobsInv' /\ RingInv' /\ SignalInv'
    BY <1>1, <1>4, TakeStep
  <2>3. DoorbellInv'
    BY <1>1, <1>3, <2>1, DoorbellsKept
  <2>4. MemoryInv'
    BY <1>1, <2>1 DEF MemoryInv
  <2> QED
    BY <1>2, <2>2, <2>3, <2>4 DEF QueueInv
<1>5. ASSUME NEW w \in Warps, Lock(w) PROVE QueueInv'
  <2>1. /\ pc[w] = "lock" /\ pc' = [pc EXCEPT ![w] = "write"] /\ job' = job
        /\ UNCHANGED <<launch, todo, head, bf, ring, dbr, bell, limit, done, landed>>
    BY <1>5 DEF Lock, Move, nicVars
  <2>2. JobsInv' /\ RingInv' /\ SignalInv'
    <3>1. \A v \in Warps : /\ Unwritten(v)' <=> Unwritten(v)
                           /\ pc'[v] # "idle" => pc[v] # "idle" /\ job'[v] = job[v]
      BY <1>3, <2>1 DEF Unwritten
    <3> QED
      BY <1>1, <2>1, <3>1, AllowedKept, QuietStep
  <2>3. DoorbellInv'
    BY <1>1, <1>3, <2>1, DoorbellsKept
  <2>4. MemoryInv'
    BY <1>1, <2>1 DEF MemoryInv
  <2> QED
    BY <1>2, <2>2, <2>3, <2>4 DEF QueueInv
<1>6. ASSUME NEW w \in Warps, WriteWqe(w) PROVE QueueInv'
  BY <1>1, <1>2, <1>6, WriteStep, WriteDoorbell, WriteMemory DEF QueueInv
<1>7. ASSUME NEW w \in Warps, StoreRecord(w) PROVE QueueInv'
  <2>1. /\ pc[w] = "record" /\ pc' = [pc EXCEPT ![w] = "ring"] /\ job' = job
        /\ UNCHANGED <<launch, todo, head, bf, ring, bell, limit, done, landed>>
    BY <1>7 DEF StoreRecord, Move, nicVars
  <2>2. JobsInv' /\ RingInv' /\ SignalInv'
    <3>1. \A v \in Warps : /\ Unwritten(v)' <=> Unwritten(v)
                           /\ pc'[v] # "idle" => pc[v] # "idle" /\ job'[v] = job[v]
      BY <1>3, <2>1 DEF Unwritten
    <3> QED
      BY <1>1, <2>1, <3>1, AllowedKept, QuietStep
  <2>3. DoorbellInv' /\ dbr' \in [Contexts -> Seq(Nat)]
    BY <1>1, <1>7, RecordDoorbell
  <2>4. MemoryInv'
    BY <1>1, <2>1, <2>3 DEF MemoryInv
  <2> QED
    BY <1>2, <2>2, <2>3, <2>4 DEF QueueInv
<1>8. ASSUME NEW w \in Warps, RingDoorbell(w) PROVE QueueInv'
  <2>1. /\ pc[w] = "ring" /\ pc' = [pc EXCEPT ![w] = "unlock"] /\ job' = job
        /\ UNCHANGED <<launch, todo, head, dbr, ring, limit, done, landed>>
    BY <1>8 DEF RingDoorbell, Move, nicVars
  <2>2. JobsInv' /\ RingInv' /\ SignalInv'
    <3>1. \A v \in Warps : /\ Unwritten(v)' <=> Unwritten(v)
                           /\ pc'[v] # "idle" => pc[v] # "idle" /\ job'[v] = job[v]
      BY <1>3, <2>1 DEF Unwritten
    <3> QED
      BY <1>1, <2>1, <3>1, AllowedKept, QuietStep
  <2>3. /\ DoorbellInv' /\ bf' \in [Contexts -> {0, BfSize}]
        /\ bell' \in [Contexts -> [{0, BfSize} -> {NoBell} \cup 0 .. Wrap - 1]]
    BY <1>1, <1>8, RingingDoorbell
  <2>4. MemoryInv'
    BY <1>1, <2>1, <2>3 DEF MemoryInv
  <2> QED
    BY <1>2, <2>2, <2>3, <2>4 DEF QueueInv
<1>9. ASSUME NEW w \in Warps, Unlock(w) PROVE QueueInv'
  <2>1. /\ pc[w] = "unlock" /\ pc' = [pc EXCEPT ![w] = "idle"]
        /\ job' = [job EXCEPT ![w] = NoJob]
        /\ UNCHANGED <<launch, todo, head, bf, ring, dbr, bell, limit, done, landed>>
    BY <1>9 DEF Unlock, Move, nicVars
  <2>2. JobsInv' /\ RingInv' /\ SignalInv'
    <3>1. \A v \in Warps : /\ Unwritten(v)' <=> Unwritten(v)
                           /\ pc'[v] # "idle" => pc[v] # "idle" /\ job'[v] = job[v]
      BY <1>3, <2>1 DEF Unwritten
    <3> QED
      BY <1>1, <2>1, <3>1, AllowedKept, QuietStep
  <2>3. DoorbellInv'
    BY <1>1, <1>3, <2>1, DoorbellsKept
  <2>4. MemoryInv'
    BY <1>1, <2>1 DEF MemoryInv
  <2> QED
    BY <1>2, <2>2, <2>3, <2>4 DEF QueueInv
<1>10. ASSUME NEW c \in Contexts, NEW h \in {0, BfSize}, Fetch(c, h) PROVE QueueInv'
  <2>1. /\ UNCHANGED <<launch, todo, pc, job, head, bf, ring, dbr, done, landed>>
        /\ bell' = [bell EXCEPT ![c][h] = NoBell]
    BY <1>10 DEF Fetch, gpuVars
  <2>2. JobsInv' /\ RingInv' /\ SignalInv'
    <3>1. \A v \in Warps : /\ Unwritten(v)' <=> Unwritten(v)
                           /\ pc'[v] # "idle" => pc[v] # "idle" /\ job'[v] = job[v]
      BY <2>1 DEF Unwritten
    <3>2. \A b \in Contexts : Allowed(b)' <= Pending(b)
      BY <1>1, <1>10, FetchInside
    <3> QED
      BY <1>1, <2>1, <3>1, <3>2, QuietStep
  <2>3. DoorbellInv'
    <3>1. \A b \in Contexts, g \in {0, BfSize} : bell'[b][g] \in {NoBell, bell[b][g]}
      BY <1>1, <2>1 DEF MemoryInv
    <3> QED
      BY <1>1, <2>1, <3>1, DoorbellsKept
  <2>4. MemoryInv'
    BY <1>1, <1>10, FetchMemory
  <2> QED
    BY <1>2, <2>2, <2>3, <2>4 DEF QueueInv
<1>11. ASSUME NEW c \in Contexts, Execute(c) PROVE QueueInv'
  <2>1. UNCHANGED <<pc, job, head, bf, dbr, bell>>
    BY <1>11 DEF Execute, gpuVars
  <2>2. JobsInv' /\ RingInv' /\ SignalInv'
    BY <1>1, <1>11, ExecuteStep
  <2>3. DoorbellInv'
    <3>1. PICK p \in Nat : p = Pending(c)
      BY <1>1, Turns
    <3>2. \A b \in Contexts, x \in 0 .. Ring - 1 : ring'[b][x].idx = ring[b][x].idx
      BY <1>1, <1>11, <3>1, Popped
    <3> QED
      BY <1>1, <2>1, <3>2, DoorbellsKept
  <2>4. MemoryInv'
    BY <1>1, <1>11, ExecuteMemory
  <2> QED
    BY <1>2, <2>2, <2>3, <2>4 DEF QueueInv
<1>12. ASSUME NextLaunch PROVE QueueInv'
  <2>1. /\ launch \in Launches /\ launch' = launch + 1
        /\ UNCHANGED <<pc, job, head, bf, ring, dbr, bell, limit, done, landed>>
    BY <1>12 DEF NextLaunch, nicVars
  <2>2. JobsInv' /\ RingInv' /\ SignalInv'
    BY <1>1, <1>12, NextLaunchStep
  <2>3. DoorbellInv'
    BY <1>1, <2>1, DoorbellsKept
  <2>4. MemoryInv'
    <3>1. launch' \in 1 .. LastLaunch + 1
      BY <2>1, WorkQueueAssumption DEF Launches
    <3> QED
      BY <1>1, <2>1, <3>1 DEF MemoryInv
  <2> QED
    BY <1>2, <2>2, <2>3, <2>4 DEF QueueInv
<1>13. ASSUME UNCHANGED vars PROVE QueueInv'
  <2>1. UNCHANGED <<launch, todo, pc, job, head, bf, ring, dbr, bell, limit, done, landed>>
    BY <1>13 DEF vars, gpuVars, nicVars
  <2>2. JobsInv' /\ RingInv' /\ SignalInv'
    <3>1. \A v \in Warps : /\ Unwritten(v)' <=> Unwritten(v)
                           /\ pc'[v] # "idle" => pc[v] # "idle" /\ job'[v] = job[v]
      BY <2>1 DEF Unwritten
    <3> QED
      BY <1>1, <2>1, <3>1, AllowedKept, QuietStep
  <2>3. DoorbellInv'
    BY <1>1, <2>1, DoorbellsKept
  <2>4. MemoryInv'
    BY <1>1, <2>1 DEF MemoryInv
  <2> QED
    BY <1>2, <2>2, <2>3, <2>4 DEF QueueInv
<1> QED
  BY <1>4, <1>5, <1>6, <1>7, <1>8, <1>9, <1>10, <1>11, <1>12, <1>13
     DEF Next, WarpStep, NicStep, Finished

LEMMA QueueInvariance == Spec => []QueueInv
  BY QueueInvInit, QueueInvNext, PTL DEF Spec

\* The counters, rings, doorbells and locks of device_mlx5gda keep their types.
THEOREM QueueTypeCorrect == Spec => []TypeOK
<1>1. QueueInv => TypeOK
  BY DEF QueueInv, LockInv, MemoryInv, TypeOK
<1> QED
  BY <1>1, QueueInvariance, PTL

\* A signal is carried out after every row that it announces, in whatever order the
\* warps got the lock and however the NIC learnt of the requests.
THEOREM SignalLastCorrect == Spec => []SignalLast
<1>1. QueueInv => SignalLast
  <2> SUFFICES ASSUME QueueInv, NEW j \in landed, IsSignal(j), NEW i \in Jobs(j.launch),
                      i.dst = j.dst, i.local = j.local
               PROVE  i \in landed
    BY DEF SignalLast
  <2>1. i \in AllJobs /\ i.launch = j.launch
    BY DEF Jobs
  <2>2. j \in AllJobs
    BY DEF QueueInv, MemoryInv
  <2>3. CASE IsSignal(i)
    <3>1. i = j
      BY <2>1, <2>2, <2>3, JobFields DEF IsSignal
    <3> QED
      BY <3>1
  <2>4. CASE ~IsSignal(i)
    BY <2>1, <2>4 DEF QueueInv, SignalInv, RowOf
  <2> QED
    BY <2>3, <2>4
<1> QED
  BY <1>1, QueueInvariance, PTL

\* The row of a request is one of its launch, and both its indices are in their areas.
StageRows(kind) == IF kind = "dispatch" THEN MaxTokens ELSE NumRanks * MaxTokens

LEMMA JobIndices ==
    ASSUME NEW j \in AllJobs, ~IsSignal(j)
    PROVE  /\ j.row \in 0 .. Rows(j.launch, j.dst, j.local) - 1
           /\ j.row \in Slots /\ TokenOf(j) \in Slots /\ WriteIndex(j) \in Slots
           /\ StageIndex(j) \in 0 .. StageRows(Kind(j.launch)) - 1
<1> DEFINE R == Rows(j.launch, j.dst, j.local)
           B == Begin(j.launch, j.dst, j.local)
<1>1. /\ j.launch \in Launches /\ j.dst \in Peers /\ j.local \in Locals
      /\ j.row \in 0 .. MaxTokens /\ j.row < R
  BY JobFields DEF AllJobs
<1>2. R \in 0 .. MaxTokens /\ MaxTokens \in Nat /\ NumRanks * MaxTokens \in Nat
  BY <1>1, WorkQueueAssumption, AddressingAssumption
<1>3. j.row \in 0 .. R - 1 /\ j.row \in Slots
  BY <1>1, <1>2 DEF Slots
<1>4. TokenOf(j) \in Slots /\ B \in Nat /\ B + R <= NumRanks * MaxTokens
  BY <1>1, <1>3, RowAssumption DEF TokenOf
<1>5. B + j.row \in 0 .. NumRanks * MaxTokens - 1
  BY <1>2, <1>3, <1>4
<1> HIDE DEF R, B
<1>6. TokenOf(j) \in 0 .. MaxTokens - 1
  BY <1>4 DEF Slots
<1> QED
  BY <1>3, <1>4, <1>5, <1>6 DEF WriteIndex, StageIndex, StageRows, B, R

LEMMA JobParts ==
    ASSUME NEW j \in AllJobs
    PROVE  /\ j.dst \in Ranks /\ j.local \in Locals /\ Me \in Ranks
           /\ Kind(j.launch) \in {"dispatch", "combine"} /\ Half(j.launch) \in {0, 1}
           /\ j.launch \in Int
<1>1. j.launch \in Launches /\ j.dst \in Peers /\ j.local \in Locals
  BY JobFields
<1>2. j.launch \in Int /\ j.launch % 2 \in {0, 1}
  BY <1>1, WorkQueueAssumption DEF Launches
<1> QED
  BY <1>1, <1>2, WorkQueueAssumption DEF Peers, Kind, Half

\* The staged copy of a row: its place in the sender's data area in messages.
StagePlace(kind, l, n) ==
    IF kind = "dispatch" THEN n ELSE l * (NumRanks * MaxTokens) + n

LEMMA StagePlaced ==
    ASSUME NEW kind \in {"dispatch", "combine"}, NEW l \in Locals,
           NEW n \in 0 .. StageRows(kind) - 1
    PROVE  /\ StagePlace(kind, l, n) \in 0 .. NumExperts * MaxTokens - 1
           /\ StageOffset(kind, l, n) = StagePlace(kind, l, n) * MsgBytes(kind)
<1>1. /\ NumRanks \in Nat \ {0} /\ MaxTokens \in Nat \ {0} /\ LocalExperts \in Nat \ {0}
      /\ NumRanks * MaxTokens \in Nat /\ NumExperts \in Nat \ {0}
      /\ NumExperts * MaxTokens \in Nat
  BY AddressingAssumption, Sizes
<1>2. CASE kind = "dispatch"
  <2>1. MaxTokens <= NumExperts * MaxTokens
    BY <1>1
  <2> QED
    BY <1>1, <1>2, <2>1 DEF StageRows, StagePlace, StageOffset, MsgBytes
<1>3. CASE kind = "combine"
  <2>1. n \in 0 .. NumRanks * MaxTokens - 1 /\ l \in 0 .. LocalExperts - 1
    BY <1>3 DEF StageRows, Locals
  <2>2. l * (NumRanks * MaxTokens) + n \in 0 .. LocalExperts * (NumRanks * MaxTokens) - 1
    BY <1>1, <2>1, RadixBound
  <2>3. LocalExperts * (NumRanks * MaxTokens) = NumExperts * MaxTokens
    BY <1>1 DEF NumExperts
  <2>4. l * NumRanks * MaxTokens = l * (NumRanks * MaxTokens)
    BY <1>1, <2>1
  <2> QED
    BY <1>3, <2>2, <2>3, <2>4 DEF StagePlace, StageOffset, MsgBytes
<1> QED
  BY <1>2, <1>3

\* The staged copy of a row lies in the sender's data area.
LEMMA StageInside ==
    ASSUME NEW kind \in {"dispatch", "combine"}, NEW l \in Locals,
           NEW n \in 0 .. StageRows(kind) - 1
    PROVE  /\ StageOffset(kind, l, n) \in Nat
           /\ StageOffset(kind, l, n) + MsgBytes(kind) <= DataBytes
<1> DEFINE i == StagePlace(kind, l, n)
           N == NumExperts * MaxTokens
           W == 32 + Hidden * 2
           b == MsgBytes(kind)
<1>1. i \in 0 .. N - 1 /\ StageOffset(kind, l, n) = i * b
  BY StagePlaced
<1>2. b \in Nat /\ b <= W /\ W \in Nat /\ N \in Nat /\ DataBytes = N * W
  BY MessageFits, Sizes, HiddenSize, AddressingAssumption
<1> HIDE DEF i, N, W, b
<1>3. i * b + b <= N * b
  BY <1>1, <1>2, StrideOrder
<1>4. N * b <= N * W
  BY <1>2
<1>5. i * b \in Nat /\ N * b \in Int /\ N * W \in Int
  <2>1. \A x, y \in Nat : x * y \in Nat
    OBVIOUS
  <2> QED
    BY <1>1, <1>2, <2>1
<1>6. i * b + b <= DataBytes
  BY <1>2, <1>3, <1>4, <1>5
<1> QED
  BY <1>1, <1>5, <1>6 DEF b

\* A signal word lies in its area, and words of different experts differ.
LEMMA SignalInside ==
    ASSUME NEW kind \in {"dispatch", "combine"}, NEW r \in Ranks, NEW l \in Locals
    PROVE  /\ SignalOffset(kind, r, l) \in Nat
           /\ SignalOffset(kind, r, l) + 4 <= SignalBytes
           /\ \A m \in Locals : l # m =>
                 Apart(<<SignalOffset(kind, r, l), 4>>, <<SignalOffset(kind, r, m), 4>>)
<1> USE AddressingAssumption DEF Ranks, Locals
<1>1. /\ l * NumRanks + r \in 0 .. LocalExperts * NumRanks - 1
      /\ r * LocalExperts + l \in 0 .. NumRanks * LocalExperts - 1
  BY RadixBound
<1>2. LocalExperts * NumRanks = NumExperts /\ NumRanks * LocalExperts = NumExperts
      /\ NumExperts \in Nat
  BY Sizes DEF NumExperts
<1>3. PICK x \in 0 .. NumExperts - 1 : SignalOffset(kind, r, l) = x * 4
                 /\ x = IF kind = "dispatch" THEN l * NumRanks + r ELSE r * LocalExperts + l
  BY <1>1, <1>2 DEF SignalOffset
<1>4. ASSUME NEW m \in Locals, l # m
      PROVE  Apart(<<SignalOffset(kind, r, l), 4>>, <<SignalOffset(kind, r, m), 4>>)
  <2>1. PICK y \in Int : /\ SignalOffset(kind, r, m) = y * 4
                         /\ y = IF kind = "dispatch" THEN m * NumRanks + r
                                ELSE r * LocalExperts + m
    <3>1. m * NumRanks + r \in Int /\ r * LocalExperts + m \in Int
      OBVIOUS
    <3> QED
      BY <3>1 DEF SignalOffset
  <2>2. x # y
    <3>1. CASE kind = "dispatch"
      BY <1>3, <1>4, <2>1, <3>1, RadixUnique
    <3>2. CASE kind = "combine"
      BY <1>3, <1>4, <2>1, <3>2, RadixUnique
    <3> QED
      BY <3>1, <3>2
  <2>3. x * 4 + 4 <= y * 4 \/ y * 4 + 4 <= x * 4
    BY <1>2, <1>3, <2>1, <2>2
  <2> QED
    BY <1>3, <2>1, <2>3 DEF Apart
<1> QED
  BY <1>2, <1>3, <1>4 DEF SignalBytes

LEMMA AreasTyped ==
    ASSUME NEW h \in {0, 1}
    PROVE  /\ SendSignalArea(h) \in Int /\ RecvSignalArea(h) \in Int
           /\ SendDataArea(h) \in Int /\ RecvDataArea(h) \in Int
           /\ SignalBytes \in Nat /\ DataBytes \in Nat
<1>1. SignalBytes \in Nat /\ DataBytes \in Nat
  BY Sizes
<1>2. HalfBase(0) \in Int /\ HalfBase(1) \in Int
  BY <1>1 DEF HalfBase
<1> QED
  BY <1>1, <1>2 DEF SendSignalArea, RecvSignalArea, SendDataArea, RecvDataArea

\* Every request in a ring goes to the peer its queue pair is connected to, writes
\* where that peer reads or polls, and reads from the sender's own area.
THEOREM LandsCorrect == Spec => []LandsWhereRead
<1>1. QueueInv => LandsWhereRead
  <2> SUFFICES ASSUME QueueInv, NEW c \in Contexts, NEW i \in 1 .. Pending(c)
               PROVE  LET m == Queued(c, i)
                          kind == Kind(m.job.launch)
                          half == Half(m.job.launch)
                          g == Me * LocalExperts + m.job.local
                      IN /\ m.rank = PeerRank(c)
                         /\ m.op = "add" =>
                               /\ m.raddr = RecvSignalArea(half) + PollOffset(kind, g)
                               /\ m.laddr >= SendSignalArea(half)
                               /\ m.laddr + m.bytes <= SendSignalArea(half) + SignalBytes
                         /\ m.op = "write" =>
                               /\ kind = "dispatch" =>
                                     m.raddr = RecvDataArea(half)
                                                 + ReadOffset(kind, g, m.job.row)
                               /\ kind = "combine" =>
                                     m.raddr = RecvDataArea(half)
                                                 + ReadOffset(kind, g, TokenOf(m.job))
                               /\ m.laddr >= SendDataArea(half)
                               /\ m.laddr + m.bytes <= SendDataArea(half) + DataBytes
    BY DEF LandsWhereRead
  <2>1. PICK j \in AllJobs : Holds(c, i, j)
    BY DEF QueueInv, RingInv
  <2>2. PICK x : Queued(c, i) = Wqe(j, x)
    BY <2>1 DEF Holds
  <2>3. Queued(c, i).job = j /\ CtxOfJob(j) = c
    BY <2>1 DEF Holds
  <2> DEFINE kind == Kind(j.launch)
             half == Half(j.launch)
             g == Me * LocalExperts + j.local
  <2>4. /\ j.dst \in Ranks /\ j.local \in Locals
        /\ kind \in {"dispatch", "combine"} /\ Me \in Ranks /\ half \in {0, 1}
    BY JobParts
  <2>5. PeerRank(c) = j.dst
    BY <2>3, <2>4, ContextCorrect DEF ContextOfPeer, CtxOfJob
  <2>6. CASE IsSignal(j)
    <3>1. /\ Wqe(j, x).rank = j.dst /\ Wqe(j, x).op = "add" /\ Wqe(j, x).bytes = 4
          /\ Wqe(j, x).raddr = RecvSignalArea(half) + SignalOffset(kind, Me, j.local)
          /\ Wqe(j, x).laddr = SendSignalArea(half) + SignalOffset(kind, Me, j.local)
      BY <2>6 DEF Wqe
    <3>2. 0 \in Slots
      BY AddressingAssumption DEF Slots
    <3>3. PollOffset(kind, g) = SignalOffset(kind, Me, j.local)
      BY <2>4, <3>2, ReadsCorrect DEF ReadsWhereWritten
    <3>4. PICK s \in Nat : s = SignalOffset(kind, Me, j.local) /\ s + 4 <= SignalBytes
      BY <2>4, SignalInside
    <3>5. SendSignalArea(half) \in Int /\ SignalBytes \in Nat
      BY <2>4, AreasTyped
    <3>6. /\ SendSignalArea(half) + s >= SendSignalArea(half)
          /\ SendSignalArea(half) + s + 4 <= SendSignalArea(half) + SignalBytes
      BY <3>4, <3>5
    <3> QED
      BY <2>2, <2>3, <2>5, <3>1, <3>3, <3>4, <3>6
  <2>7. CASE ~IsSignal(j)
    <3>1. /\ Wqe(j, x).rank = j.dst /\ Wqe(j, x).op = "write"
          /\ Wqe(j, x).raddr = RecvDataArea(half)
                                 + RowOffset(kind, Me, j.local, WriteIndex(j))
          /\ Wqe(j, x).laddr = SendDataArea(half)
                                 + StageOffset(kind, j.local, StageIndex(j))
          /\ Wqe(j, x).bytes = MsgBytes(kind)
      BY <2>7 DEF Wqe
    <3>2. /\ WriteIndex(j) \in Slots /\ StageIndex(j) \in 0 .. StageRows(kind) - 1
      BY <2>7, JobIndices
    <3>3. /\ ReadOffset(kind, g, WriteIndex(j)) = RowOffset(kind, Me, j.local, WriteIndex(j))
          /\ kind = "dispatch" => WriteIndex(j) = j.row
          /\ kind = "combine" => WriteIndex(j) = TokenOf(j)
      BY <2>4, <3>2, ReadsCorrect DEF ReadsWhereWritten, WriteIndex
    <3>4. PICK s \in Nat : /\ s = StageOffset(kind, j.local, StageIndex(j))
                           /\ s + MsgBytes(kind) <= DataBytes
      BY <2>4, <3>2, StageInside
    <3>5. MsgBytes(kind) \in Nat /\ DataBytes \in Nat /\ SendDataArea(half) \in Int
      BY <2>4, MessageFits, AreasTyped
    <3>6. /\ SendDataArea(half) + s >= SendDataArea(half)
          /\ SendDataArea(half) + s + MsgBytes(kind) <= SendDataArea(half) + DataBytes
      BY <3>4, <3>5
    <3> QED
      BY <2>2, <2>3, <2>5, <3>1, <3>3, <3>4, <3>6
  <2> QED
    BY <2>6, <2>7
<1> QED
  BY <1>1, QueueInvariance, PTL

\* Where a request writes and stages: inside one area of its half.
Place(m) == <<m.raddr, m.bytes>>
Stage(m) == <<m.laddr, m.bytes>>
Within(p, a) == a[1] <= p[1] /\ p[1] + p[2] <= a[1] + a[2]

LEMMA ApartWithin ==
    ASSUME NEW p \in Int \X Int, NEW q \in Int \X Int, NEW a \in Int \X Int,
           NEW b \in Int \X Int, Within(p, a), Within(q, b), Apart(a, b)
    PROVE  Apart(p, q)
<1>1. /\ p[1] \in Int /\ p[2] \in Int /\ q[1] \in Int /\ q[2] \in Int
      /\ a[1] \in Int /\ a[2] \in Int /\ b[1] \in Int /\ b[2] \in Int
  OBVIOUS
<1> QED
  BY <1>1 DEF Within, Apart

WriteArea(j) == IF IsSignal(j) THEN <<RecvSignalArea(Half(j.launch)), SignalBytes>>
                ELSE <<RecvDataArea(Half(j.launch)), DataBytes>>
StageArea(j) == <<SendDataArea(Half(j.launch)), DataBytes>>

LEMMA WritesInside ==
    ASSUME NEW j \in AllJobs, NEW x
    PROVE  /\ Place(Wqe(j, x)) \in Int \X Int /\ WriteArea(j) \in Int \X Int
           /\ Within(Place(Wqe(j, x)), WriteArea(j))
           /\ ~IsSignal(j) => /\ Stage(Wqe(j, x)) \in Int \X Int
                              /\ StageArea(j) \in Int \X Int
                              /\ Within(Stage(Wqe(j, x)), StageArea(j))
<1> DEFINE kind == Kind(j.launch)
           half == Half(j.launch)
<1>1. /\ j.local \in Locals /\ kind \in {"dispatch", "combine"} /\ Me \in Ranks
      /\ half \in {0, 1}
  BY JobParts
<1>2. /\ RecvSignalArea(half) \in Int /\ SendDataArea(half) \in Int
      /\ RecvDataArea(half) \in Int /\ SignalBytes \in Nat /\ DataBytes \in Nat
  BY <1>1, AreasTyped
<1>3. \A a, s, b, n \in Int :
          s >= 0 /\ s + b <= n => a <= a + s /\ (a + s) + b <= a + n /\ a + s \in Int
  OBVIOUS
<1>4. CASE IsSignal(j)
  <2>1. Place(Wqe(j, x)) = <<RecvSignalArea(half) + SignalOffset(kind, Me, j.local), 4>>
    BY <1>4 DEF Place, Wqe
  <2>2. PICK s \in Nat : s = SignalOffset(kind, Me, j.local) /\ s + 4 <= SignalBytes
    BY <1>1, SignalInside
  <2> QED
    BY <1>2, <1>3, <1>4, <2>1, <2>2 DEF WriteArea, Within
<1>5. CASE ~IsSignal(j)
  <2>1. /\ Place(Wqe(j, x)) = <<RecvDataArea(half)
                                  + RowOffset(kind, Me, j.local, WriteIndex(j)),
                                MsgBytes(kind)>>
        /\ Stage(Wqe(j, x)) = <<SendDataArea(half)
                                  + StageOffset(kind, j.local, StageIndex(j)),
                                MsgBytes(kind)>>
    BY <1>5 DEF Place, Stage, Wqe
  <2>2. WriteIndex(j) \in Slots /\ StageIndex(j) \in 0 .. StageRows(kind) - 1
    BY <1>5, JobIndices
  <2>3. PICK s \in Nat : /\ s = StageOffset(kind, j.local, StageIndex(j))
                         /\ s + MsgBytes(kind) <= DataBytes
    BY <1>1, <2>2, StageInside
  <2>4. MsgBytes(kind) \in Nat
    BY <1>1, MessageFits
  <2>5. PICK r \in Int : /\ r = RowOffset(kind, Me, j.local, WriteIndex(j)) /\ r >= 0
                         /\ r + MsgBytes(kind) <= DataBytes
    <3>1. RowOffset(kind, Me, j.local, WriteIndex(j)) \in Int
      <4>1. \A a, b \in Int : a * b \in Int
        OBVIOUS
      <4> QED
        BY <1>1, <2>2, <2>4, <4>1, RowIndexed
    <3> QED
      BY <1>1, <2>2, <3>1, RowsInsideCorrect DEF RowsInside
  <2>6. Within(Place(Wqe(j, x)), WriteArea(j)) /\ Place(Wqe(j, x)) \in Int \X Int
    BY <1>2, <1>3, <1>5, <2>1, <2>4, <2>5 DEF WriteArea, Within
  <2>7. Within(Stage(Wqe(j, x)), StageArea(j)) /\ Stage(Wqe(j, x)) \in Int \X Int
    BY <1>2, <1>3, <2>1, <2>3, <2>4 DEF StageArea, Within
  <2> QED
    BY <1>2, <2>6, <2>7 DEF WriteArea, StageArea
<1> QED
  BY <1>4, <1>5

\* Areas of different kinds or halves are apart.
LEMMA DifferentAreas ==
    ASSUME NEW i \in AllJobs, NEW j \in AllJobs
    PROVE  /\ WriteArea(i) # WriteArea(j) => Apart(WriteArea(i), WriteArea(j))
           /\ Half(i.launch) # Half(j.launch) =>
                 WriteArea(i) # WriteArea(j) /\ Apart(StageArea(i), StageArea(j))
           /\ ~(IsSignal(i) <=> IsSignal(j)) => WriteArea(i) # WriteArea(j)
<1>1. Half(i.launch) \in {0, 1} /\ Half(j.launch) \in {0, 1}
  BY JobParts
<1>2. /\ WriteArea(i) \in Areas /\ WriteArea(j) \in Areas
      /\ StageArea(i) \in Areas /\ StageArea(j) \in Areas
  BY <1>1 DEF WriteArea, StageArea, Areas, Halves
<1> DEFINE S == SignalBytes
           D == DataBytes
<1>3. S \in Nat \ {0} /\ D \in Nat \ {0}
  BY Sizes
<1>4. /\ RecvSignalArea(0) = S /\ RecvSignalArea(1) = 3 * S + 2 * D
      /\ SendDataArea(0) = 2 * S /\ SendDataArea(1) = 4 * S + 2 * D
      /\ RecvDataArea(0) = 2 * S + D /\ RecvDataArea(1) = 4 * S + 3 * D
  BY <1>3 DEF RecvSignalArea, SendDataArea, RecvDataArea, HalfBase
<1> HIDE DEF S, D
<1>5. /\ RecvSignalArea(0) # RecvSignalArea(1) /\ RecvDataArea(0) # RecvDataArea(1)
      /\ SendDataArea(0) # SendDataArea(1)
      /\ \A a, b \in {0, 1} : RecvSignalArea(a) # RecvDataArea(b)
  BY <1>3, <1>4
<1>6. \A a, b, x, y : a # b => <<a, x>> # <<b, y>>
  OBVIOUS
<1>7. ASSUME ~(IsSignal(i) <=> IsSignal(j)) PROVE WriteArea(i) # WriteArea(j)
  <2>1. CASE IsSignal(i) /\ ~IsSignal(j)
    BY <1>1, <1>5, <1>6, <2>1 DEF WriteArea
  <2>2. CASE IsSignal(j) /\ ~IsSignal(i)
    BY <1>1, <1>5, <1>6, <2>2 DEF WriteArea
  <2> QED
    BY <1>7, <2>1, <2>2
<1>8. ASSUME Half(i.launch) # Half(j.launch)
      PROVE  WriteArea(i) # WriteArea(j) /\ StageArea(i) # StageArea(j)
  BY <1>1, <1>5, <1>6, <1>8 DEF WriteArea, StageArea
<1> QED
  BY <1>2, <1>7, <1>8, LayoutCorrect DEF AreasApart

\* Two bytes ranges keep their distance when both are moved by the same offset.
LEMMA ApartShifted ==
    ASSUME NEW a \in Int, NEW x \in Int, NEW y \in Int, NEW b \in Int,
           Apart(<<x, b>>, <<y, b>>)
    PROVE  Apart(<<a + x, b>>, <<a + y, b>>)
  BY DEF Apart

\* Requests of one launch to one rank write different bytes.
LEMMA SameLaunchWrites ==
    ASSUME NEW i \in AllJobs, NEW j \in AllJobs, i # j, i.launch = j.launch,
           i.dst = j.dst, NEW x, NEW y
    PROVE  Apart(Place(Wqe(i, x)), Place(Wqe(j, y)))
<1> DEFINE kind == Kind(i.launch)
           half == Half(i.launch)
<1>1. /\ i.local \in Locals /\ j.local \in Locals /\ Me \in Ranks
      /\ kind \in {"dispatch", "combine"} /\ half \in {0, 1}
  BY JobParts
<1>2. RecvSignalArea(half) \in Int /\ RecvDataArea(half) \in Int
  BY <1>1, AreasTyped
<1>3. i.local # j.local \/ i.row # j.row
  BY JobFields
<1>4. CASE ~(IsSignal(i) <=> IsSignal(j))
  <2>1. Apart(WriteArea(i), WriteArea(j))
    BY <1>4, DifferentAreas
  <2> QED
    BY <2>1, WritesInside, ApartWithin
<1>5. CASE IsSignal(i) /\ IsSignal(j)
  <2>1. i.local # j.local
    BY <1>3, <1>5 DEF IsSignal
  <2>2. /\ Place(Wqe(i, x)) = <<RecvSignalArea(half) + SignalOffset(kind, Me, i.local), 4>>
        /\ Place(Wqe(j, y)) = <<RecvSignalArea(half) + SignalOffset(kind, Me, j.local), 4>>
    BY <1>5 DEF Place, Wqe
  <2>3. /\ SignalOffset(kind, Me, i.local) \in Int /\ SignalOffset(kind, Me, j.local) \in Int
        /\ Apart(<<SignalOffset(kind, Me, i.local), 4>>,
                 <<SignalOffset(kind, Me, j.local), 4>>)
    <3> HIDE DEF kind, half
    <3> QED
      BY <1>1, <2>1, SignalInside
  <2>4. Apart(<<RecvSignalArea(half) + SignalOffset(kind, Me, i.local), 4>>,
              <<RecvSignalArea(half) + SignalOffset(kind, Me, j.local), 4>>)
    BY <1>2, <2>3, ApartShifted, 4 \in Int
  <2> QED
    BY <2>2, <2>4
<1>6. CASE ~IsSignal(i) /\ ~IsSignal(j)
  <2>1. WriteIndex(i) \in Slots /\ WriteIndex(j) \in Slots
    BY <1>6, JobIndices
  <2>2. i.local # j.local \/ WriteIndex(i) # WriteIndex(j)
    <3>1. SUFFICES ASSUME i.local = j.local PROVE WriteIndex(i) # WriteIndex(j)
      OBVIOUS
    <3>2. i.launch \in Launches /\ i.dst \in Peers
      BY JobFields
    <3>3. /\ i.row \in 0 .. Rows(i.launch, i.dst, i.local) - 1
          /\ j.row \in 0 .. Rows(i.launch, i.dst, i.local) - 1
      BY <1>6, <3>1, JobIndices
    <3>4. TokenOf(i) # TokenOf(j)
      BY <1>1, <1>3, <3>1, <3>2, <3>3, RowAssumption DEF TokenOf
    <3> QED
      BY <1>3, <3>1, <3>4 DEF WriteIndex
  <2>3. <<Me, i.local, WriteIndex(i)>> # <<Me, j.local, WriteIndex(j)>>
    BY <2>2
  <2>4. /\ Place(Wqe(i, x)) = <<RecvDataArea(half)
                                  + RowOffset(kind, Me, i.local, WriteIndex(i)),
                                MsgBytes(kind)>>
        /\ Place(Wqe(j, y)) = <<RecvDataArea(half)
                                  + RowOffset(kind, Me, j.local, WriteIndex(j)),
                                MsgBytes(kind)>>
    BY <1>6 DEF Place, Wqe
  <2>5. Apart(<<RowOffset(kind, Me, i.local, WriteIndex(i)), MsgBytes(kind)>>,
              <<RowOffset(kind, Me, j.local, WriteIndex(j)), MsgBytes(kind)>>)
    BY <1>1, <2>1, <2>3, RowsApartCorrect DEF RowsApart
  <2>6. /\ RowOffset(kind, Me, i.local, WriteIndex(i)) \in Int /\ MsgBytes(kind) \in Int
        /\ RowOffset(kind, Me, j.local, WriteIndex(j)) \in Int
    <3>1. \A a, b \in Int : a * b \in Int
      OBVIOUS
    <3>2. MsgBytes(kind) \in Int
      BY <1>1, MessageFits
    <3> QED
      BY <1>1, <2>1, <3>1, <3>2, RowIndexed
  <2> QED
    BY <1>2, <2>4, <2>5, <2>6, ApartShifted
<1> QED
  BY <1>4, <1>5, <1>6

\* Rows of one launch are staged apart, unless they are copies of one token.
LEMMA SameLaunchStages ==
    ASSUME NEW i \in AllJobs, NEW j \in AllJobs, i # j, i.launch = j.launch,
           ~IsSignal(i), ~IsSignal(j), NEW x, NEW y
    PROVE  \/ Apart(Stage(Wqe(i, x)), Stage(Wqe(j, y)))
           \/ /\ Kind(i.launch) = "dispatch" /\ TokenOf(i) = TokenOf(j)
              /\ Wqe(i, x).laddr = Wqe(j, y).laddr
<1> DEFINE kind == Kind(i.launch)
           half == Half(i.launch)
           p == StagePlace(kind, i.local, StageIndex(i))
           q == StagePlace(kind, j.local, StageIndex(j))
           b == MsgBytes(kind)
<1>1. /\ i.local \in Locals /\ j.local \in Locals
      /\ kind \in {"dispatch", "combine"} /\ half \in {0, 1}
  BY JobParts
<1>2. SendDataArea(half) \in Int /\ b \in Nat
  BY <1>1, AreasTyped, MessageFits
<1>3. /\ StageIndex(i) \in 0 .. StageRows(kind) - 1
      /\ StageIndex(j) \in 0 .. StageRows(kind) - 1
  BY JobIndices
<1>4. /\ p \in Int /\ StageOffset(kind, i.local, StageIndex(i)) = p * b
      /\ q \in Int /\ StageOffset(kind, j.local, StageIndex(j)) = q * b
  BY <1>1, <1>3, StagePlaced
<1>5. /\ Wqe(i, x).laddr = SendDataArea(half) + p * b /\ Wqe(i, x).bytes = b
      /\ Wqe(j, y).laddr = SendDataArea(half) + q * b /\ Wqe(j, y).bytes = b
  BY <1>4 DEF Wqe
<1>6. CASE p # q
  <2> HIDE DEF p, q, b
  <2>1. p * b + b <= q * b \/ q * b + b <= p * b
    BY <1>2, <1>4, <1>6, StrideOrder
  <2>2. p * b \in Int /\ q * b \in Int
    BY <1>2, <1>4
  <2>3. Apart(<<p * b, b>>, <<q * b, b>>)
    BY <2>1 DEF Apart
  <2> QED
    BY <1>2, <1>5, <2>2, <2>3, ApartShifted DEF Stage
<1>7. CASE p = q
  <2>1. CASE kind = "dispatch"
    <3>1. TokenOf(i) = TokenOf(j)
      BY <1>7, <2>1 DEF StagePlace, StageIndex
    <3> QED
      BY <1>5, <1>7, <2>1, <3>1
  <2>2. CASE kind = "combine"
    <3>1. NumRanks * MaxTokens \in Nat
      BY AddressingAssumption
    <3>2. i.local = j.local /\ StageIndex(i) = StageIndex(j)
      <4>1. /\ StageIndex(i) \in 0 .. NumRanks * MaxTokens - 1
            /\ StageIndex(j) \in 0 .. NumRanks * MaxTokens - 1
        BY <1>3, <2>2 DEF StageRows
      <4>2. i.local * (NumRanks * MaxTokens) + StageIndex(i)
              = j.local * (NumRanks * MaxTokens) + StageIndex(j)
        BY <1>7, <2>2 DEF StagePlace
      <4>3. i.local \in Int /\ j.local \in Int
        BY <1>1 DEF Locals
      <4> QED
        BY <3>1, <4>1, <4>2, <4>3, RadixUnique
    <3> DEFINE B == Begin(i.launch, i.dst, i.local)
               A == Begin(i.launch, j.dst, i.local)
               R == Rows(i.launch, i.dst, i.local)
               Q == Rows(i.launch, j.dst, i.local)
    <3>3. i.launch \in Launches /\ i.dst \in Peers /\ j.dst \in Peers
      BY JobFields
    <3>4. i.row \in 0 .. R - 1 /\ j.row \in 0 .. Q - 1
      BY <3>2, JobIndices
    <3>5. B + i.row = A + j.row
      BY <2>2, <3>2 DEF StageIndex
    <3>6. /\ A \in Nat /\ B \in Nat /\ (i.dst # j.dst => B + R <= A \/ A + Q <= B)
      BY <1>1, <3>3, RowAssumption
    <3>7. R \in Nat /\ Q \in Nat
      BY <1>1, <3>3, WorkQueueAssumption
    <3> HIDE DEF A, B, R, Q
    <3>8. i.dst = j.dst
      BY <3>4, <3>5, <3>6, <3>7
    <3>9. i.row = j.row
      BY <3>4, <3>5, <3>6, <3>7, <3>8 DEF A, B
    <3> QED
      BY <3>2, <3>8, <3>9, JobFields
  <2> QED
    BY <1>1, <2>1, <2>2
<1> QED
  BY <1>6, <1>7

\* No two requests still to be carried out write a common byte at a rank, and no two
\* rows are staged over each other, for every routing: also when the requests are of two
\* launches, because these use the two halves of the buffer pair.
THEOREM ApartCorrect == Spec => []OutstandingApart
<1>1. QueueInv => OutstandingApart
  <2> SUFFICES ASSUME QueueInv, NEW c \in Contexts, NEW b \in Contexts,
                      NEW u \in 1 .. Pending(c), NEW v \in 1 .. Pending(b),
                      Queued(c, u).job # Queued(b, v).job
               PROVE  LET m == Queued(c, u)
                          n == Queued(b, v)
                      IN /\ m.rank = n.rank =>
                               Apart(<<m.raddr, m.bytes>>, <<n.raddr, n.bytes>>)
                         /\ m.op = "write" /\ n.op = "write" =>
                               \/ Apart(<<m.laddr, m.bytes>>, <<n.laddr, n.bytes>>)
                               \/ /\ m.job.launch = n.job.launch
                                  /\ Kind(m.job.launch) = "dispatch"
                                  /\ TokenOf(m.job) = TokenOf(n.job)
                                  /\ m.laddr = n.laddr
    BY DEF OutstandingApart
  <2>1. PICK i \in AllJobs : Holds(c, u, i)
    BY DEF QueueInv, RingInv
  <2>2. PICK j \in AllJobs : Holds(b, v, j)
    BY DEF QueueInv, RingInv
  <2>3. PICK x, y : Queued(c, u) = Wqe(i, x) /\ Queued(b, v) = Wqe(j, y)
    BY <2>1, <2>2 DEF Holds
  <2>4. /\ Queued(c, u).job = i /\ Queued(b, v).job = j /\ i # j
        /\ i.launch \in {launch - 1, launch} /\ j.launch \in {launch - 1, launch}
    BY <2>1, <2>2 DEF Holds
  <2>5. /\ Wqe(i, x).rank = i.dst /\ Wqe(j, y).rank = j.dst
        /\ Wqe(i, x).op = "write" => ~IsSignal(i)
        /\ Wqe(j, y).op = "write" => ~IsSignal(j)
    BY DEF Wqe
  <2>6. CASE i.launch = j.launch
    <3>1. i.dst = j.dst => Apart(Place(Wqe(i, x)), Place(Wqe(j, y)))
      BY <2>4, <2>6, SameLaunchWrites
    <3>2. ~IsSignal(i) /\ ~IsSignal(j) =>
              \/ Apart(Stage(Wqe(i, x)), Stage(Wqe(j, y)))
              \/ /\ Kind(i.launch) = "dispatch" /\ TokenOf(i) = TokenOf(j)
                 /\ Wqe(i, x).laddr = Wqe(j, y).laddr
      BY <2>4, <2>6, SameLaunchStages
    <3> QED
      BY <2>3, <2>4, <2>5, <2>6, <3>1, <3>2 DEF Place, Stage
  <2>7. CASE i.launch # j.launch
    <3>1. Half(i.launch) # Half(j.launch)
      <4>1. launch \in Int
        BY WorkQueueAssumption DEF QueueInv, MemoryInv
      <4>2. (launch - 1) % 2 # launch % 2
        BY <4>1
      <4> QED
        BY <2>4, <2>7, <4>2 DEF Half
    <3>2. Apart(WriteArea(i), WriteArea(j)) /\ Apart(StageArea(i), StageArea(j))
      BY <3>1, DifferentAreas
    <3>3. Apart(Place(Wqe(i, x)), Place(Wqe(j, y)))
      BY <3>2, WritesInside, ApartWithin
    <3>4. ~IsSignal(i) /\ ~IsSignal(j) => Apart(Stage(Wqe(i, x)), Stage(Wqe(j, y)))
      BY <3>2, WritesInside, ApartWithin
    <3> QED
      BY <2>3, <2>5, <3>3, <3>4 DEF Place, Stage
  <2> QED
    BY <2>6, <2>7
<1> QED
  BY <1>1, QueueInvariance, PTL

-----------------------------------------------------------------------------
(* The contexts implement RequestQueue.                                    *)

\* The requests of a context that wait for the NIC, oldest first.
Waiting(c) == [i \in 1 .. Pending(c) |-> Queued(c, i).job]

LEMMA AppendIs ==
    ASSUME NEW S, NEW p \in Nat, NEW q \in [1 .. p -> S], NEW r \in [1 .. p + 1 -> S],
           NEW m \in S, \A i \in 1 .. p : r[i] = q[i], r[p + 1] = m
    PROVE  r = Append(q, m)
<1>1. q \in Seq(S) /\ Len(q) = p /\ r \in Seq(S) /\ Len(r) = p + 1
  OBVIOUS
<1>2. /\ Append(q, m) \in Seq(S) /\ Len(Append(q, m)) = p + 1
      /\ \A i \in 1 .. p : Append(q, m)[i] = q[i]
      /\ Append(q, m)[p + 1] = m
  BY <1>1
<1>3. \A i \in 1 .. p + 1 : r[i] = Append(q, m)[i]
  BY <1>2
<1> QED
  BY <1>1, <1>2, <1>3, SeqEqual

LEMMA TailIs ==
    ASSUME NEW S, NEW p \in Nat \ {0}, NEW q \in [1 .. p -> S], NEW r \in [1 .. p - 1 -> S],
           \A i \in 1 .. p - 1 : r[i] = q[i + 1]
    PROVE  r = Tail(q) /\ Head(q) = q[1] /\ q # << >>
<1>1. q \in Seq(S) /\ Len(q) = p /\ r \in Seq(S) /\ Len(r) = p - 1
  OBVIOUS
<1>2. /\ q # << >> /\ Head(q) = q[1]
      /\ Tail(q) \in Seq(S) /\ Len(Tail(q)) = p - 1
      /\ \A i \in 1 .. p - 1 : Tail(q)[i] = q[i + 1]
  BY <1>1
<1>3. \A i \in 1 .. p - 1 : r[i] = Tail(q)[i]
  BY <1>2
<1> QED
  BY <1>1, <1>2, <1>3, SeqEqual

LEMMA WaitingTyped ==
    ASSUME MemoryInv, RingInv, NEW c \in Contexts
    PROVE  /\ Pending(c) \in Nat
           /\ Waiting(c) \in [1 .. Pending(c) -> AllJobs]
           /\ \A i \in 1 .. Pending(c) : Waiting(c)[i] = Queued(c, i).job
<1>1. Pending(c) \in Nat
  BY Turns
<1>2. \A i \in 1 .. Pending(c) : Queued(c, i).job \in AllJobs
  BY DEF RingInv, Holds
<1> QED
  BY <1>1, <1>2 DEF Waiting

\* What stays in the ring of a context stays in its queue.
LEMMA WaitingKept ==
    ASSUME NEW c \in Contexts, Pending(c)' = Pending(c),
           \A i \in 1 .. Pending(c) : Queued(c, i)' = Queued(c, i)
    PROVE  Waiting(c)' = Waiting(c)
  BY DEF Waiting

LEMMA AbstractStutters ==
    ASSUME UNCHANGED <<ring, head, done, landed>>
    PROVE  UNCHANGED Abstract!qvars
<1>1. \A c \in Contexts : Waiting(c)' = Waiting(c)
  <2>1. \A c : Pending(c)' = Pending(c)
    BY DEF Pending
  <2>2. \A c, i : Queued(c, i)' = Queued(c, i)
    BY DEF Queued
  <2> QED
    BY <2>1, <2>2, WaitingKept
<1> QED
  BY <1>1 DEF Abstract!qvars, Waiting

\* Writing an entry of the ring posts its request: it is new, and the last.
LEMMA WriteEnqueues ==
    ASSUME QueueInv, QueueInv', NEW w \in Warps, WriteWqe(w)
    PROVE  Abstract!QNext
<1>1. LockInv /\ MemoryInv /\ JobsInv /\ RingInv /\ MemoryInv' /\ RingInv'
  BY DEF QueueInv
<1>2. pc[w] = "write" /\ landed' = landed
  BY DEF WriteWqe, Move, nicVars
<1>3. PICK r \in AllJobs : r = job[w]
  BY <1>1, <1>2 DEF JobsInv, Jobs
<1>4. PICK c \in Contexts : c = C(w)
  BY <1>3, JobContext DEF C
<1>5. PICK p \in Nat : p = Pending(c) /\ p < Ring
  BY <1>1, <1>2, <1>4, Turns, Room
<1>6. /\ Pending(c)' = p + 1
      /\ \A i \in 1 .. p : Queued(c, i)' = Queued(c, i)
      /\ Queued(c, p + 1)' = Wqe(job[w], head[c])
      /\ \A b \in Contexts : b # c =>
            Pending(b)' = Pending(b) /\ \A i \in Int : Queued(b, i)' = Queued(b, i)
  BY <1>1, <1>4, <1>5, Pushed
<1>7. PICK q : q = Waiting(c)
  OBVIOUS
<1>8. PICK s : s = Waiting(c)'
  OBVIOUS
<1>9. q \in [1 .. p -> AllJobs] /\ \A i \in 1 .. p : q[i] = Queued(c, i).job
  BY <1>1, <1>5, <1>7, WaitingTyped
<1>10. s \in [1 .. p + 1 -> AllJobs] /\ \A i \in 1 .. p + 1 : s[i] = (Queued(c, i).job)'
  <2>1. \A i \in 1 .. Pending(c)' : (Queued(c, i).job)' \in AllJobs
    BY <1>1 DEF RingInv, Holds
  <2> QED
    BY <1>6, <1>8, <2>1 DEF Waiting
<1>11. s = Append(q, r)
  <2>1. \A i \in 1 .. p : s[i] = q[i]
    BY <1>6, <1>9, <1>10
  <2>2. s[p + 1] = r
    <3>1. Wqe(job[w], head[c]).job = job[w]
      BY DEF Wqe
    <3> QED
      BY <1>3, <1>6, <1>10, <3>1
  <2> QED
    BY <1>9, <1>10, <2>1, <2>2, AppendIs
<1>12. \A b \in Contexts : b # c => Waiting(b)' = Waiting(b)
  BY <1>6, WaitingKept
<1>13. r \notin landed /\ \A b \in Contexts : \A i \in 1 .. Pending(b) : Waiting(b)[i] # r
  <2>1. Awaited(r)
    BY <1>2, <1>3 DEF Awaited, Unwritten
  <2>2. r \notin landed
    BY <1>1, <2>1 DEF JobsInv
  <2>3. \A b \in Contexts : \A i \in 1 .. Pending(b) : Queued(b, i).job # r
    BY <1>1, <2>1 DEF RingInv, Holds
  <2> QED
    BY <1>1, <2>2, <2>3, WaitingTyped
<1>14. Abstract!Enqueue(c, r)
  <2> DEFINE Q == [b \in Contexts |-> Waiting(b)]
  <2>1. Q' = [Q EXCEPT ![c] = Append(@, r)]
    BY <1>7, <1>8, <1>11, <1>12
  <2>2. \A b \in Contexts : \A i \in DOMAIN Q[b] : Q[b][i] # r
    BY <1>1, <1>13, WaitingTyped
  <2> QED
    BY <1>2, <1>13, <2>1, <2>2 DEF Abstract!Enqueue, Waiting
<1> QED
  BY <1>14 DEF Abstract!QNext

\* The NIC serves the oldest request.
LEMMA ExecuteServes ==
    ASSUME QueueInv, QueueInv', NEW c \in Contexts, Execute(c)
    PROVE  Abstract!QNext
<1>1. MemoryInv /\ RingInv /\ MemoryInv' /\ RingInv'
  BY DEF QueueInv
<1>2. PICK p \in Nat : p = Pending(c)
  BY <1>1, Turns
<1>3. /\ p \in 1 .. Ring /\ Pending(c)' = p - 1
      /\ \A i \in 1 .. p - 1 : Queued(c, i)' = Queued(c, i + 1)
      /\ landed' = landed \cup {Queued(c, 1).job}
      /\ \A b \in Contexts : b # c =>
            /\ Pending(b)' = Pending(b)
            /\ \A i \in Int : Queued(b, i)' = Queued(b, i)
  BY <1>1, <1>2, Popped
<1>4. PICK q : q = Waiting(c)
  OBVIOUS
<1>5. PICK s : s = Waiting(c)'
  OBVIOUS
<1>6. q \in [1 .. p -> AllJobs] /\ \A i \in 1 .. p : q[i] = Queued(c, i).job
  BY <1>1, <1>2, <1>4, WaitingTyped
<1>7. s \in [1 .. p - 1 -> AllJobs] /\ \A i \in 1 .. p - 1 : s[i] = (Queued(c, i).job)'
  <2>1. \A i \in 1 .. Pending(c)' : (Queued(c, i).job)' \in AllJobs
    BY <1>1 DEF RingInv, Holds
  <2> QED
    BY <1>3, <1>5, <2>1 DEF Waiting
<1>8. s = Tail(q) /\ Head(q) = q[1] /\ q # << >>
  <2>1. \A i \in 1 .. p - 1 : s[i] = q[i + 1]
    <3>1. \A i \in 1 .. p - 1 : i + 1 \in 1 .. p
      OBVIOUS
    <3> QED
      BY <1>3, <1>6, <1>7, <3>1
  <2> QED
    BY <1>3, <1>6, <1>7, <2>1, TailIs
<1>9. \A b \in Contexts : b # c => Waiting(b)' = Waiting(b)
  BY <1>3, WaitingKept
<1>10. Abstract!Serve(c)
  <2> DEFINE Q == [b \in Contexts |-> Waiting(b)]
  <2>1. Q' = [Q EXCEPT ![c] = Tail(@)]
    BY <1>4, <1>5, <1>8, <1>9
  <2>2. Q[c] # << >> /\ landed' = landed \cup {Head(Q[c])}
    BY <1>3, <1>4, <1>6, <1>8
  <2> QED
    BY <2>1, <2>2 DEF Abstract!Serve, Waiting
<1> QED
  BY <1>10 DEF Abstract!QNext

\* The contexts implement unbounded first-in first-out queues: a request is posted
\* once, none is overwritten, and each is carried out once and in order.  (That each is
\* carried out eventually, the rest of ImplementsRequestQueue, needs fairness.)
THEOREM QueueRefinement ==
    Spec => Abstract!QInit /\ [][Abstract!QNext]_(Abstract!qvars)
<1>1. Init => Abstract!QInit
  <2> SUFFICES ASSUME Init PROVE Abstract!QInit
    OBVIOUS
  <2>1. \A c \in Contexts : Pending(c) = 0
    <3>1. 0 % Wrap = 0 /\ 0 - 0 = 0
      BY WheelSize, RemainderSmall
    <3> QED
      BY <3>1 DEF Init, Pending
  <2>2. \A c \in Contexts : Waiting(c) = << >>
    BY <2>1 DEF Waiting
  <2> QED
    BY <2>2 DEF Abstract!QInit, Waiting, Init
<1>2. QueueInv /\ QueueInv' /\ [Next]_vars => [Abstract!QNext]_(Abstract!qvars)
  <2> SUFFICES ASSUME QueueInv, QueueInv', [Next]_vars
               PROVE  Abstract!QNext \/ UNCHANGED Abstract!qvars
    OBVIOUS
  <2>1. ASSUME NEW w \in Warps, WriteWqe(w) PROVE Abstract!QNext
    BY <2>1, WriteEnqueues
  <2>2. ASSUME NEW c \in Contexts, Execute(c) PROVE Abstract!QNext
    BY <2>2, ExecuteServes
  <2>3. ASSUME NEW w \in Warps,
               Lock(w) \/ StoreRecord(w) \/ RingDoorbell(w) \/ Unlock(w)
                 \/ \E j \in todo : Take(w, j)
        PROVE  UNCHANGED Abstract!qvars
    <3>1. UNCHANGED <<ring, head, done, landed>>
      BY <2>3 DEF Lock, StoreRecord, RingDoorbell, Unlock, Take, nicVars
    <3> QED
      BY <3>1, AbstractStutters
  <2>4. ASSUME NEW c \in Contexts, NEW h \in {0, BfSize}, Fetch(c, h)
        PROVE  UNCHANGED Abstract!qvars
    <3>1. UNCHANGED <<ring, head, done, landed>>
      BY <2>4 DEF Fetch, gpuVars
    <3> QED
      BY <3>1, AbstractStutters
  <2>5. ASSUME NextLaunch \/ UNCHANGED vars PROVE UNCHANGED Abstract!qvars
    <3>1. UNCHANGED <<ring, head, done, landed>>
      BY <2>5 DEF NextLaunch, vars, gpuVars, nicVars
    <3> QED
      BY <3>1, AbstractStutters
  <2> QED
    BY <2>1, <2>2, <2>3, <2>4, <2>5 DEF Next, WarpStep, NicStep, Finished
<1> QED
  BY <1>1, <1>2, QueueInvariance, PTL DEF Spec
=============================================================================
