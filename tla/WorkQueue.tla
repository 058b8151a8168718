------------------------------ MODULE WorkQueue ------------------------------
(***************************************************************************)
(* The device side of the queue pairs of one rank (src/src/ep_kernel.cu,   *)
(* lines 15-138, and the four places that post a request): warps of a      *)
(* kernel lock a context, write a request into the ring of its work queue, *)
(* advance the 16-bit head, store the doorbell record and ring the         *)
(* doorbell.  The NIC (external) reads the ring behind them.               *)
(*                                                                         *)
(* Nobody waits for a completion: poll_cq has no caller and wq_tail never  *)
(* moves.  That a ring slot is free when the head comes round to it rests  *)
(* on the exchange itself, see NextLaunch.                                 *)
(***************************************************************************)
EXTENDS Addressing, Sequences, SequencesExt

CONSTANTS
    Me,               \* rank: the sender
    Warps,            \* the warps that post at the same time
    ByteBase,         \* 256
    Ring,             \* num_wqebb: entries of a work queue
    LastLaunch,       \* bound: launches
    Rows(_, _, _),    \* Rows(k, d, l): rows of launch k for rank d; l is the
                      \* expert at rank d of a dispatch, the one here of a combine
    Token(_, _, _, _),\* Token(k, d, l, n): the token of the n-th of these rows,
                      \* token_idx of a dispatch and src_idx of a combine
    Begin(_, _, _)    \* Begin(k, d, l): where the rows for rank d begin among the
                      \* packed rows of expert l that a combine returns

Wrap     == ByteBase * ByteBase          \* wq_head is 16 bits wide
Peers    == Ranks \ {Me}
Contexts == 0 .. UseQpCount - 1
Launches == 1 .. LastLaunch
BfSize   == 256                          \* MLX5GDA_BF_SIZE

\* Launches alternate the kernels and the halves of the buffer pair.
Kind(k) == IF k % 2 = 1 THEN "dispatch" ELSE "combine"
Half(k) == k % 2

\* One request of a launch: a row (0 .. MaxTokens - 1) or, after all rows of
\* its expert, the signal.
IsSignal(j) == j.row = MaxTokens
AllJobs ==
    {j \in [launch : Launches, dst : Peers, local : Locals, row : 0 .. MaxTokens] :
        j.row < Rows(j.launch, j.dst, j.local) \/ IsSignal(j)}
Jobs(k) == {j \in AllJobs : j.launch = k}
CtxOfJob(j) == Ctx(j.dst, j.local)

\* What one launch posts to one context.
PerLaunch(k, c) == Cardinality({j \in Jobs(k) : CtxOfJob(j) = c})

\* wq_head counts through the ring without a seam when the ring size divides
\* 2^16; two launches' requests fit in it at once.  The code creates rings of
\* 16384 entries and checks neither the tokens nor the experts per context.
\* The two halves of a doorbell page hold indexes at most two behind the head,
\* which must not look like indexes ahead of it.
ASSUME WorkQueueAssumption ==
    /\ Me \in Ranks /\ LastLaunch \in Nat
    /\ ByteBase \in Nat \ {0, 1} /\ Ring \in Nat \ {0}
    /\ Wrap % Ring = 0 /\ Wrap > Ring + 2
    /\ \A k \in Launches, d \in Peers, l \in Locals : Rows(k, d, l) \in 0 .. MaxTokens
    /\ \A k \in Launches, c \in Contexts :
           PerLaunch(k, c) + (IF k > 1 THEN PerLaunch(k - 1, c) ELSE 0) <= Ring

\* An expert has one row of a token; the rows that a combine returns are those of
\* the layout ranges which the dispatch before it wrote (Dispatch checks both, as
\* SignalCoversRows and OutputMatchesRange).
ASSUME RowAssumption ==
    \A k \in Launches, d \in Peers, l \in Locals :
        /\ \A n \in 0 .. Rows(k, d, l) - 1 : Token(k, d, l, n) \in Slots
        /\ \A n, p \in 0 .. Rows(k, d, l) - 1 :
               Token(k, d, l, n) = Token(k, d, l, p) => n = p
        /\ Begin(k, d, l) \in Nat
        /\ Begin(k, d, l) + Rows(k, d, l) <= NumRanks * MaxTokens
        /\ \A e \in Peers : d # e =>
               \/ Begin(k, d, l) + Rows(k, d, l) <= Begin(k, e, l)
               \/ Begin(k, e, l) + Rows(k, e, l) <= Begin(k, d, l)

VARIABLES
    launch,   \* the launch that runs
    todo,     \* its requests that no warp has taken up
    pc, job,  \* how far a warp is, and the request it is posting
    mutex,    \* ctx->mutex
    head,     \* ctx->wq_head
    ring,     \* ctx->wq
    dbr,      \* ctx->dbr->send_counter, as the four bytes in memory
    bf,       \* ctx->bf_offset
    bell,     \* the two halves of the doorbell page: the index last written
    limit,    \* the NIC may carry out requests up to this index
    done,     \* the index of the request the NIC carries out next
    landed    \* requests that have been carried out

gpuVars == <<launch, todo, pc, job, mutex, head, bf>>
nicVars == <<limit, done, landed>>
vars    == <<gpuVars, ring, dbr, bell, nicVars>>

NoJob  == [launch |-> 0]
NoWqe  == [idx |-> -1, job |-> NoJob]
NoBell == -1

Init ==
    /\ launch = 1 /\ todo = Jobs(1)
    /\ pc = [w \in Warps |-> "idle"] /\ job = [w \in Warps |-> NoJob]
    /\ mutex = [c \in Contexts |-> 0] /\ head = [c \in Contexts |-> 0]
    /\ ring = [c \in Contexts |-> [i \in 0 .. Ring - 1 |-> NoWqe]]
    /\ dbr = [c \in Contexts |-> <<0, 0, 0, 0>>]
    /\ bf = [c \in Contexts |-> 0]
    /\ bell = [c \in Contexts |-> [h \in {0, BfSize} |-> NoBell]]
    /\ limit = [c \in Contexts |-> 0] /\ done = [c \in Contexts |-> 0]
    /\ landed = {}

-----------------------------------------------------------------------------
(* A warp posts one request.                                               *)

\* Mutant: a signal does not wait for the rows of its expert.
ReadyAlways(j) == TRUE

\* Rows may be posted at any time; the signal when the finish counter (dispatch)
\* or the barrier of the group (combine) says that the rows have been posted.
Ready(j) ==
    IsSignal(j) => \A i \in Jobs(launch) :
        i.dst = j.dst /\ i.local = j.local /\ ~IsSignal(i) =>
            i \notin todo /\ \A w \in Warps : job[w] # i

Take(w, j) ==
    /\ pc[w] = "idle" /\ Ready(j)
    /\ todo' = todo \ {j}
    /\ job' = [job EXCEPT ![w] = j] /\ pc' = [pc EXCEPT ![w] = "lock"]
    /\ UNCHANGED <<launch, mutex, head, bf, ring, dbr, bell, nicVars>>

C(w) == CtxOfJob(job[w])
Move(w, from, to) == pc[w] = from /\ pc' = [pc EXCEPT ![w] = to]

\* Mutant: the exchange's result is not looked at.
LockBlindly(c) == TRUE

LockFree(c) == mutex[c] = 0

Lock(w) ==
    /\ Move(w, "lock", "write") /\ LockFree(C(w))
    /\ mutex' = [mutex EXCEPT ![C(w)] = 1]
    /\ UNCHANGED <<launch, todo, job, head, bf, ring, dbr, bell, nicVars>>

TokenOf(j) == Token(j.launch, j.dst, j.local, j.row)

\* Mutants: the packed position for the token, the slot for the token.
WriteIndexPacked(j) == j.row
StageIndexSlot(j)   == j.row

\* A dispatch sends a token from its own place in the staging area into the slot
\* the counter gave it; a combine stages a row at its packed position and writes
\* it at the place of its token.
WriteIndex(j) == IF Kind(j.launch) = "dispatch" THEN j.row ELSE TokenOf(j)
StageIndex(j) == IF Kind(j.launch) = "dispatch" THEN TokenOf(j)
                 ELSE Begin(j.launch, j.dst, j.local) + j.row

\* The request: where it writes at the rank it names, where its bytes come from
\* (a signal's old value is returned there), and its index.
Wqe(j, idx) ==
    LET kind == Kind(j.launch)
        half == Half(j.launch)
    IN IF IsSignal(j)
       THEN [op |-> "add", idx |-> idx, rank |-> j.dst, bytes |-> 4, job |-> j,
             raddr |-> RecvSignalArea(half) + SignalOffset(kind, Me, j.local),
             laddr |-> SendSignalArea(half) + SignalOffset(kind, Me, j.local)]
       ELSE [op |-> "write", idx |-> idx, rank |-> j.dst, job |-> j,
             bytes |-> MsgBytes(kind),
             raddr |-> RecvDataArea(half) + RowOffset(kind, Me, j.local, WriteIndex(j)),
             laddr |-> SendDataArea(half) + StageOffset(kind, j.local, StageIndex(j))]

\* Mutant: the mask is one entry short.
SlotShort(idx) == idx % (Ring - 1)

Slot(idx) == idx % Ring                  \* wq_head & wqeid_mask

WriteWqe(w) ==
    /\ Move(w, "write", "record")
    /\ ring' = [ring EXCEPT ![C(w)][Slot(head[C(w)])] = Wqe(job[w], head[C(w)])]
    /\ head' = [head EXCEPT ![C(w)] = (@ + 1) % Wrap]
    /\ UNCHANGED <<launch, todo, job, mutex, bf, dbr, bell, nicVars>>

\* Mutant: the counter is stored in the order of the host.
RecordHostOrder(x) == <<x % ByteBase, x \div ByteBase, 0, 0>>

\* device_byteswap((uint32_t)wq_head): the bytes of the counter as they lie in
\* memory, most significant first.
Record(x) == Reverse(<<x % ByteBase, x \div ByteBase, 0, 0>>)

StoreRecord(w) ==
    /\ Move(w, "record", "ring")
    /\ dbr' = [dbr EXCEPT ![C(w)] = Record(head[C(w)])]
    /\ UNCHANGED <<launch, todo, job, mutex, head, bf, ring, bell, nicVars>>

\* The first word of the last request goes to the doorbell page, whose two
\* halves take turns.
RingDoorbell(w) ==
    LET c == C(w)
    IN /\ Move(w, "ring", "unlock")
       /\ bell' = [bell EXCEPT ![c][bf[c]] = ring[c][Slot(head[c] - 1)].idx]
       /\ bf' = [bf EXCEPT ![c] = BfSize - @]
       /\ UNCHANGED <<launch, todo, job, mutex, head, ring, dbr, nicVars>>

Unlock(w) ==
    /\ Move(w, "unlock", "idle")
    /\ mutex' = [mutex EXCEPT ![C(w)] = 0]
    /\ job' = [job EXCEPT ![w] = NoJob]
    /\ UNCHANGED <<launch, todo, head, bf, ring, dbr, bell, nicVars>>

-----------------------------------------------------------------------------
(* The NIC (external).                                                     *)

\* The low 16 bits of a doorbell record, which is big-endian.
Counter(bytes) == bytes[3] * ByteBase + bytes[4]

\* Counters are compared on the circle; one that is behind is ignored.
Further(c, x) == IF (x - limit[c]) % Wrap <= Ring THEN x ELSE limit[c]

\* A doorbell makes the NIC look how far it may go: in the record, or at the
\* index that was written to the doorbell page.
Fetch(c, h) ==
    /\ bell[c][h] # NoBell
    /\ \E x \in {Counter(dbr[c]), (bell[c][h] + 1) % Wrap} :
           limit' = [limit EXCEPT ![c] = Further(c, x)]
    /\ bell' = [bell EXCEPT ![c][h] = NoBell]
    /\ UNCHANGED <<gpuVars, ring, dbr, done, landed>>

\* A reliable connection carries out its requests one after the other.  Of an
\* entry that was carried out only the index is kept: nothing else is read.
Execute(c) ==
    LET m == ring[c][done[c] % Ring]
    IN /\ done[c] # limit[c]
       /\ landed' = landed \cup {m.job}
       /\ ring' = [ring EXCEPT ![c][done[c] % Ring] = [NoWqe EXCEPT !.idx = m.idx]]
       /\ done' = [done EXCEPT ![c] = (@ + 1) % Wrap]
       /\ UNCHANGED <<gpuVars, dbr, bell, limit>>

-----------------------------------------------------------------------------
\* A launch returns after it has received the other ranks' signals of its round,
\* which they send after they have received this rank's signals of the round
\* before: what is left in the queues then is of this round (Exchange checks
\* it as BacklogTwoRounds).
OldRequestsDone(k) == \A i \in Launches : i < k => Jobs(i) \subseteq landed

NextLaunch ==
    /\ launch \in Launches /\ todo = {} /\ \A w \in Warps : pc[w] = "idle"
    /\ OldRequestsDone(launch)
    /\ launch' = launch + 1
    /\ todo' = IF launch < LastLaunch THEN Jobs(launch + 1) ELSE {}
    /\ UNCHANGED <<pc, job, mutex, head, bf, ring, dbr, bell, nicVars>>

\* All launches have returned and every request has been carried out.
Finished ==
    /\ launch = LastLaunch + 1 /\ landed = AllJobs /\ UNCHANGED vars

WarpStep(w) ==
    \/ \E j \in todo : Take(w, j)
    \/ Lock(w) \/ WriteWqe(w) \/ StoreRecord(w) \/ RingDoorbell(w) \/ Unlock(w)

NicStep(c) == Execute(c) \/ \E h \in {0, BfSize} : Fetch(c, h)

Next ==
    \/ \E w \in Warps : WarpStep(w)
    \/ \E c \in Contexts : NicStep(c)
    \/ NextLaunch \/ Finished

Spec == Init /\ [][Next]_vars

\* The warps of a launched kernel keep running, a spinning warp included, and
\* the NIC serves every doorbell and every connection.
Fairness ==
    /\ \A w \in Warps : WF_vars(WarpStep(w))
    /\ \A c \in Contexts : /\ WF_vars(Execute(c))
                           /\ \A h \in {0, BfSize} : WF_vars(Fetch(c, h))
    /\ WF_vars(NextLaunch)

FairSpec == Spec /\ Fairness

-----------------------------------------------------------------------------
(* Properties.                                                             *)

Holding(w) == pc[w] \in {"write", "record", "ring", "unlock"}

\* Type invariant of the contexts and of the NIC's counters.
TypeOK ==
    /\ launch \in 1 .. LastLaunch + 1 /\ todo \subseteq AllJobs
    /\ pc \in [Warps -> {"idle", "lock", "write", "record", "ring", "unlock"}]
    /\ job \in [Warps -> AllJobs \cup {NoJob}]
    /\ mutex \in [Contexts -> {0, 1}]
    /\ head \in [Contexts -> 0 .. Wrap - 1]
    /\ bf \in [Contexts -> {0, BfSize}]
    /\ bell \in [Contexts -> [{0, BfSize} -> {NoBell} \cup 0 .. Wrap - 1]]
    /\ limit \in [Contexts -> 0 .. Wrap - 1] /\ done \in [Contexts -> 0 .. Wrap - 1]
    /\ landed \subseteq AllJobs

\* Two warps never write the same context at once, and its mutex is taken
\* exactly while one does: no request is lost to a race on wq_head.
OneWriter ==
    /\ \A v, w \in Warps : Holding(v) /\ Holding(w) /\ C(v) = C(w) => v = w
    /\ \A c \in Contexts : mutex[c] = 1 <=> \E w \in Warps : Holding(w) /\ C(w) = c

\* A signal arrives after all rows it announces: rows and signal of an expert
\* share a context, whatever the order in which the warps got the lock.
SignalLast ==
    \A j \in landed : IsSignal(j) =>
        \A i \in Jobs(j.launch) : i.dst = j.dst /\ i.local = j.local => i \in landed

Pending(c)   == (head[c] - done[c]) % Wrap
Queued(c, i) == ring[c][(done[c] + i - 1) % Ring]

\* Every request the NIC may still carry out goes to the rank its queue pair is
\* connected to and writes where that rank looks for it in the launch that posted
\* it: the word its group polls, the slot it reads next for an expert's row, the
\* place of its own token for a returned row; the bytes come from this rank's own
\* area of the same half (ep_kernel.cu:198, 247, 391, 673-680, 790).
LandsWhereRead ==
    \A c \in Contexts : \A i \in 1 .. Pending(c) :
        LET m == Queued(c, i)
            kind == Kind(m.job.launch)
            half == Half(m.job.launch)
            g == Me * LocalExperts + m.job.local
        IN /\ m.rank = PeerRank(c)
           /\ m.op = "add" =>
                 /\ m.raddr = RecvSignalArea(half) + PollOffset(kind, g)
                 /\ m.laddr >= SendSignalArea(half)
                 /\ m.laddr + m.bytes <= SendSignalArea(half) + SignalBytes
           /\ m.op = "write" =>
                 /\ kind = "dispatch" =>
                       m.raddr = RecvDataArea(half) + ReadOffset(kind, g, m.job.row)
                 /\ kind = "combine" =>
                       m.raddr = RecvDataArea(half) + ReadOffset(kind, g, TokenOf(m.job))
                 /\ m.laddr >= SendDataArea(half)
                 /\ m.laddr + m.bytes <= SendDataArea(half) + DataBytes

\* No two requests that are still to be carried out, of the same launch or of two
\* launches, of the same or of two contexts, write a common byte at a rank; nor
\* are two rows staged over each other, except that the copies of one dispatched
\* token are sent from one place.
OutstandingApart ==
    \A c, b \in Contexts : \A i \in 1 .. Pending(c), k \in 1 .. Pending(b) :
        LET m == Queued(c, i)
            n == Queued(b, k)
        IN m.job # n.job =>
               /\ m.rank = n.rank => Apart(<<m.raddr, m.bytes>>, <<n.raddr, n.bytes>>)
               /\ m.op = "write" /\ n.op = "write" =>
                     \/ Apart(<<m.laddr, m.bytes>>, <<n.laddr, n.bytes>>)
                     \/ /\ m.job.launch = n.job.launch /\ Kind(m.job.launch) = "dispatch"
                        /\ TokenOf(m.job) = TokenOf(n.job) /\ m.laddr = n.laddr

Abstract == INSTANCE RequestQueue WITH
    Requests <- AllJobs,
    queue    <- [c \in Contexts |-> [i \in 1 .. Pending(c) |-> Queued(c, i).job]],
    served   <- landed

\* The contexts implement queues of unbounded length: no slot is overwritten
\* before the NIC has read it, none is carried out twice or before it is
\* complete, the order of posting is kept across the wrap of wq_head, and every
\* posted request is carried out.
ImplementsRequestQueue == Abstract!QSpec

\* All launches come to their end: neither the locks nor the rings block.
LaunchesEnd == <>(launch = LastLaunch + 1)
=============================================================================
