------------------------------ MODULE Dispatch ------------------------------
(***************************************************************************)
(* The dispatch kernel of one rank (src/src/ep_kernel.cu, dispatch).       *)
(*                                                                         *)
(* The grid has NumSMs thread blocks.  In the send part every routed       *)
(* (token, selection) pair is sent by one warp of the block that owns the  *)
(* token; the last warp of block 0 cleans the signal words of the next     *)
(* buffer; the last warp of every block counts the tokens of the block's   *)
(* experts; the leader of an expert waits until its finish counter shows   *)
(* 2 * Tag and then publishes the number of tokens as a signal.  After a   *)
(* grid barrier the same warp groups receive: group g serves source rank   *)
(* g \div LocalExperts and local expert g % LocalExperts.                  *)
(*                                                                         *)
(* The signal words this launch receives in start at zero: that the        *)
(* previous launch cleaned them, on every rank, in time is what the module *)
(* Exchange is about.                                                      *)
(***************************************************************************)
EXTENDS Integers, FiniteSets

CONSTANTS
    NumRanks,      \* num_ranks
    LocalExperts,  \* num_experts / num_ranks
    WarpGroups,    \* kNumWarpGroups: experts served by one thread block
    MaxTokens,     \* num_max_dispatch_tokens_per_rank
    NumTopK,       \* num_topk
    Rank,          \* the rank that runs the kernel
    Tag,           \* FINISHED_SUM_TAG
    Routings,      \* the topk_idx tables a launch may be given
    PeerCounts,    \* the token counts a peer may announce
    Timeouts       \* timeout_ticks # -1

NumExperts == NumRanks * LocalExperts
Experts    == 0 .. NumExperts - 1
Ranks      == 0 .. NumRanks - 1
Locals     == 0 .. LocalExperts - 1
Items      == (0 .. MaxTokens - 1) \X (0 .. NumTopK - 1)

\* A selection of -1 (or a token beyond num_tokens) is sent nowhere.
Unrouted == -1

\* The experts selected for one token are distinct.
IsRouting(f) ==
    /\ f \in [Items -> Experts \cup {Unrouted}]
    /\ \A i, j \in Items : i[1] = j[1] /\ i # j /\ f[i] # Unrouted => f[i] # f[j]

ASSUME SizeAssumption ==
    /\ NumRanks \in Nat \ {0} /\ LocalExperts \in Nat \ {0}
    /\ WarpGroups \in Nat \ {0} /\ MaxTokens \in Nat /\ NumTopK \in Nat
    /\ Rank \in Ranks
    /\ Tag \in Nat \ {0}

ASSUME InputAssumption ==
    /\ \A f \in Routings : IsRouting(f)
    /\ PeerCounts \subseteq 0 .. MaxTokens
    /\ Timeouts \in BOOLEAN

\* cell_div(num_experts, kNumWarpGroups), and EP_DEVICE_ASSERT(num_sms > 1).
NumSMs == (NumExperts + WarpGroups - 1) \div WarpGroups
SMs    == 0 .. NumSMs - 1
ASSUME SmAssumption == NumSMs > 1

TokenSM(i)  == i[1] % NumSMs       \* token_idx = sm_id, sm_id + num_sms, ...
ExpertSM(e) == e \div WarpGroups   \* responsible_expert_idx
DstRank(e)  == e \div LocalExperts
LocalIdx(e) == e % LocalExperts
SignalWord(local, src) == local * NumRanks + src

VARIABLES
    mode,        \* "idle", "send" or "recv": the part of the kernel in progress
    recvPending, \* the running or last launch had only the send phase
    both,        \* the running launch has both phases
    route,       \* topk_idx of the launch
    step,        \* progress of each item in its warp
    slot,        \* slot_idx of each item
    counter,     \* atomic_counter_per_expert
    finish,      \* atomic_finish_counter_per_expert
    cleaned,     \* next_clean_buffer has been zeroed
    tagged,      \* experts whose finish counter got the cleaner's Tag
    counted,     \* experts whose finish counter got Tag - sum
    synced,      \* blocks past __syncthreads
    leader,      \* progress of each expert's leader
    outbox,      \* rows this launch has written for each expert: <<slot, token>>
    signal,      \* rdma_recv_signal_buffer of this rank
    recv,        \* progress of each receiving group
    packed,      \* packed_recv_count
    range,       \* packed_recv_layout_range: <<count, begin>>
    rows,        \* packed_recv_x per local expert: <<row, source, index>>
    active       \* active_ranks

sendVars == <<step, slot, counter, finish, cleaned, tagged, counted, synced,
              leader, outbox>>
recvVars == <<signal, recv, packed, range, rows, active>>
ctrlVars == <<mode, recvPending, both, route>>
vars     == <<sendVars, recvVars, ctrlVars>>

Assigned(e) == {i \in Items : route[i] = e}
InStep(e, s) == {i \in Assigned(e) : step[i] \in s}
Taken(e)    == InStep(e, {"slotted", "written", "finished"})
Written(e)  == InStep(e, {"written", "finished"})
Finished(e) == InStep(e, {"finished"})
ItemDone(i) == route[i] = Unrouted \/ step[i] = "finished"

-----------------------------------------------------------------------------
NoRange == <<0, 0>>

Init ==
    /\ mode = "idle" /\ recvPending = FALSE /\ both = FALSE
    /\ route = [i \in Items |-> Unrouted]
    /\ step = [i \in Items |-> "waiting"]
    /\ slot = [i \in Items |-> 0]
    /\ counter = [e \in Experts |-> 0]
    /\ finish = [e \in Experts |-> 0]
    /\ cleaned = FALSE /\ tagged = {} /\ counted = {} /\ synced = {}
    /\ leader = [e \in Experts |-> "done"]
    /\ outbox = [e \in Experts |-> {}]
    /\ signal = [w \in Experts |-> 0]
    /\ recv = [g \in Experts |-> "done"]
    /\ packed = [l \in Locals |-> 0]
    /\ range = [x \in Locals \X Ranks |-> NoRange]
    /\ rows = [l \in Locals |-> {}]
    /\ active = [r \in Ranks |-> TRUE]

\* A launch whose phases include the send phase.  The buffer is the other one
\* of the pair, so its signal words are zero; the layout and the rows are fresh
\* output tensors of the caller; the counters and packed_recv_count hold
\* whatever the previous launch left there.
LaunchSend(f, ph) ==
    /\ mode = "idle" /\ ~recvPending
    /\ mode' = "send" /\ both' = (ph = "both") /\ recvPending' = (ph = "send")
    /\ route' = f
    /\ step' = [i \in Items |-> "waiting"]
    /\ slot' = [i \in Items |-> 0]
    /\ cleaned' = FALSE /\ tagged' = {} /\ counted' = {} /\ synced' = {}
    /\ leader' = [e \in Experts |-> "wait"]
    /\ outbox' = [e \in Experts |-> {}]
    /\ signal' = [w \in Experts |-> 0]
    /\ recv' = [g \in Experts |-> "wait"]
    /\ range' = [x \in Locals \X Ranks |-> NoRange]
    /\ rows' = [l \in Locals |-> {}]
    /\ UNCHANGED <<counter, finish, packed, active>>

\* A launch with the receive phase only: it follows its send-only launch.
LaunchRecv ==
    /\ mode = "idle" /\ recvPending
    /\ mode' = "recv" /\ recvPending' = FALSE
    /\ UNCHANGED <<both, route, sendVars, recvVars>>

-----------------------------------------------------------------------------
(* Send part: token warps.                                                 *)

\* bar.sync 1 of a token: every warp of the block has finished the block's
\* earlier tokens.
AtBarrier(i) ==
    \A j \in Items : TokenSM(j) = TokenSM(i) /\ j[1] < i[1] => ItemDone(j)

\* Mutant: the value after the increment instead of the one before it.
NextSlotAfterAdd(e) == counter[e] + 1

\* The old value that atomicAdd returns.
NextSlot(e) == counter[e]

TakeSlot(i) ==
    /\ mode = "send" /\ step[i] = "waiting" /\ route[i] # Unrouted
    /\ AtBarrier(i)
    /\ slot' = [slot EXCEPT ![i] = NextSlot(route[i])]
    /\ counter' = [counter EXCEPT ![route[i]] = @ + 1]
    /\ step' = [step EXCEPT ![i] = "slotted"]
    /\ UNCHANGED <<finish, cleaned, tagged, counted, synced, leader, outbox,
                   recvVars, ctrlVars>>

WriteRow(i) ==
    /\ mode = "send" /\ step[i] = "slotted"
    /\ outbox' = [outbox EXCEPT ![route[i]] = @ \cup {<<slot[i], i[1]>>}]
    /\ step' = [step EXCEPT ![i] = "written"]
    /\ UNCHANGED <<slot, counter, finish, cleaned, tagged, counted, synced,
                   leader, recvVars, ctrlVars>>

FinishItem(i) ==
    /\ mode = "send" /\ step[i] = "written"
    /\ finish' = [finish EXCEPT ![route[i]] = @ + 1]
    /\ step' = [step EXCEPT ![i] = "finished"]
    /\ UNCHANGED <<slot, counter, cleaned, tagged, counted, synced, leader,
                   outbox, recvVars, ctrlVars>>

-----------------------------------------------------------------------------
(* Send part: the last warp of every block, __syncthreads, the leaders.    *)

CleanNext ==
    /\ mode = "send" /\ ~cleaned
    /\ cleaned' = TRUE
    /\ UNCHANGED <<step, slot, counter, finish, tagged, counted, synced, leader,
                   outbox, recvVars, ctrlVars>>

TagExpert(e) ==
    /\ mode = "send" /\ cleaned /\ e \notin tagged
    /\ finish' = [finish EXCEPT ![e] = @ + Tag]
    /\ tagged' = tagged \cup {e}
    /\ UNCHANGED <<step, slot, counter, cleaned, counted, synced, leader, outbox,
                   recvVars, ctrlVars>>

\* Mutant: the tag without the number of rows to wait for.
CountTagOnly(e) == Tag

\* FINISHED_SUM_TAG - sum.
CountTag(e) == Tag - Cardinality(Assigned(e))

\* The last warp of block 0 counts after it has cleaned and tagged; a block
\* publishes its experts in order.
CountExpert(e) ==
    /\ mode = "send" /\ e \notin counted
    /\ ExpertSM(e) = 0 => tagged = Experts
    /\ \A f \in Experts : ExpertSM(f) = ExpertSM(e) /\ f < e => f \in counted
    /\ finish' = [finish EXCEPT ![e] = @ + CountTag(e)]
    /\ counted' = counted \cup {e}
    /\ UNCHANGED <<step, slot, counter, cleaned, tagged, synced, leader, outbox,
                   recvVars, ctrlVars>>

SyncThreads(s) ==
    /\ mode = "send" /\ s \notin synced
    /\ \A i \in Items : TokenSM(i) = s => ItemDone(i)
    /\ \A e \in Experts : ExpertSM(e) = s => e \in counted
    /\ synced' = synced \cup {s}
    /\ UNCHANGED <<step, slot, counter, finish, cleaned, tagged, counted, leader,
                   outbox, recvVars, ctrlVars>>

SignalOf(n)  == -n - 1
CountOf(v)   == -v - 1

\* Mutant: any tag will do.
ReadyToSignalEarly(e) == finish[e] >= Tag

\* The leader's wait is over.
ReadyToSignal(e) == finish[e] = 2 * Tag

\* The signal of an expert of another rank leaves this rank (Exchange follows
\* it); the one of a local expert is a store into this rank's own words.
SendSignal(e) ==
    /\ mode = "send" /\ leader[e] = "wait" /\ ExpertSM(e) \in synced
    /\ ReadyToSignal(e)
    /\ leader' = [leader EXCEPT ![e] = "sent"]
    /\ signal' = IF DstRank(e) = Rank
                 THEN [signal EXCEPT ![SignalWord(LocalIdx(e), Rank)] =
                                         SignalOf(Cardinality(Assigned(e)))]
                 ELSE signal
    /\ UNCHANGED <<step, slot, counter, finish, cleaned, tagged, counted, synced,
                   outbox, recv, packed, range, rows, active, ctrlVars>>

\* Mutants: a counter lowered by one instead of cleared; a packed_recv_count
\* that keeps the rows of the previous launch.
LoweredByOne(c, e) == [c EXCEPT ![e] = @ - 1]
PackedKept(e) == packed

Cleared(c, e) == [c EXCEPT ![e] = 0]
PackedReset(e) == IF DstRank(e) = 0 THEN [packed EXCEPT ![LocalIdx(e)] = 0]
                  ELSE packed

ResetCounters(e) ==
    /\ mode = "send" /\ leader[e] = "sent"
    /\ leader' = [leader EXCEPT ![e] = "done"]
    /\ counter' = Cleared(counter, e)
    /\ finish' = Cleared(finish, e)
    /\ packed' = PackedReset(e)
    /\ UNCHANGED <<step, slot, cleaned, tagged, counted, synced, outbox, signal,
                   recv, range, rows, active, ctrlVars>>

\* Mutant: the blocks do not wait for each other's leaders.
SendDoneNoLeaders == synced = SMs

SendDone == synced = SMs /\ \A e \in Experts : leader[e] = "done"

\* cooperative_groups::this_grid().sync() of a launch with both phases.
GridSync ==
    /\ mode = "send" /\ both /\ SendDone
    /\ mode' = "recv"
    /\ UNCHANGED <<recvPending, both, route, sendVars, recvVars>>

\* The early return of a launch without the receive phase.
ReturnSend ==
    /\ mode = "send" /\ ~both /\ SendDone
    /\ mode' = "idle"
    /\ UNCHANGED <<recvPending, both, route, sendVars, recvVars>>

-----------------------------------------------------------------------------
(* Receive part.                                                           *)

WordOf(g) == SignalWord(LocalIdx(g), DstRank(g))

\* atomicAdd on packed_recv_count, then the layout range.
Claim(g, n) ==
    /\ packed' = [packed EXCEPT ![LocalIdx(g)] = @ + n]
    /\ range' = [range EXCEPT ![<<LocalIdx(g), DstRank(g)>>] =
                                  <<n, packed[LocalIdx(g)]>>]
    /\ recv' = [recv EXCEPT ![g] = "copy"]
    /\ UNCHANGED <<signal, rows, sendVars, ctrlVars>>

ReceiveSignal(g) ==
    /\ mode = "recv" /\ recv[g] = "wait" /\ signal[WordOf(g)] # 0
    /\ Claim(g, CountOf(signal[WordOf(g)]))
    /\ UNCHANGED active

\* The signal is still zero when the time is up, or the source rank was
\* already marked inactive: zero tokens are received from it.
GiveUp(g) ==
    /\ mode = "recv" /\ recv[g] = "wait" /\ signal[WordOf(g)] = 0
    /\ Timeouts \/ ~active[DstRank(g)]
    /\ active' = [active EXCEPT ![DstRank(g)] = FALSE]
    /\ Claim(g, CountOf(-1))

\* Mutant: the begin of the range is ignored.
OutputRowAtZero(r, i) == i

\* The row of the output that the i-th row of range r goes to.
OutputRow(r, i) == r[2] + i

CopyRows(g) ==
    /\ mode = "recv" /\ recv[g] = "copy"
    /\ LET l == LocalIdx(g)
           s == DstRank(g)
           r == range[<<l, s>>]
       IN rows' = [rows EXCEPT ![l] = @ \cup
                      {<<OutputRow(r, i), s, i>> : i \in 0 .. r[1] - 1}]
    /\ recv' = [recv EXCEPT ![g] = "done"]
    /\ UNCHANGED <<signal, packed, range, active, sendVars, ctrlVars>>

ReturnRecv ==
    /\ mode = "recv" /\ \A g \in Experts : recv[g] = "done"
    /\ mode' = "idle"
    /\ UNCHANGED <<recvPending, both, route, sendVars, recvVars>>

\* A peer's signal lands in this rank's words (store over NVLink or RDMA
\* atomic add to a zero word: the same value).  Modelled from what the peer's
\* SendSignal publishes.
PeerSignal(l, s, n) ==
    /\ mode # "idle" \/ recvPending
    /\ s # Rank /\ signal[SignalWord(l, s)] = 0
    /\ signal' = [signal EXCEPT ![SignalWord(l, s)] = SignalOf(n)]
    /\ UNCHANGED <<recv, packed, range, rows, active, sendVars, ctrlVars>>

-----------------------------------------------------------------------------
Next ==
    \/ \E f \in Routings, ph \in {"both", "send"} : LaunchSend(f, ph)
    \/ LaunchRecv
    \/ \E i \in Items : TakeSlot(i) \/ WriteRow(i) \/ FinishItem(i)
    \/ CleanNext
    \/ \E e \in Experts : TagExpert(e) \/ CountExpert(e)
                          \/ SendSignal(e) \/ ResetCounters(e)
    \/ \E s \in SMs : SyncThreads(s)
    \/ GridSync \/ ReturnSend
    \/ \E g \in Experts : ReceiveSignal(g) \/ GiveUp(g) \/ CopyRows(g)
    \/ ReturnRecv
    \/ \E l \in Locals, s \in Ranks, n \in PeerCounts : PeerSignal(l, s, n)

Spec == Init /\ [][Next]_vars

\* The grid is launched cooperatively, so every block is resident and every
\* warp keeps running; a launched kernel never waits for the host.  Peers that
\* are alive signal every word; with timeouts nothing is asked of them.
Fairness ==
    /\ \A i \in Items : WF_vars(TakeSlot(i) \/ WriteRow(i) \/ FinishItem(i))
    /\ WF_vars(CleanNext)
    /\ \A e \in Experts : /\ WF_vars(TagExpert(e)) /\ WF_vars(CountExpert(e))
                          /\ WF_vars(SendSignal(e) \/ ResetCounters(e))
                          /\ WF_vars(ReceiveSignal(e) \/ GiveUp(e)
                                     \/ CopyRows(e))
    /\ \A s \in SMs : WF_vars(SyncThreads(s))
    /\ WF_vars(GridSync \/ ReturnSend \/ ReturnRecv)
    /\ WF_vars(LaunchRecv)
    /\ ~Timeouts => \A l \in Locals, s \in Ranks :
                        WF_vars(\E n \in PeerCounts : PeerSignal(l, s, n))

FairSpec == Spec /\ Fairness

-----------------------------------------------------------------------------
(* Properties.                                                             *)

\* Type invariant of the kernel's counters, progress markers and buffers.
TypeOK ==
    /\ mode \in {"idle", "send", "recv"}
    /\ recvPending \in BOOLEAN /\ both \in BOOLEAN
    /\ route \in [Items -> Experts \cup {Unrouted}]
    /\ step \in [Items -> {"waiting", "slotted", "written", "finished"}]
    /\ slot \in [Items -> Nat]
    /\ counter \in [Experts -> Nat]
    /\ finish \in [Experts -> Int]
    /\ cleaned \in BOOLEAN
    /\ tagged \subseteq Experts /\ counted \subseteq Experts
    /\ synced \subseteq SMs
    /\ leader \in [Experts -> {"wait", "sent", "done"}]
    /\ outbox \in [Experts -> SUBSET (Nat \X Nat)]
    /\ signal \in [Experts -> Int]
    /\ recv \in [Experts -> {"wait", "copy", "done"}]
    /\ packed \in [Locals -> Int]
    /\ range \in [Locals \X Ranks -> Int \X Int]
    /\ active \in [Ranks -> BOOLEAN]

\* When the leader of an expert publishes its signal, every row routed to the
\* expert has been written, into the slots 0 .. n-1 and one row per slot, and
\* the next buffer has been cleaned: the finish counter reaches 2 * Tag for no
\* other reason (ep_kernel.cu:316).
SignalCoversRows ==
    \A e \in Experts :
        mode = "send" /\ leader[e] # "wait" =>
            /\ cleaned
            /\ {r[2] : r \in outbox[e]} = {i[1] : i \in Assigned(e)}
            /\ {r[1] : r \in outbox[e]} = 0 .. Cardinality(Assigned(e)) - 1
            /\ \A r, q \in outbox[e] : r[1] = q[1] => r = q

\* A row is never written outside the region its source rank has at the
\* destination: num_max_dispatch_tokens_per_rank rows per expert.
RowsInRegion == \A e \in Experts : \A r \in outbox[e] : r[1] < MaxTokens

\* Between launches the workspace is all zero again; the next launch, and the
\* combine kernel that uses word 0 as its clean flag, rely on it.
WorkspaceRestored ==
    mode # "send" => \A e \in Experts : counter[e] = 0 /\ finish[e] = 0

\* Received rows are packed: the ranges handed out for one local expert do not
\* overlap and leave no hole, although the groups claim them in any order.
Packed ==
    mode = "recv" =>
        \A l \in Locals :
            LET claimed == {s \in Ranks : recv[s * LocalExperts + l] # "wait"}
                begin(s) == range[<<l, s>>][2]
                rangeOf(s) == begin(s) .. begin(s) + range[<<l, s>>][1] - 1
            IN /\ UNION {rangeOf(s) : s \in claimed} = 0 .. packed[l] - 1
               /\ \A s, t \in claimed : s # t => rangeOf(s) \cap rangeOf(t) = {}

\* When the kernel returns, the layout range tells the caller all there is to
\* know of the output: for every source rank exactly count rows, the i-th one at
\* begin + i; these rows fill 0 .. packed_recv_count - 1, one row per place; and
\* the count of a rank still active is the one its signal announced, so no row
\* that was sent is lost (ep_kernel.cu:371-411).
OutputMatchesRange ==
    mode = "idle" /\ ~recvPending =>
        \A l \in Locals :
            LET count(s) == range[<<l, s>>][1]
                begin(s) == range[<<l, s>>][2]
            IN /\ rows[l] = UNION {{<<begin(s) + i, s, i>> : i \in 0 .. count(s) - 1}
                                    : s \in Ranks}
               /\ {r[1] : r \in rows[l]} = 0 .. packed[l] - 1
               /\ \A r, q \in rows[l] : r[1] = q[1] => r = q
               /\ \A s \in Ranks :
                      active[s] /\ signal[SignalWord(l, s)] # 0 =>
                          signal[SignalWord(l, s)] = SignalOf(count(s))

\* A rank never declares itself dead: its own signals are stored before the
\* grid barrier that precedes the wait.
SelfStaysActive == active[Rank]

(* What the counters mean while a launch sends: the strengthening that makes *)
(* SignalCoversRows and WorkspaceRestored inductive.                         *)

FinishValue(e) ==
    (IF e \in tagged THEN Tag ELSE 0)
    + (IF e \in counted THEN Tag - Cardinality(Assigned(e)) ELSE 0)
    + Cardinality(Finished(e))

CounterMeaning ==
    \A e \in Experts :
        IF mode = "send" /\ leader[e] # "done"
        THEN counter[e] = Cardinality(Taken(e)) /\ finish[e] = FinishValue(e)
        ELSE counter[e] = 0 /\ finish[e] = 0

\* Each block passes __syncthreads after its experts are counted, tags follow
\* the cleaning, and a leader leaves its wait only when all rows are finished.
ProgressOrder ==
    mode = "send" =>
        \A e \in Experts :
            /\ e \in tagged => cleaned
            /\ ExpertSM(e) \in synced => e \in counted
            /\ leader[e] # "wait" => /\ cleaned /\ e \in tagged /\ e \in counted
                                     /\ Finished(e) = Assigned(e)

\* The slots handed out so far are 0 .. k-1, each to one item, and the rows
\* written are those of the items past their copy.
SlotMeaning ==
    mode = "send" =>
        \A e \in Experts :
            /\ \A i \in Taken(e) : slot[i] \in 0 .. Cardinality(Taken(e)) - 1
            /\ \A i, j \in Taken(e) : slot[i] = slot[j] => i = j
            /\ \A n \in 0 .. Cardinality(Taken(e)) - 1 :
                   \E i \in Taken(e) : slot[i] = n
            /\ outbox[e] = {<<slot[i], i[1]>> : i \in Written(e)}

SendInv == CounterMeaning /\ ProgressOrder /\ SlotMeaning

\* The rank's own signal words are set once their leaders have published, and
\* so they all are before a receiving group looks: the strengthening of
\* SelfStaysActive.
OwnWord(e)   == SignalWord(LocalIdx(e), Rank)
Published(e) == IF mode = "send" THEN leader[e] # "wait"
                ELSE mode = "recv" \/ recvPending
OwnSignals   == \A e \in Experts :
                    DstRank(e) = Rank /\ Published(e) => signal[OwnWord(e)] # 0

\* Every launch returns: no warp waits for ever for a counter, a barrier or a
\* signal.
LaunchReturns == mode # "idle" ~> mode = "idle"
=============================================================================
