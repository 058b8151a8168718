------------------------------ MODULE Combine ------------------------------
(***************************************************************************)
(* The combine kernel of one rank (src/src/ep_kernel.cu, combine).         *)
(*                                                                         *)
(* Group g has SubWarps warps.  It returns to rank g \div LocalExperts the *)
(* rows that rank dispatched to local expert g % LocalExperts, then its    *)
(* leader (sub-warp 1) publishes the group's signal once the clean flag is *)
(* not zero; sub-warp 0 of group 0 cleans the next buffer and raises the   *)
(* flag by num_experts, every leader lowers it by one.  Sub-warp 0 of each *)
(* group then waits for the signal of group g of the other side; after a   *)
(* grid barrier every block reduces its tokens.                            *)
(*                                                                         *)
(* The grid barrier is only defined in a cooperative launch.  The source   *)
(* launches combine without the cooperative attribute (the lines that set  *)
(* it are commented out), and then the barrier aborts the kernel.          *)
(***************************************************************************)
EXTENDS Integers, FiniteSets

CONSTANTS
    NumRanks, LocalExperts,
    SubWarps,      \* kNumWarpsPerGroup
    Rank,
    Layouts,       \* layout_range: rows each group has to return
    Tokens,        \* num_combined_tokens
    Needs,         \* topk_idx: the experts each token was dispatched to
    Timeouts,      \* timeout_ticks # -1
    LaunchAttrs    \* values of cudaLaunchAttributeCooperative a launch may have:
                   \* {FALSE} is what the host code does

NumExperts == NumRanks * LocalExperts
Groups == 0 .. NumExperts - 1
Ranks  == 0 .. NumRanks - 1
TokenIds == 0 .. Tokens - 1

ASSUME CombineAssumption ==
    /\ NumRanks \in Nat \ {0} /\ LocalExperts \in Nat \ {0}
    /\ SubWarps \in Nat \ {0, 1}
    /\ Rank \in Ranks /\ Tokens \in Nat
    /\ Layouts \subseteq [Groups -> Nat]
    /\ Needs \in [TokenIds -> SUBSET Groups]
    /\ Timeouts \in BOOLEAN /\ LaunchAttrs \subseteq BOOLEAN

Peer(g)  == g \div LocalExperts
Local(g) == g % LocalExperts
GlobalExpert(l) == Rank * LocalExperts + l

VARIABLES
    mode,        \* "idle", "run", "reduce" or "aborted"
    phases,      \* phases of the launch: a subset of {"send", "recv"}
    cooperative, \* the running launch is cooperative
    recvPending, \* the last launch had only the send phase
    layout,      \* num_tokens_to_send of each group
    sent,        \* rows each group has copied or posted
    cleaner,     \* progress of the cleaning warp: next_clean_buffer zeroed, flag
                 \* raised
    flag,        \* *atomic_clean_flag
    leader,      \* progress of each group's leader
    published,   \* groups whose signal has left in this launch
    signal,      \* rdma_recv_signal_buffer of this rank, by sending expert
    landed,      \* experts whose rows for this rank are in the receive buffer
    waiter,      \* progress of each group's sub-warp 0
    active,      \* active_ranks
    reduced      \* combined_x: the experts each token was reduced over

launchVars == <<mode, phases, cooperative, recvPending, layout>>
sendVars   == <<sent, cleaner, flag, leader, published>>
recvVars   == <<signal, landed, waiter, active, reduced>>
vars       == <<launchVars, sendVars, recvVars>>

Init ==
    /\ mode = "idle" /\ phases = {} /\ cooperative = TRUE /\ recvPending = FALSE
    /\ layout = [g \in Groups |-> 0]
    /\ sent = [g \in Groups |-> {}]
    /\ cleaner = "done" /\ flag = 0
    /\ leader = [g \in Groups |-> "done"]
    /\ published = {}
    /\ signal = [g \in Groups |-> 0]
    /\ landed = {}
    /\ waiter = [g \in Groups |-> "done"]
    /\ active = [r \in Ranks |-> TRUE]
    /\ reduced = [t \in TokenIds |-> {}]

\* A launch with the send phase, on a buffer whose signal words are zero
\* (Exchange) and whose rows are those of an older round.
LaunchSend(lay, ph, coop) ==
    /\ mode = "idle" /\ ~recvPending
    /\ mode' = "run" /\ phases' = ph /\ cooperative' = coop
    /\ recvPending' = ("recv" \notin ph)
    /\ layout' = lay
    /\ sent' = [g \in Groups |-> {}]
    /\ cleaner' = "clean"
    /\ leader' = [g \in Groups |-> "rows"]
    /\ published' = {}
    /\ signal' = [g \in Groups |-> 0]
    /\ landed' = {}
    /\ waiter' = [g \in Groups |-> "rows"]
    /\ reduced' = [t \in TokenIds |-> {}]
    /\ UNCHANGED <<flag, active>>

LaunchRecv(coop) ==
    /\ mode = "idle" /\ recvPending
    /\ mode' = "run" /\ phases' = {"recv"} /\ cooperative' = coop
    /\ recvPending' = FALSE
    /\ waiter' = [g \in Groups |-> "wait"]
    /\ UNCHANGED <<layout, sendVars, signal, landed, active, reduced>>

\* Mutant: one row too many.
RowsToLast(g) == 0 .. layout[g]

\* The rows of a group.
RowsOf(g) == 0 .. layout[g] - 1

Sending == mode = "run" /\ "send" \in phases

-----------------------------------------------------------------------------
(* Send part.                                                              *)

\* Sub-warp 0 of group 0 of block 0, before it sends its own rows.
CleanNext ==
    /\ Sending /\ cleaner = "clean"
    /\ cleaner' = "raise"
    /\ UNCHANGED <<launchVars, sent, flag, leader, published, recvVars>>

\* Mutant: a share for the local experts only.
LocalShares == LocalExperts

\* What the cleaning warp adds to the flag: one share for every leader.
FlagShares == NumExperts

RaiseFlag ==
    /\ Sending /\ cleaner = "raise"
    /\ cleaner' = "done"
    /\ flag' = flag + FlagShares
    /\ UNCHANGED <<launchVars, sent, leader, published, recvVars>>

\* Row i is sent by sub-warp i % SubWarps of its group, in order.  With zero_copy the
\* caller has staged the rows that go through a queue pair and the warp does not copy
\* them again; the row is sent either way.
SendRow(g, i) ==
    /\ Sending /\ leader[g] = "rows" /\ i \notin sent[g]
    /\ i >= SubWarps => i - SubWarps \in sent[g]
    /\ g = 0 /\ i % SubWarps = 0 => cleaner = "done"
    /\ sent' = [sent EXCEPT ![g] = @ \cup {i}]
    /\ UNCHANGED <<launchVars, cleaner, flag, leader, published, recvVars>>

\* bar.sync of the group: its sub-warps have sent all rows (and, in group 0,
\* cleaned the buffer).
BarSync(g) ==
    /\ Sending /\ leader[g] = "rows"
    /\ sent[g] = RowsOf(g)
    /\ g = 0 => cleaner = "done"
    /\ leader' = [leader EXCEPT ![g] = "wait"]
    /\ waiter' = [waiter EXCEPT ![g] = IF "recv" \in phases THEN "wait"
                                       ELSE "done"]
    /\ UNCHANGED <<launchVars, sent, cleaner, flag, published, signal, landed,
                   active, reduced>>

\* Mutant: the leader does not look at the flag.
FlagIgnored == TRUE

FlagUp == flag # 0

SendSignal(g) ==
    /\ Sending /\ leader[g] = "wait" /\ FlagUp
    /\ leader' = [leader EXCEPT ![g] = "sent"]
    /\ published' = published \cup {g}
    /\ IF Peer(g) = Rank
       THEN /\ signal' = [signal EXCEPT ![GlobalExpert(Local(g))] = 1]
            /\ landed' = landed \cup {GlobalExpert(Local(g))}
       ELSE UNCHANGED <<signal, landed>>
    /\ UNCHANGED <<launchVars, sent, cleaner, flag, waiter, active, reduced>>

LowerFlag(g) ==
    /\ Sending /\ leader[g] = "sent"
    /\ leader' = [leader EXCEPT ![g] = "done"]
    /\ flag' = flag - 1
    /\ UNCHANGED <<launchVars, sent, cleaner, published, recvVars>>

ReturnSend ==
    /\ Sending /\ "recv" \notin phases
    /\ \A g \in Groups : leader[g] = "done"
    /\ mode' = "idle"
    /\ UNCHANGED <<phases, cooperative, recvPending, layout, sendVars,
                   recvVars>>

-----------------------------------------------------------------------------
(* Receive part.                                                           *)

\* A peer's rows land, then its signal: modelled from what the peer's group
\* does (Exchange shows that the order is kept).
PeerSignal(g) ==
    /\ mode = "run" \/ recvPending
    /\ Peer(g) # Rank /\ g \notin landed
    /\ landed' = landed \cup {g}
    /\ signal' = [signal EXCEPT ![g] = 1]
    /\ UNCHANGED <<launchVars, sendVars, waiter, active, reduced>>

EndWait(g) ==
    /\ mode = "run" /\ "recv" \in phases /\ waiter[g] = "wait"
    /\ waiter' = [waiter EXCEPT ![g] = "done"]
    /\ UNCHANGED <<launchVars, sendVars, signal, landed, reduced>>

ReceiveSignal(g) ==
    /\ signal[g] # 0
    /\ EndWait(g)
    /\ UNCHANGED active

GiveUp(g) ==
    /\ signal[g] = 0
    /\ Timeouts \/ ~active[Peer(g)]
    /\ EndWait(g)
    /\ active' = [active EXCEPT ![Peer(g)] = FALSE]

\* Mutants: the barrier is passed while groups wait for signals, or while
\* leaders still have to lower the flag.
GridSyncEarly ==
    /\ mode = "run" /\ "recv" \in phases
    /\ "send" \in phases => \A g \in Groups : leader[g] = "done"
GridSyncNoLeaders ==
    /\ mode = "run" /\ "recv" \in phases
    /\ \A g \in Groups : waiter[g] = "done"

\* this_grid().sync(): a barrier of all blocks, or an abort.
AtGridSync ==
    /\ mode = "run" /\ "recv" \in phases
    /\ \A g \in Groups : waiter[g] = "done"
    /\ "send" \in phases => \A g \in Groups : leader[g] = "done"

GridSync ==
    /\ AtGridSync /\ cooperative
    /\ mode' = "reduce"
    /\ UNCHANGED <<phases, cooperative, recvPending, layout, sendVars,
                   recvVars>>

\* The first warp that reaches the barrier aborts the grid, whatever the other
\* warps are doing: in a launch that sends, a warp past its group's bar.sync.
AbortAtGridSync ==
    /\ mode = "run" /\ "recv" \in phases /\ ~cooperative
    /\ "send" \in phases => \E g \in Groups : leader[g] # "rows"
    /\ mode' = "aborted"
    /\ UNCHANGED <<phases, cooperative, recvPending, layout, sendVars,
                   recvVars>>

\* The error is sticky: every later launch of the process fails.
StayAborted == mode = "aborted" /\ UNCHANGED vars

\* Every expert the token was dispatched to is added, whether or not its rank
\* was given up; a token with no expert reduces to zero.
ReduceToken(t) ==
    /\ mode = "reduce" /\ reduced[t] = {} /\ Needs[t] # {}
    /\ reduced' = [reduced EXCEPT ![t] = Needs[t]]
    /\ UNCHANGED <<launchVars, sendVars, signal, landed, waiter, active>>

ReturnRecv ==
    /\ mode = "reduce" /\ \A t \in TokenIds : reduced[t] = Needs[t]
    /\ mode' = "idle"
    /\ UNCHANGED <<phases, cooperative, recvPending, layout, sendVars,
                   recvVars>>

-----------------------------------------------------------------------------
Next ==
    \/ \E lay \in Layouts, ph \in {{"send"}, {"send", "recv"}},
          coop \in LaunchAttrs :
           LaunchSend(lay, ph, coop)
    \/ \E coop \in LaunchAttrs : LaunchRecv(coop)
    \/ CleanNext \/ RaiseFlag
    \/ \E g \in Groups : \/ \E i \in RowsOf(g) : SendRow(g, i)
                         \/ BarSync(g) \/ SendSignal(g) \/ LowerFlag(g)
                         \/ PeerSignal(g) \/ ReceiveSignal(g) \/ GiveUp(g)
    \/ ReturnSend \/ GridSync \/ AbortAtGridSync \/ StayAborted
    \/ \E t \in TokenIds : ReduceToken(t)
    \/ ReturnRecv

Spec == Init /\ [][Next]_vars

\* Every warp of a running launch makes progress; live peers send.
Fairness ==
    /\ WF_vars(CleanNext \/ RaiseFlag)
    /\ \A g \in Groups : /\ WF_vars(\E i \in RowsOf(g) : SendRow(g, i))
                         /\ WF_vars(BarSync(g) \/ SendSignal(g) \/ LowerFlag(g))
                         /\ WF_vars(ReceiveSignal(g) \/ GiveUp(g))
                         /\ ~Timeouts => WF_vars(PeerSignal(g))
    /\ WF_vars(GridSync \/ AbortAtGridSync \/ ReturnSend \/ ReturnRecv)
    /\ \A t \in TokenIds : WF_vars(ReduceToken(t))
    /\ WF_vars(\E coop \in LaunchAttrs : LaunchRecv(coop))

FairSpec == Spec /\ Fairness

-----------------------------------------------------------------------------
(* Properties.                                                             *)

\* Type invariant of the kernel's state.
TypeOK ==
    /\ mode \in {"idle", "run", "reduce", "aborted"}
    /\ phases \subseteq {"send", "recv"} /\ cooperative \in BOOLEAN
    /\ recvPending \in BOOLEAN
    /\ layout \in [Groups -> Nat]
    /\ \A g \in Groups : sent[g] \subseteq 0 .. layout[g] - 1
    /\ cleaner \in {"clean", "raise", "done"} /\ flag \in Int
    /\ leader \in [Groups -> {"rows", "wait", "sent", "done"}]
    /\ waiter \in [Groups -> {"rows", "wait", "done"}]
    /\ published \subseteq Groups /\ landed \subseteq Groups
    /\ signal \in [Groups -> {0, 1}]
    /\ active \in [Ranks -> BOOLEAN]
    /\ reduced \in [TokenIds -> SUBSET Groups]

\* No signal leaves before the next buffer is clean and all rows of its group
\* have been sent, although only one warp cleans and every leader merely looks
\* at a flag that the other leaders are lowering.
SignalAfterClean ==
    \A g \in published : cleaner # "clean" /\ sent[g] = 0 .. layout[g] - 1

\* The flag is zero again when no launch is sending: it is word 0 of the
\* workspace, which dispatch uses as its first slot counter.
FlagRestored == mode \in {"idle", "reduce"} => flag = 0

\* The reduction only adds rows that have arrived or whose rank was given up
\* (ep_kernel.cu:757: all groups' waits end before any block reduces).
ReducesArrivedRows ==
    \A t \in TokenIds : \A e \in reduced[t] : e \in landed \/ ~active[Peer(e)]

\* A launch returns with every token reduced.
CombineReturns == mode = "run" ~> mode = "idle"

\* A cooperative launch does, whatever launches came before it: no leader waits
\* for ever for the flag that the other leaders are lowering.
CooperativeReturns == mode = "run" /\ cooperative ~> mode = "idle"
=============================================================================
