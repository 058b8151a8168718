------------------------------ MODULE Exchange ------------------------------
(***************************************************************************)
(* The ranks together: consecutive dispatch and combine launches that      *)
(* exchange rows and signal words through the registered buffers.          *)
(*                                                                         *)
(* Group g of a rank sends to rank g \div LocalExperts and receives from   *)
(* rank g \div LocalExperts.  Rows and signals to another rank go either   *)
(* through the peer's mapped memory (NVLink: stores, effective at once) or *)
(* through a reliable queue pair (RDMA: rows are read from the sender's    *)
(* staging area when the NIC executes the request, a signal is an atomic   *)
(* add; one queue pair executes its requests in order).                    *)
(*                                                                         *)
(* A region of rows is abstracted to the round whose rows it holds.  The   *)
(* inside of one launch is the subject of Dispatch and Combine: here a     *)
(* group posts all its rows in one step and publishes its signal in        *)
(* another one, after the next buffer has been cleaned.                    *)
(***************************************************************************)
EXTENDS Integers, Sequences, FiniteSets

CONSTANTS
    NumRanks, LocalExperts,
    QpPerRank,        \* num_qp_per_rank = MAX_QP_COUNT / num_ranks
    LastRound,        \* bound: launches each rank makes
    Kind(_),          \* the kernel launched in round k
    Count(_, _, _),   \* rows group g of rank r sends in round k
    NVLink(_, _),     \* nvlink_available[d] of rank r
    DoubleBuffered,   \* the caller alternates the two buffers of the pair
    Timeouts,         \* timeout_ticks # -1
    MayCrash,         \* ranks that may stop
    FreshWords        \* what a word of newly allocated device memory may hold:
                      \* nothing in the source zeroes the registered buffer

NumExperts == NumRanks * LocalExperts
Ranks  == 0 .. NumRanks - 1
Groups == 0 .. NumExperts - 1
Words  == 0 .. NumExperts - 1
Rounds == 1 .. LastRound
Qps    == 0 .. QpPerRank - 1

ASSUME ExchangeAssumption ==
    /\ NumRanks \in Nat \ {0} /\ LocalExperts \in Nat \ {0}
    /\ QpPerRank \in Nat \ {0} /\ LastRound \in Nat
    /\ \A k \in Rounds : Kind(k) \in {"dispatch", "combine"}
    /\ \A k \in Rounds, r \in Ranks, g \in Groups : Count(k, r, g) \in Nat
    /\ \A r, d \in Ranks : NVLink(r, d) \in BOOLEAN
    /\ DoubleBuffered \in BOOLEAN /\ Timeouts \in BOOLEAN
    /\ MayCrash \subseteq Ranks
    /\ FreshWords \subseteq Int

\* The rank a group sends to, and receives from.
Peer(g)  == g \div LocalExperts
Local(g) == g % LocalExperts
Qp(g)    == Local(g) % QpPerRank

\* Mutant: words counted from one.
SendWordFromOne(k, r, g) == Local(g) * NumRanks + r + 1

\* The word, and the region of rows, that group g of rank r writes at Peer(g).
SendWord(k, r, g) == IF Kind(k) = "dispatch" THEN Local(g) * NumRanks + r
                     ELSE r * LocalExperts + Local(g)
\* The word, and the region, that a receiving group reads.
RecvWord(k, g) == IF Kind(k) = "dispatch" THEN Local(g) * NumRanks + Peer(g)
                  ELSE g
\* The group of rank s whose word group g of rank r reads.
Sender(r, g) == r * LocalExperts + Local(g)
SignalValue(k, s, g) == IF Kind(k) = "dispatch" THEN -Count(k, s, g) - 1 ELSE 1

\* The caller's choice of buffers: the pair's two halves in turn, the other
\* half being cleaned; or one half for everything and a scratch array to clean.
Scratch == 2

\* Mutants: one half for everything; the half that is needed next not cleaned.
BufAlwaysFirst(k) == 0
CleanBufScratch(k) == Scratch

Buf(k)      == IF DoubleBuffered THEN k % 2 ELSE 0
CleanBuf(k) == IF DoubleBuffered THEN 1 - Buf(k) ELSE Scratch

VARIABLES
    round,    \* the launch each rank is in
    cleaned,  \* the rank has cleaned the next buffer in this launch
    snd,      \* progress of each group's send part
    rcv,      \* progress of each group's receive part
    seen,     \* the signal value a group read in this launch
    used,     \* the round of the rows a group consumed last
    signal,   \* rdma_recv_signal_buffer of both halves (and the scratch array)
    data,     \* rdma_recv_data_buffer: the round each region holds
    stage,    \* rdma_send_data_buffer: the round whose rows it holds
    qp,       \* posted requests, in order; rnd (the launch that posted it) is
              \* only read by the properties
    active,   \* active_ranks
    crashed   \* ranks that stopped

launchVars == <<round, cleaned, snd, rcv, seen, used, active>>
memVars    == <<signal, data, stage, qp>>
vars       == <<launchVars, memVars, crashed>>

Init ==
    /\ round = [r \in Ranks |-> 1]
    /\ cleaned = [r \in Ranks |-> FALSE]
    /\ snd = [r \in Ranks |-> [g \in Groups |-> "post"]]
    /\ rcv = [r \in Ranks |-> [g \in Groups |-> "wait"]]
    /\ seen = [r \in Ranks |-> [g \in Groups |-> 0]]
    /\ used = [r \in Ranks |-> [g \in Groups |-> 0]]
    /\ signal \in [Ranks -> [0 .. 2 -> [Words -> FreshWords]]]
    /\ data = [r \in Ranks |-> [b \in 0 .. 1 |-> [w \in Words |-> 0]]]
    /\ stage = [r \in Ranks |-> [b \in 0 .. 1 |-> 0]]
    /\ qp = [r \in Ranks |-> [d \in Ranks |-> [q \in Qps |-> << >>]]]
    /\ active = [r \in Ranks |-> [s \in Ranks |-> TRUE]]
    /\ crashed = {}

Running(r)  == r \notin crashed /\ round[r] \in Rounds
Direct(r, d) == d = r \/ NVLink(r, d)

\* Mutant: a later request overtakes the earlier ones.
PostInFront(r, g, m) ==
    qp' = [qp EXCEPT ![r][Peer(g)][Qp(g)] = <<m>> \o @]

Post(r, g, m) ==
    qp' = [qp EXCEPT ![r][Peer(g)][Qp(g)] = Append(@, m)]

-----------------------------------------------------------------------------
(* Send part of a launch.                                                  *)

\* next_clean_buffer[i] = 0 for every i.
CleanNext(r) ==
    /\ Running(r) /\ ~cleaned[r]
    /\ signal' = [signal EXCEPT ![r][CleanBuf(round[r])] = [w \in Words |-> 0]]
    /\ cleaned' = [cleaned EXCEPT ![r] = TRUE]
    /\ UNCHANGED <<round, snd, rcv, seen, used, active, data, stage, qp, crashed>>

\* All rows of a group.  Dispatch stages every token in the send buffer;
\* combine stages the rows that go through a queue pair.
PostRows(r, g) ==
    LET k == round[r]
        d == Peer(g)
        b == Buf(k)
        w == SendWord(k, r, g)
        any == Count(k, r, g) > 0
    IN /\ Running(r) /\ snd[r][g] = "post"
       /\ snd' = [snd EXCEPT ![r][g] = "signal"]
       /\ IF any /\ (Kind(k) = "dispatch" \/ ~Direct(r, d))
          THEN stage' = [stage EXCEPT ![r][b] = k] ELSE UNCHANGED stage
       /\ IF any /\ Direct(r, d)
          THEN data' = [data EXCEPT ![d][b][w] = k] ELSE UNCHANGED data
       /\ IF any /\ ~Direct(r, d)
          THEN Post(r, g, [type |-> "rows", buf |-> b, word |-> w, val |-> 0,
                           rnd |-> k])
          ELSE UNCHANGED qp
       /\ UNCHANGED <<round, cleaned, rcv, seen, used, active, signal, crashed>>

\* Mutant: the signal does not wait for the cleaning.
PublishAnyTime(r) == TRUE

MayPublish(r) == cleaned[r]

\* The leader publishes the group's signal once the next buffer is clean.
SendSignal(r, g) ==
    LET k == round[r]
        d == Peer(g)
        b == Buf(k)
        w == SendWord(k, r, g)
        v == SignalValue(k, r, g)
    IN /\ Running(r) /\ snd[r][g] = "signal" /\ MayPublish(r)
       /\ snd' = [snd EXCEPT ![r][g] = "done"]
       /\ IF Direct(r, d)
          THEN /\ signal' = [signal EXCEPT ![d][b][w] = v]
               /\ UNCHANGED qp
          ELSE /\ Post(r, g, [type |-> "add", buf |-> b, word |-> w, val |-> v,
                              rnd |-> k])
               /\ UNCHANGED signal
       /\ UNCHANGED <<round, cleaned, rcv, seen, used, active, data, stage, crashed>>

\* The NIC executes the oldest request of a queue pair.
Execute(r, d, q) ==
    LET m == Head(qp[r][d][q])
    IN /\ qp[r][d][q] # << >>
       /\ qp' = [qp EXCEPT ![r][d][q] = Tail(@)]
       /\ IF m.type = "rows"
          THEN /\ data' = [data EXCEPT ![d][m.buf][m.word] = stage[r][m.buf]]
               /\ UNCHANGED signal
          ELSE /\ signal' = [signal EXCEPT ![d][m.buf][m.word] = @ + m.val]
               /\ UNCHANGED data
       /\ UNCHANGED <<launchVars, stage, crashed>>

-----------------------------------------------------------------------------
(* Receive part of a launch.                                               *)

AllSent(r) == \A g \in Groups : snd[r][g] = "done"

\* Mutant: no barrier between the parts of dispatch.
ReceiveAnyTime(r, g) == snd[r][g] # "post"

\* Dispatch has a grid barrier between its parts; in combine a group starts to
\* wait as soon as its own rows are posted.
MayReceive(r, g) ==
    IF Kind(round[r]) = "dispatch" THEN AllSent(r) ELSE snd[r][g] # "post"

SignalFor(r, g) == signal[r][Buf(round[r])][RecvWord(round[r], g)]

ReceiveSignal(r, g) ==
    /\ Running(r) /\ rcv[r][g] = "wait" /\ MayReceive(r, g)
    /\ SignalFor(r, g) # 0
    /\ seen' = [seen EXCEPT ![r][g] = SignalFor(r, g)]
    /\ rcv' = [rcv EXCEPT ![r][g] = "ready"]
    /\ UNCHANGED <<round, cleaned, snd, used, active, memVars, crashed>>

\* Mutant: the clock is never looked at.
OnlyInactive(r, g) == ~active[r][Peer(g)]

WaitOver(r, g) == Timeouts \/ ~active[r][Peer(g)]

\* The wait ends without a signal: dispatch then receives no row (count 0).
GiveUp(r, g) ==
    /\ Running(r) /\ rcv[r][g] = "wait" /\ MayReceive(r, g)
    /\ SignalFor(r, g) = 0 /\ WaitOver(r, g)
    /\ active' = [active EXCEPT ![r][Peer(g)] = FALSE]
    /\ seen' = [seen EXCEPT ![r][g] = -1]
    /\ rcv' = [rcv EXCEPT ![r][g] = "ready"]
    /\ UNCHANGED <<round, cleaned, snd, used, memVars, crashed>>

\* How many rows a group will read: what the signal announced in dispatch, the
\* rows of its tokens whatever was signalled in combine.
RowsToRead(r, g) ==
    IF Kind(round[r]) = "dispatch" THEN -seen[r][g] - 1
    ELSE Count(round[r], Peer(g), Sender(r, g))

RoundRead(r, g) ==
    IF RowsToRead(r, g) > 0 THEN data[r][Buf(round[r])][RecvWord(round[r], g)]
    ELSE round[r]

CopyRows(r, g) ==
    /\ Running(r) /\ Kind(round[r]) = "dispatch" /\ rcv[r][g] = "ready"
    /\ used' = [used EXCEPT ![r][g] = RoundRead(r, g)]
    /\ rcv' = [rcv EXCEPT ![r][g] = "done"]
    /\ UNCHANGED <<round, cleaned, snd, seen, active, memVars, crashed>>

\* After combine's grid barrier every token is reduced over its experts' rows.
Reduce(r) ==
    /\ Running(r) /\ Kind(round[r]) = "combine"
    /\ AllSent(r) /\ \A g \in Groups : rcv[r][g] = "ready"
    /\ used' = [used EXCEPT ![r] = [g \in Groups |-> RoundRead(r, g)]]
    /\ rcv' = [rcv EXCEPT ![r] = [g \in Groups |-> "done"]]
    /\ UNCHANGED <<round, cleaned, snd, seen, active, memVars, crashed>>

\* The kernel returns and the next one starts on the same stream.
NextLaunch(r) ==
    /\ Running(r) /\ \A g \in Groups : rcv[r][g] = "done"
    /\ round' = [round EXCEPT ![r] = @ + 1]
    /\ cleaned' = [cleaned EXCEPT ![r] = FALSE]
    /\ snd' = [snd EXCEPT ![r] = [g \in Groups |-> "post"]]
    /\ rcv' = [rcv EXCEPT ![r] = [g \in Groups |-> "wait"]]
    /\ seen' = [seen EXCEPT ![r] = [g \in Groups |-> 0]]
    /\ UNCHANGED <<used, active, memVars, crashed>>

\* A rank stops; what it has posted may still be executed.
Crash(r) ==
    /\ r \in MayCrash \ crashed
    /\ crashed' = crashed \cup {r}
    /\ UNCHANGED <<launchVars, memVars>>

-----------------------------------------------------------------------------
GroupStep(r, g) ==
    PostRows(r, g) \/ SendSignal(r, g) \/ ReceiveSignal(r, g) \/ GiveUp(r, g)
    \/ CopyRows(r, g)

AllReturned ==
    \A r \in Ranks : r \in crashed \/ round[r] = LastRound + 1

\* Every launch has returned and no request is left: nothing more happens.
Finished ==
    /\ AllReturned /\ \A r, d \in Ranks, q \in Qps : qp[r][d][q] = << >>
    /\ UNCHANGED vars

Next ==
    \/ \E r \in Ranks : \/ CleanNext(r) \/ Reduce(r) \/ NextLaunch(r) \/ Crash(r)
                        \/ \E g \in Groups : GroupStep(r, g)
    \/ \E r, d \in Ranks, q \in Qps : Execute(r, d, q)
    \/ Finished

Spec == Init /\ [][Next]_vars

\* Every warp of a launched kernel keeps running and a reliable connection
\* executes what was posted.
Fairness ==
    /\ \A r \in Ranks : /\ WF_vars(CleanNext(r)) /\ WF_vars(Reduce(r))
                        /\ WF_vars(NextLaunch(r))
                        /\ \A g \in Groups : WF_vars(GroupStep(r, g))
    /\ \A r, d \in Ranks, q \in Qps : WF_vars(Execute(r, d, q))

FairSpec == Spec /\ Fairness

-----------------------------------------------------------------------------
(* Properties.                                                             *)

Requests == [type : {"rows", "add"}, buf : 0 .. 1, word : Words, val : Int,
             rnd : Rounds]

\* Type invariant of the ranks' launches, memory and queue pairs.
TypeOK ==
    /\ round \in [Ranks -> 1 .. LastRound + 1]
    /\ cleaned \in [Ranks -> BOOLEAN]
    /\ snd \in [Ranks -> [Groups -> {"post", "signal", "done"}]]
    /\ rcv \in [Ranks -> [Groups -> {"wait", "ready", "done"}]]
    /\ seen \in [Ranks -> [Groups -> Int]]
    /\ used \in [Ranks -> [Groups -> 0 .. LastRound + 1]]
    /\ signal \in [Ranks -> [0 .. 2 -> [Words -> Int]]]
    /\ data \in [Ranks -> [0 .. 1 -> [Words -> 0 .. LastRound]]]
    /\ stage \in [Ranks -> [0 .. 1 -> 0 .. LastRound]]
    /\ \A r, d \in Ranks, q \in Qps :
           \A i \in DOMAIN qp[r][d][q] : qp[r][d][q][i] \in Requests
    /\ active \in [Ranks -> [Ranks -> BOOLEAN]]
    /\ crashed \subseteq Ranks

\* What a group has decided to consume belongs to its own launch: the signal it
\* read is the one its sender published in this round, and from then until the
\* rows are read the region holds this round's rows.
ConsumesOwnRound ==
    \A r \in Ranks, g \in Groups :
        rcv[r][g] = "ready" =>
            /\ seen[r][g] = SignalValue(round[r], Peer(g), Sender(r, g))
            /\ RoundRead(r, g) = round[r]

\* With timeouts and ranks that stop: between two ranks neither of which has ever
\* given up the other, what a group has decided to consume is of its own launch,
\* whatever the two have given up elsewhere, in every reuse of a half.  With a
\* rank that was given up it is false (NoStaleRows).
FreshBetweenActive ==
    \A r \in Ranks, g \in Groups :
        active[r][Peer(g)] /\ active[Peer(g)][r] /\ rcv[r][g] = "ready" =>
            /\ seen[r][g] = SignalValue(round[r], Peer(g), Sender(r, g))
            /\ RoundRead(r, g) = round[r]

\* Also with timeouts a group that leaves its wait with a signal reads no rows of
\* an earlier launch.  The code does not keep this: a signal carries no round
\* number, and the late one of a rank that was given up is taken, with its rows, by
\* the launch that uses the half next.
NoStaleRows ==
    \A r \in Ranks, g \in Groups :
        rcv[r][g] = "ready" /\ seen[r][g] # -1 => RoundRead(r, g) >= round[r]

\* A rank is never more than one launch ahead of another one: the pair of
\* buffers is enough.
AtMostOneAhead ==
    \A r, s \in Ranks : round[r] <= LastRound => round[r] - round[s] <= 1

\* The rows a posted request will read are still the ones that were staged for
\* it: no later launch has reused the staging area.
StagingIntact ==
    \A r, d \in Ranks, q \in Qps : \A i \in DOMAIN qp[r][d][q] :
        LET m == qp[r][d][q][i]
        IN m.type = "rows" => stage[r][m.buf] = m.rnd

\* The requests a rank has posted and the NIC has not executed are of its current
\* launch or of the one before: what a work queue must hold at most, since
\* nothing in the kernels looks for room in it.
BacklogTwoRounds ==
    \A r, d \in Ranks, q \in Qps : \A i \in DOMAIN qp[r][d][q] :
        qp[r][d][q][i].rnd >= round[r] - 1

\* Nothing of the next round is in a rank's memory, or on its way there, before
\* the rank has cleaned the buffer it will arrive in: the words it zeroes are
\* exactly the signals it consumed in its previous launch.
NothingArrivesEarly ==
    \A r \in Ranks : Running(r) /\ ~cleaned[r] =>
        LET b == Buf(round[r] + 1)
        IN /\ \A s \in Ranks, q \in Qps : \A i \in DOMAIN qp[s][r][q] :
                 qp[s][r][q][i].rnd <= round[r]
           /\ \A w \in Words : data[r][b][w] < round[r]
           /\ round[r] > 1 => \A g \in Groups :
                 signal[r][b][RecvWord(round[r] - 1, g)] =
                     SignalValue(round[r] - 1, Peer(g), Sender(r, g))

\* The launches of all ranks that stay up return.
EveryLaunchReturns == <>AllReturned

SentTo(r, d) == \A g \in Groups : Peer(g) = d => snd[r][g] = "done"
TakenFrom(r, s) ==
    CHOOSE k \in {used[r][g] : g \in {x \in Groups : Peer(x) = s}} :
        \A g \in Groups : Peer(g) = s => k <= used[r][g]

Abstract == INSTANCE RoundExchange WITH
    given <- [r \in Ranks |-> [d \in Ranks |->
                 IF round[r] \in Rounds /\ SentTo(r, d) THEN round[r]
                 ELSE round[r] - 1]],
    taken <- [r \in Ranks |-> [s \in Ranks |-> TakenFrom(r, s)]]

\* The launches implement the abstract exchange of one contribution per round.
ImplementsRoundExchange == Abstract!ASpec
=============================================================================
