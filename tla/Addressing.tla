----------------------------- MODULE Addressing -----------------------------
(***************************************************************************)
(* Where a byte of an exchange lives: the layout of the registered buffer  *)
(* (struct BufferPair, src/include/ep_buffer.h), the addresses the two     *)
(* kernels compute in it (src/src/ep_kernel.cu), on the sending and on the *)
(* receiving side, and the choice of the queue pair of a request.          *)
(*                                                                         *)
(* Addresses are offsets from the start of the buffer: the kernels add the *)
(* same offset to the peer's base address.  Sizes are in bytes.            *)
(***************************************************************************)
EXTENDS Integers

CONSTANTS
    NumRanks,
    LocalExperts,   \* num_local_experts
    MaxTokens,      \* num_max_dispatch_tokens_per_rank
    Hidden,         \* hidden, which becomes kHidden
    UseFp8,         \* kUseFP8
    MaxQp           \* MAX_QP_COUNT

\* The hidden sizes the two launchers have a kernel for: others are refused.
DispatchSizes == {2048, 2560, 3072, 4096, 5120, 6144, 7168, 8192}
CombineSizes  == {2048, 2560, 3072, 4096, 5120, 6144, 7168, 8192}

\* The buffers of one exchange serve both kernels.  The code relies on
\* MaxQp >= NumRanks without checking it.
ASSUME AddressingAssumption ==
    /\ NumRanks \in Nat \ {0} /\ LocalExperts \in Nat \ {0}
    /\ MaxTokens \in Nat \ {0}
    /\ Hidden \in DispatchSizes \cap CombineSizes
    /\ UseFp8 \in BOOLEAN
    /\ MaxQp \in Nat /\ MaxQp >= NumRanks

Ranks      == 0 .. NumRanks - 1
Locals     == 0 .. LocalExperts - 1
NumExperts == NumRanks * LocalExperts
Experts    == 0 .. NumExperts - 1
Slots      == 0 .. MaxTokens - 1
Halves     == {0, 1}

-----------------------------------------------------------------------------
(* struct BufferPair.                                                      *)

SignalBytes == NumExperts * 4
DataBytes   == NumExperts * MaxTokens * (2 * 16 + Hidden * 2)
HalfBase(i) == 2 * i * SignalBytes + 2 * i * DataBytes

SendSignalArea(i) == HalfBase(i)
RecvSignalArea(i) == HalfBase(i) + SignalBytes
SendDataArea(i)   == HalfBase(i) + 2 * SignalBytes
RecvDataArea(i)   == HalfBase(i) + 2 * SignalBytes + DataBytes
TotalBytes        == 4 * SignalBytes + 4 * DataBytes

\* Both halves' areas as pairs of an offset and a length.
Areas == {<<SendSignalArea(i), SignalBytes>> : i \in Halves}
         \cup {<<RecvSignalArea(i), SignalBytes>> : i \in Halves}
         \cup {<<SendDataArea(i), DataBytes>> : i \in Halves}
         \cup {<<RecvDataArea(i), DataBytes>> : i \in Halves}

-----------------------------------------------------------------------------
(* Messages of the two kernels.                                            *)

\* A dispatch message: the token's index in 16 bytes, its values, its scales.
DispatchMsg == 16 + (IF UseFp8 THEN Hidden + (Hidden \div 128) * 4 ELSE Hidden * 2)
CombineSlot == Hidden * 2
MsgBytes(kind) == IF kind = "dispatch" THEN DispatchMsg ELSE CombineSlot

\* The rank and the local index of a global expert, or of a group.
RankOf(e)  == e \div LocalExperts
LocalOf(e) == e % LocalExperts

\* The row that rank r writes for local expert l at its peer: dispatch numbers
\* rows by the receiver's expert and the sender's slot counter, combine by the
\* sender's global expert and the receiver's token.
RowOffset(kind, r, l, n) ==
    IF kind = "dispatch"
    THEN (l * NumRanks * MaxTokens + r * MaxTokens + n) * DispatchMsg
    ELSE ((r * LocalExperts + l) * MaxTokens + n) * CombineSlot

\* The row a receiving group g reads: dispatch reads the rows of rank RankOf(g)
\* for its local expert, combine those of global expert g.
ReadOffset(kind, g, n) ==
    IF kind = "dispatch"
    THEN (LocalOf(g) * NumRanks * MaxTokens + RankOf(g) * MaxTokens + n) * DispatchMsg
    ELSE (g * MaxTokens + n) * CombineSlot

\* Where the sender keeps the row until the NIC has read it: dispatch by token,
\* combine by local expert and position in its packed input.
StageOffset(kind, l, n) ==
    IF kind = "dispatch" THEN n * DispatchMsg
    ELSE (l * NumRanks * MaxTokens + n) * CombineSlot

\* The signal word rank r writes for local expert l, and the one group g polls.
SignalOffset(kind, r, l) ==
    IF kind = "dispatch" THEN (l * NumRanks + r) * 4
    ELSE (r * LocalExperts + l) * 4
PollOffset(kind, g) ==
    IF kind = "dispatch" THEN (LocalOf(g) * NumRanks + RankOf(g)) * 4
    ELSE g * 4

-----------------------------------------------------------------------------
(* Queue pairs.                                                            *)

QpPerRank  == MaxQp \div NumRanks
UseQpCount == QpPerRank * NumRanks

\* The context of a request to rank d for local expert l.
Ctx(d, l) == d * QpPerRank + (l % QpPerRank)

\* The rank that sync_ib and sync_roce connect queue pair i to.
PeerRank(i) == (i * NumRanks) \div UseQpCount

-----------------------------------------------------------------------------
(* What the layout promises.                                               *)

Apart(a, b) == a[1] + a[2] <= b[1] \/ b[1] + b[2] <= a[1]

\* The eight areas are inside the size the hint returns and do not overlap.
AreasApart ==
    /\ \A a \in Areas : a[1] >= 0 /\ a[1] + a[2] <= TotalBytes
    /\ \A a, b \in Areas : a # b => Apart(a, b)

\* Every row lies inside the data area of its half.
RowsInside ==
    \A kind \in {"dispatch", "combine"}, r \in Ranks, l \in Locals, n \in Slots :
        /\ RowOffset(kind, r, l, n) >= 0
        /\ RowOffset(kind, r, l, n) + MsgBytes(kind) <= DataBytes

\* Rows of different senders, experts or slots do not overlap.
RowsApart ==
    \A kind \in {"dispatch", "combine"} :
        \A r, s \in Ranks, l, m \in Locals, n, p \in Slots :
            <<r, l, n>> # <<s, m, p>> =>
                Apart(<<RowOffset(kind, r, l, n), MsgBytes(kind)>>,
                      <<RowOffset(kind, s, m, p), MsgBytes(kind)>>)

\* Rank d's group for rank r reads, and polls, where rank r writes.
ReadsWhereWritten ==
    \A kind \in {"dispatch", "combine"}, r \in Ranks, l \in Locals, n \in Slots :
        LET g == r * LocalExperts + l
        IN /\ ReadOffset(kind, g, n) = RowOffset(kind, r, l, n)
           /\ PollOffset(kind, g) = SignalOffset(kind, r, l)

\* A request goes through an existing context, which is connected to its peer.
ContextOfPeer ==
    \A d \in Ranks, l \in Locals :
        Ctx(d, l) \in 0 .. UseQpCount - 1 /\ PeerRank(Ctx(d, l)) = d

\* Rows start at a multiple of 16, which the 16-byte copies need, provided that
\* the number of experts is even.
RowsAligned ==
    NumExperts % 2 = 0 =>
        \A kind \in {"dispatch", "combine"}, i \in Halves, r \in Ranks,
           l \in Locals, n \in Slots :
               (RecvDataArea(i) + RowOffset(kind, r, l, n)) % 16 = 0
=============================================================================
