-------------------------- MODULE AddressingProof --------------------------
(***************************************************************************)
(* For every number of ranks, experts, tokens and every hidden size, the   *)
(* addresses of Addressing stay inside the buffer, do not collide, and are *)
(* the same on both sides; a request finds the queue pair of its peer.     *)
(***************************************************************************)
EXTENDS Addressing, Radix, TLAPS

-----------------------------------------------------------------------------
(* Sizes.                                                                  *)

\* Every size that has a kernel is a multiple of 512.
LEMMA HiddenSize == Hidden \in Nat \ {0} /\ Hidden % 512 = 0
  BY AddressingAssumption DEF DispatchSizes, CombineSizes

LEMMA Sizes ==
    /\ NumExperts \in Nat \ {0}
    /\ SignalBytes \in Nat \ {0} /\ DataBytes \in Nat \ {0}
    /\ NumExperts * MaxTokens \in Nat
    /\ DataBytes = (NumExperts * MaxTokens) * (32 + Hidden * 2)
<1>1. NumRanks * LocalExperts > 0
  BY AddressingAssumption
<1>2. NumExperts \in Nat \ {0}
  BY <1>1, AddressingAssumption DEF NumExperts
<1>3. NumExperts * MaxTokens > 0 /\ NumExperts * MaxTokens \in Nat
  BY <1>2, AddressingAssumption
<1>4. (NumExperts * MaxTokens) * (32 + Hidden * 2) > 0
  BY <1>3, HiddenSize, AddressingAssumption
<1> QED
  BY <1>2, <1>3, <1>4, HiddenSize, AddressingAssumption DEF SignalBytes, DataBytes

\* A message is positive, fits in the space of a row, and is a multiple of 16.
LEMMA MessageFits ==
    ASSUME NEW kind \in {"dispatch", "combine"}
    PROVE  /\ MsgBytes(kind) \in Nat \ {0}
           /\ MsgBytes(kind) <= 32 + Hidden * 2
           /\ MsgBytes(kind) % 16 = 0
<1>1. PICK h \in Nat : Hidden = 512 * h /\ h > 0
  BY HiddenSize, AddressingAssumption
<1>2. CombineSlot = 1024 * h
  BY <1>1 DEF CombineSlot
<1>3. DispatchMsg = 16 + 528 * h \/ DispatchMsg = 16 + 1024 * h
  BY <1>1 DEF DispatchMsg
<1> QED
  BY <1>1, <1>2, <1>3 DEF MsgBytes

\* Both kernels number the rows of a data area without gaps or repetitions.
RowIndex(kind, r, l, n) ==
    IF kind = "dispatch" THEN (l * NumRanks + r) * MaxTokens + n
    ELSE (r * LocalExperts + l) * MaxTokens + n

LEMMA RowIndexed ==
    ASSUME NEW kind \in {"dispatch", "combine"}, NEW r \in Ranks, NEW l \in Locals,
           NEW n \in Slots
    PROVE  /\ RowIndex(kind, r, l, n) \in 0 .. NumExperts * MaxTokens - 1
           /\ RowOffset(kind, r, l, n) = RowIndex(kind, r, l, n) * MsgBytes(kind)
<1> USE AddressingAssumption DEF Ranks, Locals, Slots
<1>1. CASE kind = "dispatch"
  <2>1. l * NumRanks + r \in 0 .. LocalExperts * NumRanks - 1
    BY RadixBound
  <2>2. LocalExperts * NumRanks = NumExperts
    BY DEF NumExperts
  <2>3. RowIndex(kind, r, l, n) \in 0 .. NumExperts * MaxTokens - 1
    BY <1>1, <2>1, <2>2, RadixBound, Sizes DEF RowIndex
  <2>4. (l * NumRanks + r) * MaxTokens + n = l * NumRanks * MaxTokens + r * MaxTokens + n
    OBVIOUS
  <2> QED
    BY <1>1, <2>3, <2>4 DEF RowIndex, RowOffset, MsgBytes
<1>2. CASE kind = "combine"
  <2>1. r * LocalExperts + l \in 0 .. NumRanks * LocalExperts - 1
    BY RadixBound
  <2>2. RowIndex(kind, r, l, n) \in 0 .. NumExperts * MaxTokens - 1
    BY <1>2, <2>1, RadixBound, Sizes DEF RowIndex, NumExperts
  <2> QED
    BY <1>2, <2>2 DEF RowIndex, RowOffset, MsgBytes
<1> QED
  BY <1>1, <1>2

LEMMA RowIndexUnique ==
    ASSUME NEW kind \in {"dispatch", "combine"},
           NEW r \in Ranks, NEW l \in Locals, NEW n \in Slots,
           NEW s \in Ranks, NEW m \in Locals, NEW p \in Slots,
           RowIndex(kind, r, l, n) = RowIndex(kind, s, m, p)
    PROVE  r = s /\ l = m /\ n = p
<1> USE AddressingAssumption DEF Ranks, Locals, Slots
<1>1. CASE kind = "dispatch"
  <2>1. l * NumRanks + r = m * NumRanks + s /\ n = p
    <3>1. l * NumRanks + r \in Int /\ m * NumRanks + s \in Int
      OBVIOUS
    <3> QED
      BY <1>1, <3>1, RadixUnique DEF RowIndex
  <2> QED
    BY <2>1, RadixUnique
<1>2. CASE kind = "combine"
  <2>1. r * LocalExperts + l = s * LocalExperts + m /\ n = p
    <3>1. r * LocalExperts + l \in Int /\ s * LocalExperts + m \in Int
      OBVIOUS
    <3> QED
      BY <1>2, <3>1, RadixUnique DEF RowIndex
  <2> QED
    BY <2>1, RadixUnique
<1> QED
  BY <1>1, <1>2

-----------------------------------------------------------------------------
(* The theorems.                                                           *)

\* The eight areas of struct BufferPair are inside the size that
\* get_ep_buffer_size_hint returns, and no two of them overlap.
THEOREM LayoutCorrect == AreasApart
<1> DEFINE S == SignalBytes
           D == DataBytes
<1>1. S \in Nat \ {0} /\ D \in Nat \ {0}
  BY Sizes
<1>2. /\ SendSignalArea(0) = 0 /\ SendSignalArea(1) = 2 * S + 2 * D
      /\ RecvSignalArea(0) = S /\ RecvSignalArea(1) = 3 * S + 2 * D
      /\ SendDataArea(0) = 2 * S /\ SendDataArea(1) = 4 * S + 2 * D
      /\ RecvDataArea(0) = 2 * S + D /\ RecvDataArea(1) = 4 * S + 3 * D
      /\ TotalBytes = 4 * S + 4 * D
  BY <1>1 DEF SendSignalArea, RecvSignalArea, SendDataArea, RecvDataArea, HalfBase,
              TotalBytes
<1>3. Areas = {<<0, S>>, <<2 * S + 2 * D, S>>, <<S, S>>, <<3 * S + 2 * D, S>>,
               <<2 * S, D>>, <<4 * S + 2 * D, D>>, <<2 * S + D, D>>,
               <<4 * S + 3 * D, D>>}
  BY <1>2 DEF Areas, Halves
<1> HIDE DEF S, D
<1>4. \A a \in Areas : a[1] >= 0 /\ a[1] + a[2] <= TotalBytes
  BY <1>1, <1>2, <1>3
<1>5. \A a, b \in Areas : a # b => Apart(a, b)
  BY <1>1, <1>3 DEF Apart
<1> QED
  BY <1>4, <1>5 DEF AreasApart

\* No row of dispatch or combine leaves the data area of its half, although a
\* dispatch message is longer than the values it carries.
THEOREM RowsInsideCorrect == RowsInside
<1> SUFFICES ASSUME NEW kind \in {"dispatch", "combine"}, NEW r \in Ranks,
                    NEW l \in Locals, NEW n \in Slots
             PROVE  /\ RowOffset(kind, r, l, n) >= 0
                    /\ RowOffset(kind, r, l, n) + MsgBytes(kind) <= DataBytes
  BY DEF RowsInside
<1> DEFINE i == RowIndex(kind, r, l, n)
           N == NumExperts * MaxTokens
           W == 32 + Hidden * 2
           m == MsgBytes(kind)
<1>1. i \in 0 .. N - 1 /\ RowOffset(kind, r, l, n) = i * m
  BY RowIndexed
<1>2. m \in Nat /\ m <= W /\ W \in Nat /\ N \in Nat /\ DataBytes = N * W
  BY MessageFits, Sizes, HiddenSize, AddressingAssumption
<1> HIDE DEF i, N, W, m
<1>3. i * m + m <= N * m
  BY <1>1, <1>2, StrideOrder
<1>4. N * m <= N * W
  BY <1>2
<1>5. i * m >= 0 /\ i * m \in Int /\ N * m \in Int /\ N * W \in Int
  BY <1>1, <1>2
<1>6. i * m >= 0 /\ i * m + m <= DataBytes
  BY <1>2, <1>3, <1>4, <1>5
<1> QED
  BY <1>1, <1>6 DEF m

\* Rows that differ in their sender, their expert or their slot occupy
\* different bytes of the receiver's data area.
THEOREM RowsApartCorrect == RowsApart
<1> SUFFICES ASSUME NEW kind \in {"dispatch", "combine"},
                    NEW r \in Ranks, NEW s \in Ranks, NEW l \in Locals,
                    NEW m \in Locals, NEW n \in Slots, NEW p \in Slots,
                    <<r, l, n>> # <<s, m, p>>
             PROVE  Apart(<<RowOffset(kind, r, l, n), MsgBytes(kind)>>,
                          <<RowOffset(kind, s, m, p), MsgBytes(kind)>>)
  BY DEF RowsApart
<1> DEFINE i == RowIndex(kind, r, l, n)
           j == RowIndex(kind, s, m, p)
           b == MsgBytes(kind)
<1>1. i # j
  BY RowIndexUnique
<1>2. /\ i \in Int /\ RowOffset(kind, r, l, n) = i * b
      /\ j \in Int /\ RowOffset(kind, s, m, p) = j * b
  BY RowIndexed
<1>3. b \in Nat
  BY MessageFits
<1> HIDE DEF i, j, b
<1>4. i * b + b <= j * b \/ j * b + b <= i * b
  BY <1>1, <1>2, <1>3, StrideOrder
<1> QED
  BY <1>2, <1>4 DEF Apart, b

\* The receiving side of both kernels computes the address that the sending
\* side of the same kernel wrote to, for rows and for signal words.
THEOREM ReadsCorrect == ReadsWhereWritten
<1> SUFFICES ASSUME NEW kind \in {"dispatch", "combine"}, NEW r \in Ranks,
                    NEW l \in Locals, NEW n \in Slots
             PROVE  LET g == r * LocalExperts + l
                    IN /\ ReadOffset(kind, g, n) = RowOffset(kind, r, l, n)
                       /\ PollOffset(kind, g) = SignalOffset(kind, r, l)
  BY DEF ReadsWhereWritten
<1> DEFINE g == r * LocalExperts + l
<1>1. RankOf(g) = r /\ LocalOf(g) = l
  BY RadixDivision, AddressingAssumption DEF Ranks, Locals, RankOf, LocalOf
<1> HIDE DEF g
<1>2. /\ ReadOffset(kind, g, n) = RowOffset(kind, r, l, n)
      /\ PollOffset(kind, g) = SignalOffset(kind, r, l)
  BY <1>1 DEF ReadOffset, RowOffset, PollOffset, SignalOffset, g
<1> QED
  BY <1>2 DEF g

\* The context a kernel picks for a destination exists and is the one of the
\* queue pairs that sync_ib or sync_roce connected to that rank.
THEOREM ContextCorrect == ContextOfPeer
<1> SUFFICES ASSUME NEW d \in Ranks, NEW l \in Locals
             PROVE  Ctx(d, l) \in 0 .. UseQpCount - 1 /\ PeerRank(Ctx(d, l)) = d
  BY DEF ContextOfPeer
<1> DEFINE Q == QpPerRank
           R == NumRanks
           x == l % Q
           c == d * Q + x
<1>1. R \in Nat \ {0} /\ d \in 0 .. R - 1 /\ l \in Nat
  BY AddressingAssumption DEF Ranks, Locals
<1>2. Q \in Nat \ {0}
  <2>1. MaxQp \div NumRanks \in Int /\ MaxQp % NumRanks \in 0 .. NumRanks - 1
        /\ MaxQp = (MaxQp \div NumRanks) * NumRanks + (MaxQp % NumRanks)
    BY AddressingAssumption
  <2> DEFINE q == MaxQp \div NumRanks
             v == MaxQp % NumRanks
  <2>2. q \in Int /\ v \in 0 .. R - 1 /\ MaxQp = q * R + v /\ MaxQp >= R
    BY <2>1, AddressingAssumption
  <2> HIDE DEF q, v
  <2>3. q >= 1
    <3>1. SUFFICES ASSUME q <= 0 PROVE FALSE
      BY <2>2
    <3>2. q * R <= 0
      BY <1>1, <2>2, <3>1
    <3>3. q * R \in Int
      BY <1>1, <2>2
    <3> QED
      BY <1>1, <2>2, <3>2, <3>3
  <2> QED
    BY <2>2, <2>3 DEF QpPerRank, q
<1>3. x \in 0 .. Q - 1
  BY <1>1, <1>2
<1>4. Ctx(d, l) = c /\ UseQpCount = R * Q
  BY <1>1, <1>2 DEF Ctx, UseQpCount
<1> HIDE DEF Q, R, x
<1>5. c \in 0 .. R * Q - 1
  BY <1>1, <1>2, <1>3, RadixBound
<1>6. (c * R) \div (R * Q) = d
  <2>1. c * R = d * (R * Q) + x * R
    BY <1>1, <1>2, <1>3
  <2>2. x * R \in 0 .. R * Q - 1
    <3>1. x * R + R <= Q * R
      BY <1>1, <1>2, <1>3, StrideOrder
    <3>2. x * R \in Nat /\ Q * R = R * Q /\ R * Q \in Nat
      BY <1>1, <1>2, <1>3
    <3> QED
      BY <1>1, <3>1, <3>2
  <2>3. R * Q \in Nat \ {0}
    BY <1>1, <1>2
  <2>4. (d * (R * Q) + x * R) \div (R * Q) = d
    BY <1>1, <2>2, <2>3, RadixDivision
  <2> QED
    BY <2>1, <2>4
<1> QED
  BY <1>4, <1>5, <1>6 DEF PeerRank, R

\* With an even number of experts every row starts at a multiple of 16 bytes,
\* the width of the copies; the code asserts it for the sizes only.
THEOREM AlignmentCorrect == RowsAligned
<1> SUFFICES ASSUME NumExperts % 2 = 0,
                    NEW kind \in {"dispatch", "combine"}, NEW i \in Halves,
                    NEW r \in Ranks, NEW l \in Locals, NEW n \in Slots
             PROVE  (RecvDataArea(i) + RowOffset(kind, r, l, n)) % 16 = 0
  BY DEF RowsAligned
<1>1. PICK e \in Nat : NumExperts = 2 * e
  BY Sizes
<1>2. PICK h \in Nat : Hidden = 512 * h
  BY HiddenSize, AddressingAssumption
<1>3. PICK k \in Nat : MsgBytes(kind) = 16 * k
  BY MessageFits
<1> DEFINE N == NumExperts * MaxTokens
           j == RowIndex(kind, r, l, n)
<1>4. SignalBytes = 8 * e
  BY <1>1 DEF SignalBytes
<1>5. DataBytes = 16 * (N * (2 + 64 * h)) /\ N * (2 + 64 * h) \in Nat
  BY <1>2, Sizes
<1>6. PICK f \in Nat : RecvDataArea(i) = 16 * f
  <2> DEFINE w == N * (2 + 64 * h)
  <2>1. DataBytes = 16 * w /\ w \in Nat
    BY <1>5
  <2> HIDE DEF w
  <2>2. RecvDataArea(0) = 16 * (e + w) /\ RecvDataArea(1) = 16 * (2 * e + 3 * w)
    BY <1>4, <2>1 DEF RecvDataArea, HalfBase
  <2>3. e + w \in Nat /\ 2 * e + 3 * w \in Nat
    BY <2>1
  <2>4. CASE i = 0
    BY <2>2, <2>3, <2>4
  <2>5. CASE i = 1
    BY <2>2, <2>3, <2>5
  <2> QED
    BY <2>4, <2>5 DEF Halves
<1>7. j \in Nat /\ RowOffset(kind, r, l, n) = 16 * (j * k) /\ j * k \in Nat
  BY <1>3, RowIndexed, Sizes
<1> DEFINE jk == j * k
<1> HIDE DEF jk
<1>8. jk \in Nat /\ RowOffset(kind, r, l, n) = 16 * jk
  BY <1>7 DEF jk
<1> QED
  BY <1>6, <1>8
=============================================================================
