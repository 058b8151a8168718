-------------------------------- MODULE Warp --------------------------------
(***************************************************************************)
(* The warp algorithms of src/include/ep_utils.cuh that the kernels rely   *)
(* on: the copy of a row by the 32 lanes of a warp, the two butterfly      *)
(* reductions, and the pair of integers in which dispatch hands the range  *)
(* of a sender's rows to combine.  A value per lane is a function on       *)
(* Lanes.                                                                  *)
(***************************************************************************)
EXTENDS Integers

Lanes == 0 .. 31

-----------------------------------------------------------------------------
(* UNROLLED_WARP_COPY of n elements, with `unroll' of them per lane and    *)
(* iteration.                                                              *)

\* The factors at the calls: dispatch sends with 8, all others copy with 7.
Unrolls == {7, 8}

LoopStride(unroll) == 32 * unroll
Whole(n, unroll) == (n \div LoopStride(unroll)) * LoopStride(unroll)

\* The elements a lane copies: in the unrolled loop, and in the loop for the rest.
InLoop(lane, n, unroll) ==
    {i \in Nat : \E k \in Nat, j \in 0 .. unroll - 1 :
        /\ lane + k * LoopStride(unroll) < Whole(n, unroll)
        /\ i = lane + k * LoopStride(unroll) + j * 32}
InRest(lane, n, unroll) ==
    {i \in Nat : i < n /\ \E k \in Nat : i = Whole(n, unroll) + lane + k * 32}

-----------------------------------------------------------------------------
(* Butterflies.                                                            *)

\* The lane __shfl_xor_sync takes its value from, for a mask of one bit.
Partner(lane, mask) ==
    IF (lane \div mask) % 2 = 0 THEN lane + mask ELSE lane - mask

AddStep(v, mask) == [l \in Lanes |-> v[l] + v[Partner(l, mask)]]
MaxStep(v, mask) ==
    [l \in Lanes |-> IF v[l] >= v[Partner(l, mask)] THEN v[l] ELSE v[Partner(l, mask)]]

WarpReduceSum(v) == AddStep(AddStep(AddStep(AddStep(AddStep(v, 16), 8), 4), 2), 1)
HalfWarpReduceMax(v) == MaxStep(MaxStep(MaxStep(MaxStep(v, 8), 4), 2), 1)

-----------------------------------------------------------------------------
(* pack2 and unpack2 of two 32-bit integers in one of 64 bits, the first   *)
(* one in the lower half.                                                  *)

HalfWord == 32768 * 65536       \* 2^31
Word     == 2 * HalfWord
Int32    == -HalfWord .. HalfWord - 1

Signed(bits) == IF bits < HalfWord THEN bits ELSE bits - Word
Pack2(x, y) == (x % Word) + (y % Word) * Word
Unpack2(packed) == <<Signed(packed % Word), Signed(packed \div Word)>>

-----------------------------------------------------------------------------
(* What they promise.                                                      *)

\* Every element of a row is copied by one lane, in one of the two loops, and
\* nothing behind the row is touched.
CopyExact ==
    \A n \in Nat, unroll \in Unrolls, lane \in Lanes :
        /\ InLoop(lane, n, unroll) \cup InRest(lane, n, unroll)
              = {i \in 0 .. n - 1 : i % 32 = lane}
        /\ InLoop(lane, n, unroll) \cap InRest(lane, n, unroll) = {}

\* Every lane ends with the sum of the values of all lanes.
Four(v, k) == v[k] + v[k + 1] + v[k + 2] + v[k + 3]
SumEverywhere ==
    \A v \in [Lanes -> Int], l \in Lanes :
        WarpReduceSum(v)[l] =
            Four(v, 0) + Four(v, 4) + Four(v, 8) + Four(v, 12)
            + Four(v, 16) + Four(v, 20) + Four(v, 24) + Four(v, 28)

\* combine unpacks what dispatch has packed, also a negative count.
PairKept == \A x, y \in Int32 : Unpack2(Pack2(x, y)) = <<x, y>>

\* Every lane ends with the largest value of its half of the warp.
MaxOfHalf ==
    \A v \in [Lanes -> Int], l \in Lanes :
        LET half == {k \in Lanes : k \div 16 = l \div 16}
        IN /\ \A k \in half : HalfWarpReduceMax(v)[l] >= v[k]
           /\ \E k \in half : HalfWarpReduceMax(v)[l] = v[k]
=============================================================================
