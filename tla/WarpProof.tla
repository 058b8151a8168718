----------------------------- MODULE WarpProof -----------------------------
(***************************************************************************)
(* The warp algorithms of Warp do what the kernels take for granted, for   *)
(* rows of every length and for every value in the lanes.                  *)
(***************************************************************************)
EXTENDS Warp, TLAPS

-----------------------------------------------------------------------------
(* The copy.                                                               *)

\* The first loop covers a multiple of 32 elements, and leaves less than one of
\* its iterations.
LEMMA WholeFacts ==
    ASSUME NEW n \in Nat, NEW unroll \in Unrolls
    PROVE  /\ Whole(n, unroll) \in Nat /\ Whole(n, unroll) <= n
           /\ Whole(n, unroll) % 32 = 0 /\ Whole(n, unroll) % LoopStride(unroll) = 0
  BY DEF Whole, LoopStride, Unrolls

\* The unrolled loop covers the elements of the lane below Whole.
LEMMA LoopCovers ==
    ASSUME NEW n \in Nat, NEW unroll \in Unrolls, NEW lane \in Lanes, NEW i \in Nat
    PROVE  i \in InLoop(lane, n, unroll) <=> i < Whole(n, unroll) /\ i % 32 = lane
<1>1. CASE unroll = 7
  <2> DEFINE W == Whole(n, 7)
  <2>1. W \in Nat /\ W % 224 = 0
    BY <1>1, WholeFacts DEF LoopStride
  <2>2. i \in InLoop(lane, n, 7) <=>
            \E k \in Nat, j \in 0 .. 6 :
                lane + k * 224 < W /\ i = lane + k * 224 + j * 32
    BY DEF InLoop, LoopStride
  <2> HIDE DEF W
  <2>3. ASSUME NEW k \in Nat, NEW j \in 0 .. 6, lane + k * 224 < W,
               i = lane + k * 224 + j * 32
        PROVE  i < W /\ i % 32 = lane
    <3>1. k * 224 + 224 <= W
      BY <2>1, <2>3 DEF Lanes
    <3>2. lane + j * 32 < 224
      BY DEF Lanes
    <3>3. i % 32 = lane
      BY <2>3 DEF Lanes
    <3> QED
      BY <2>1, <2>3, <3>1, <3>2, <3>3 DEF Lanes
  <2>4. ASSUME i < W, i % 32 = lane
        PROVE  \E k \in Nat, j \in 0 .. 6 :
                  lane + k * 224 < W /\ i = lane + k * 224 + j * 32
    <3>1. /\ i = (i \div 224) * 224 + (i % 224)
          /\ i \div 224 \in Nat /\ i % 224 \in 0 .. 223
      OBVIOUS
    <3>2. PICK k \in Nat, x \in 0 .. 223 : i = k * 224 + x
      BY <3>1
    <3>3. x % 32 = lane
      BY <2>4, <3>2
    <3>4. PICK j \in 0 .. 6 : x = j * 32 + lane
      BY <3>3
    <3>5. k * 224 + 224 <= W
      BY <2>1, <2>4, <3>2
    <3> QED
      BY <2>1, <3>2, <3>4, <3>5 DEF Lanes
  <2>5. i \in InLoop(lane, n, 7) <=> i < W /\ i % 32 = lane
    BY <2>2, <2>3, <2>4
  <2> QED
    BY <1>1, <2>5 DEF W
<1>2. CASE unroll = 8
  <2> DEFINE W == Whole(n, 8)
  <2>1. W \in Nat /\ W % 256 = 0
    BY <1>2, WholeFacts DEF LoopStride
  <2>2. i \in InLoop(lane, n, 8) <=>
            \E k \in Nat, j \in 0 .. 7 :
                lane + k * 256 < W /\ i = lane + k * 256 + j * 32
    BY DEF InLoop, LoopStride
  <2> HIDE DEF W
  <2>3. ASSUME NEW k \in Nat, NEW j \in 0 .. 7, lane + k * 256 < W,
               i = lane + k * 256 + j * 32
        PROVE  i < W /\ i % 32 = lane
    <3>1. k * 256 + 256 <= W
      BY <2>1, <2>3 DEF Lanes
    <3>2. lane + j * 32 < 256
      BY DEF Lanes
    <3>3. i % 32 = lane
      BY <2>3 DEF Lanes
    <3> QED
      BY <2>1, <2>3, <3>1, <3>2, <3>3 DEF Lanes
  <2>4. ASSUME i < W, i % 32 = lane
        PROVE  \E k \in Nat, j \in 0 .. 7 :
                  lane + k * 256 < W /\ i = lane + k * 256 + j * 32
    <3>1. /\ i = (i \div 256) * 256 + (i % 256)
          /\ i \div 256 \in Nat /\ i % 256 \in 0 .. 255
      OBVIOUS
    <3>2. PICK k \in Nat, x \in 0 .. 255 : i = k * 256 + x
      BY <3>1
    <3>3. x % 32 = lane
      BY <2>4, <3>2
    <3>4. PICK j \in 0 .. 7 : x = j * 32 + lane
      BY <3>3
    <3>5. k * 256 + 256 <= W
      BY <2>1, <2>4, <3>2
    <3> QED
      BY <2>1, <3>2, <3>4, <3>5 DEF Lanes
  <2>5. i \in InLoop(lane, n, 8) <=> i < W /\ i % 32 = lane
    BY <2>2, <2>3, <2>4
  <2> QED
    BY <1>2, <2>5 DEF W
<1> QED
  BY <1>1, <1>2 DEF Unrolls

\* The second loop covers the elements of the lane from Whole on.
LEMMA RestCovers ==
    ASSUME NEW n \in Nat, NEW unroll \in Unrolls, NEW lane \in Lanes, NEW i \in Nat
    PROVE  i \in InRest(lane, n, unroll)
             <=> Whole(n, unroll) <= i /\ i < n /\ i % 32 = lane
<1> DEFINE W == Whole(n, unroll)
<1>1. W \in Nat /\ W % 32 = 0
  BY WholeFacts
<1> HIDE DEF W
<1>2. ASSUME NEW k \in Nat, i = W + lane + k * 32
      PROVE  i >= W /\ i % 32 = lane
  BY <1>1, <1>2 DEF Lanes
<1>3. ASSUME W <= i, i % 32 = lane
      PROVE  \E k \in Nat : i = W + lane + k * 32
  <2> DEFINE k == (i - W - lane) \div 32
  <2>1. k \in Nat /\ i = W + lane + k * 32
    BY <1>1, <1>3 DEF Lanes
  <2> QED
    BY <2>1
<1>4. i \in InRest(lane, n, unroll) <=> i < n /\ \E k \in Nat : i = W + lane + k * 32
  BY DEF InRest, W
<1>5. i \in InRest(lane, n, unroll) <=> W <= i /\ i < n /\ i % 32 = lane
  BY <1>2, <1>3, <1>4
<1> QED
  BY <1>5 DEF W

\* UNROLLED_WARP_COPY copies every element of a row exactly once, whatever the
\* length of the row and with both unroll factors of the kernels.
THEOREM CopyCorrect == CopyExact
<1> SUFFICES ASSUME NEW n \in Nat, NEW unroll \in Unrolls, NEW lane \in Lanes
             PROVE  /\ InLoop(lane, n, unroll) \cup InRest(lane, n, unroll)
                          = {i \in 0 .. n - 1 : i % 32 = lane}
                    /\ InLoop(lane, n, unroll) \cap InRest(lane, n, unroll) = {}
  BY DEF CopyExact
<1>1. Whole(n, unroll) \in Nat /\ Whole(n, unroll) <= n
  BY WholeFacts
<1>2. InLoop(lane, n, unroll) \subseteq Nat /\ InRest(lane, n, unroll) \subseteq Nat
  BY DEF InLoop, InRest
<1>3. \A i \in Nat :
         /\ i \in InLoop(lane, n, unroll) <=> i < Whole(n, unroll) /\ i % 32 = lane
         /\ i \in InRest(lane, n, unroll)
               <=> Whole(n, unroll) <= i /\ i < n /\ i % 32 = lane
  BY LoopCovers, RestCovers
<1>4. InLoop(lane, n, unroll) \cap InRest(lane, n, unroll) = {}
  BY <1>1, <1>2, <1>3
<1>5. ASSUME NEW i \in Nat
      PROVE  i \in InLoop(lane, n, unroll) \cup InRest(lane, n, unroll)
               <=> i \in {x \in 0 .. n - 1 : x % 32 = lane}
  BY <1>1, <1>3
<1>6. InLoop(lane, n, unroll) \cup InRest(lane, n, unroll) = {x \in 0 .. n - 1 : x % 32 = lane}
  BY <1>2, <1>5
<1> QED
  BY <1>4, <1>6

-----------------------------------------------------------------------------
(* The butterflies.                                                        *)

Masks == {1, 2, 4, 8, 16}

LEMMA PartnerInWarp ==
    ASSUME NEW l \in Lanes, NEW mask \in Masks
    PROVE  Partner(l, mask) \in Lanes
  BY DEF Partner, Lanes, Masks

\* One step, on values that repeat after 2 * mask lanes, makes them repeat after
\* mask lanes.
LEMMA AddStepFolds ==
    ASSUME NEW v \in [Lanes -> Int], NEW mask \in Masks,
           \A l \in Lanes : v[l] = v[l % (2 * mask)]
    PROVE  /\ AddStep(v, mask) \in [Lanes -> Int]
           /\ \A l \in Lanes :
                 AddStep(v, mask)[l] = v[l % mask] + v[(l % mask) + mask]
<1>1. AddStep(v, mask) \in [Lanes -> Int]
  BY PartnerInWarp DEF AddStep
<1>2. ASSUME NEW l \in Lanes
      PROVE  v[l] + v[Partner(l, mask)] = v[l % mask] + v[(l % mask) + mask]
  <2>1. Partner(l, mask) \in Lanes /\ l % mask \in Lanes /\ (l % mask) + mask \in Lanes
    BY PartnerInWarp DEF Lanes, Masks
  <2>2. v[l] = v[l % (2 * mask)] /\ v[Partner(l, mask)] = v[Partner(l, mask) % (2 * mask)]
    BY <2>1
  <2>3. CASE (l \div mask) % 2 = 0
    <3>1. l % (2 * mask) = l % mask /\ Partner(l, mask) % (2 * mask) = (l % mask) + mask
      <4>1. CASE mask = 1
        BY <2>3, <4>1 DEF Partner, Lanes
      <4>2. CASE mask = 2
        BY <2>3, <4>2 DEF Partner, Lanes
      <4>3. CASE mask = 4
        BY <2>3, <4>3 DEF Partner, Lanes
      <4>4. CASE mask = 8
        BY <2>3, <4>4 DEF Partner, Lanes
      <4>5. CASE mask = 16
        BY <2>3, <4>5 DEF Partner, Lanes
      <4> QED
        BY <4>1, <4>2, <4>3, <4>4, <4>5 DEF Masks
    <3> QED
      BY <2>1, <2>2, <3>1
  <2>4. CASE (l \div mask) % 2 # 0
    <3>1. l % (2 * mask) = (l % mask) + mask /\ Partner(l, mask) % (2 * mask) = l % mask
      <4>1. CASE mask = 1
        BY <2>4, <4>1 DEF Partner, Lanes
      <4>2. CASE mask = 2
        BY <2>4, <4>2 DEF Partner, Lanes
      <4>3. CASE mask = 4
        BY <2>4, <4>3 DEF Partner, Lanes
      <4>4. CASE mask = 8
        BY <2>4, <4>4 DEF Partner, Lanes
      <4>5. CASE mask = 16
        BY <2>4, <4>5 DEF Partner, Lanes
      <4> QED
        BY <4>1, <4>2, <4>3, <4>4, <4>5 DEF Masks
    <3> QED
      BY <2>1, <2>2, <3>1
  <2> QED
    BY <2>3, <2>4
<1> QED
  BY <1>1, <1>2 DEF AddStep

\* Four neighbouring sums of two.
LEMMA FourFolds ==
    ASSUME NEW u \in [Lanes -> Int], NEW w \in [Lanes -> Int], NEW m \in {8, 16},
           NEW k \in {0, 4, 8, 12}, k + m <= 28,
           w[k] = u[k] + u[k + m], w[k + 1] = u[k + 1] + u[k + 1 + m],
           w[k + 2] = u[k + 2] + u[k + 2 + m], w[k + 3] = u[k + 3] + u[k + 3 + m]
    PROVE  /\ Four(w, k) = Four(u, k) + Four(u, k + m)
           /\ Four(w, k) \in Int /\ Four(u, k) \in Int /\ Four(u, k + m) \in Int
<1>1. {k, k + 1, k + 2, k + 3, k + m, k + 1 + m, k + 2 + m, k + 3 + m} \subseteq Lanes
  BY DEF Lanes
<1>2. k + m + 1 = k + 1 + m /\ k + m + 2 = k + 2 + m /\ k + m + 3 = k + 3 + m
  OBVIOUS
<1>3. /\ u[k] \in Int /\ u[k + 1] \in Int /\ u[k + 2] \in Int /\ u[k + 3] \in Int
      /\ u[k + m] \in Int /\ u[k + 1 + m] \in Int
      /\ u[k + 2 + m] \in Int /\ u[k + 3 + m] \in Int
  BY <1>1
<1> QED
  BY <1>2, <1>3 DEF Four

\* warp_reduce_sum gives every lane the sum over the warp, which the last warp of
\* dispatch adds to the finish counter of an expert.
THEOREM SumCorrect == SumEverywhere
<1> SUFFICES ASSUME NEW v \in [Lanes -> Int], NEW l \in Lanes
             PROVE  WarpReduceSum(v)[l] =
                        Four(v, 0) + Four(v, 4) + Four(v, 8) + Four(v, 12)
                        + Four(v, 16) + Four(v, 20) + Four(v, 24) + Four(v, 28)
  BY DEF SumEverywhere
<1> DEFINE a == AddStep(v, 16)
           b == AddStep(a, 8)
           c == AddStep(b, 4)
           d == AddStep(c, 2)
           e == AddStep(d, 1)
<1>1. a \in [Lanes -> Int] /\ \A k \in Lanes : a[k] = v[k % 16] + v[(k % 16) + 16]
  <2>1. 16 \in Masks /\ \A k \in Lanes : v[k] = v[k % (2 * 16)]
    BY DEF Masks, Lanes
  <2> QED
    BY <2>1, AddStepFolds
<1>2. b \in [Lanes -> Int] /\ \A k \in Lanes : b[k] = a[k % 8] + a[(k % 8) + 8]
  <2> HIDE DEF a
  <2>1. 8 \in Masks /\ \A k \in Lanes : a[k] = a[k % (2 * 8)]
    BY <1>1 DEF Masks, Lanes
  <2> QED
    BY <1>1, <2>1, AddStepFolds
<1>3. c \in [Lanes -> Int] /\ \A k \in Lanes : c[k] = b[k % 4] + b[(k % 4) + 4]
  <2> HIDE DEF b
  <2>1. 4 \in Masks /\ \A k \in Lanes : b[k] = b[k % (2 * 4)]
    BY <1>2 DEF Masks, Lanes
  <2> QED
    BY <1>2, <2>1, AddStepFolds
<1>4. d \in [Lanes -> Int] /\ \A k \in Lanes : d[k] = c[k % 2] + c[(k % 2) + 2]
  <2> HIDE DEF c
  <2>1. 2 \in Masks /\ \A k \in Lanes : c[k] = c[k % (2 * 2)]
    BY <1>3 DEF Masks, Lanes
  <2> QED
    BY <1>3, <2>1, AddStepFolds
<1>5. e[l] = d[0] + d[1]
  <2> HIDE DEF d
  <2>1. 1 \in Masks /\ \A k \in Lanes : d[k] = d[k % (2 * 1)]
    BY <1>4 DEF Masks, Lanes
  <2>2. e[l] = d[l % 1] + d[(l % 1) + 1]
    BY <1>4, <2>1, AddStepFolds
  <2> QED
    BY <2>2 DEF Lanes
<1>6. WarpReduceSum(v)[l] = e[l]
  BY DEF WarpReduceSum
<1> HIDE DEF a, b, c, d, e
<1>7. d[0] = c[0] + c[2] /\ d[1] = c[1] + c[3]
  BY <1>4 DEF Lanes
<1>8. /\ c[0] = b[0] + b[4] /\ c[1] = b[1] + b[5]
      /\ c[2] = b[2] + b[6] /\ c[3] = b[3] + b[7]
  BY <1>3 DEF Lanes
<1>9. e[l] = Four(b, 0) + Four(b, 4)
  <2>1. /\ b[0] \in Int /\ b[1] \in Int /\ b[2] \in Int /\ b[3] \in Int
        /\ b[4] \in Int /\ b[5] \in Int /\ b[6] \in Int /\ b[7] \in Int
    BY <1>2 DEF Lanes
  <2> QED
    BY <1>5, <1>7, <1>8, <2>1 DEF Four
<1>10. ASSUME NEW k \in {0, 4}
       PROVE  /\ Four(b, k) = Four(a, k) + Four(a, k + 8)
              /\ Four(a, k) \in Int /\ Four(a, k + 8) \in Int
  <2>1. \A x \in 0 .. 7 : b[x] = a[x] + a[x + 8]
    BY <1>2 DEF Lanes
  <2>2. /\ b[k] = a[k] + a[k + 8] /\ b[k + 1] = a[k + 1] + a[k + 1 + 8]
        /\ b[k + 2] = a[k + 2] + a[k + 2 + 8]
        /\ b[k + 3] = a[k + 3] + a[k + 3 + 8]
    BY <2>1
  <2>3. 8 \in {8, 16} /\ k \in {0, 4, 8, 12} /\ k + 8 <= 28
    OBVIOUS
  <2> QED
    BY <1>1, <1>2, <2>2, <2>3, FourFolds
<1>11. ASSUME NEW k \in {0, 4, 8, 12}
       PROVE  /\ Four(a, k) = Four(v, k) + Four(v, k + 16)
              /\ Four(v, k) \in Int /\ Four(v, k + 16) \in Int
  <2>1. \A x \in 0 .. 15 : a[x] = v[x] + v[x + 16]
    BY <1>1 DEF Lanes
  <2>2. /\ a[k] = v[k] + v[k + 16] /\ a[k + 1] = v[k + 1] + v[k + 1 + 16]
        /\ a[k + 2] = v[k + 2] + v[k + 2 + 16]
        /\ a[k + 3] = v[k + 3] + v[k + 3 + 16]
    BY <2>1
  <2>3. 16 \in {8, 16} /\ k \in {0, 4, 8, 12} /\ k + 16 <= 28
    OBVIOUS
  <2> QED
    BY <1>1, <2>2, <2>3, FourFolds
<1>12. e[l] = Four(a, 0) + Four(a, 8) + Four(a, 4) + Four(a, 12)
  BY <1>9, <1>10
<1> QED
  BY <1>6, <1>11, <1>12

\* The lanes of l's half of the warp that are a multiple of m lanes away, and that
\* w holds, for each lane, the largest value of v among them.
Class(l, m) == {k \in Lanes : k \div 16 = l \div 16 /\ k % m = l % m}
IsMax(w, v, m) ==
    \A l \in Lanes : /\ \A k \in Class(l, m) : w[l] >= v[k]
                     /\ \E k \in Class(l, m) : w[l] = v[k]

\* The lanes of a class are those of two classes, the lane's and its partner's.
LEMMA ClassSplits ==
    ASSUME NEW l \in Lanes, NEW mask \in {1, 2, 4, 8}
    PROVE  Class(l, mask) = Class(l, 2 * mask) \cup Class(Partner(l, mask), 2 * mask)
<1> SUFFICES ASSUME NEW k \in Lanes
             PROVE  k \div 16 = l \div 16 /\ k % mask = l % mask
                    <=> \/ k \div 16 = l \div 16 /\ k % (2 * mask) = l % (2 * mask)
                        \/ /\ k \div 16 = Partner(l, mask) \div 16
                           /\ k % (2 * mask) = Partner(l, mask) % (2 * mask)
  BY DEF Class
<1>1. CASE mask = 1
  BY <1>1 DEF Partner, Lanes
<1>2. CASE mask = 2
  BY <1>2 DEF Partner, Lanes
<1>3. CASE mask = 4
  BY <1>3 DEF Partner, Lanes
<1>4. CASE mask = 8
  BY <1>4 DEF Partner, Lanes
<1> QED
  BY <1>1, <1>2, <1>3, <1>4

\* A step with a mask halves the distance.
LEMMA MaxStepFolds ==
    ASSUME NEW v \in [Lanes -> Int], NEW w \in [Lanes -> Int],
           NEW mask \in {1, 2, 4, 8}, IsMax(w, v, 2 * mask)
    PROVE  MaxStep(w, mask) \in [Lanes -> Int] /\ IsMax(MaxStep(w, mask), v, mask)
<1>1. \A l \in Lanes : Partner(l, mask) \in Lanes
  BY PartnerInWarp DEF Masks
<1>2. MaxStep(w, mask) \in [Lanes -> Int]
  BY <1>1 DEF MaxStep
<1>3. ASSUME NEW l \in Lanes
      PROVE  /\ \A k \in Class(l, mask) : MaxStep(w, mask)[l] >= v[k]
             /\ \E k \in Class(l, mask) : MaxStep(w, mask)[l] = v[k]
  <2> DEFINE p == Partner(l, mask)
             x == MaxStep(w, mask)[l]
  <2>1. p \in Lanes
    BY <1>1
  <2>2. x >= w[l] /\ x >= w[p] /\ (x = w[l] \/ x = w[p]) /\ x \in Int
    BY <1>1 DEF MaxStep
  <2>3. Class(l, mask) = Class(l, 2 * mask) \cup Class(p, 2 * mask)
    BY ClassSplits
  <2>4. /\ \A k \in Class(l, 2 * mask) : w[l] >= v[k]
        /\ \E k \in Class(l, 2 * mask) : w[l] = v[k]
        /\ \A k \in Class(p, 2 * mask) : w[p] >= v[k]
        /\ \E k \in Class(p, 2 * mask) : w[p] = v[k]
    BY <2>1 DEF IsMax
  <2>5. \A k \in Class(l, mask) : k \in Lanes
    BY DEF Class
  <2> HIDE DEF p, x
  <2>6. \A k \in Class(l, mask) : x >= v[k]
    BY <2>1, <2>2, <2>3, <2>4, <2>5
  <2>7. \E k \in Class(l, mask) : x = v[k]
    BY <2>2, <2>3, <2>4
  <2> QED
    BY <2>6, <2>7 DEF x
<1> QED
  BY <1>2, <1>3 DEF IsMax

\* half_warp_reduce_max gives every lane the largest value of its 16 lanes, from
\* which the scale of 128 values of a row is computed.
THEOREM MaxCorrect == MaxOfHalf
<1> SUFFICES ASSUME NEW v \in [Lanes -> Int]
             PROVE  \A l \in Lanes :
                       LET half == {k \in Lanes : k \div 16 = l \div 16}
                       IN /\ \A k \in half : HalfWarpReduceMax(v)[l] >= v[k]
                          /\ \E k \in half : HalfWarpReduceMax(v)[l] = v[k]
  BY DEF MaxOfHalf
<1> DEFINE a == MaxStep(v, 8)
           b == MaxStep(a, 4)
           c == MaxStep(b, 2)
           d == MaxStep(c, 1)
<1>1. IsMax(v, v, 2 * 8)
  <2>1. \A l \in Lanes : Class(l, 16) = {l}
    BY DEF Class, Lanes
  <2>2. \A l \in Lanes : v[l] >= v[l]
    OBVIOUS
  <2>3. IsMax(v, v, 16)
    BY <2>1, <2>2 DEF IsMax
  <2>4. 2 * 8 = 16
    OBVIOUS
  <2> QED
    BY <2>3, <2>4
<1>2. a \in [Lanes -> Int] /\ IsMax(a, v, 2 * 4)
  BY <1>1, MaxStepFolds
<1>3. b \in [Lanes -> Int] /\ IsMax(b, v, 2 * 2)
  <2> HIDE DEF a
  <2> QED
    BY <1>2, MaxStepFolds
<1>4. c \in [Lanes -> Int] /\ IsMax(c, v, 2 * 1)
  <2> HIDE DEF b
  <2> QED
    BY <1>3, MaxStepFolds
<1>5. IsMax(d, v, 1)
  <2> HIDE DEF c
  <2> QED
    BY <1>4, MaxStepFolds
<1>6. HalfWarpReduceMax(v) = d
  BY DEF HalfWarpReduceMax
<1>7. \A l \in Lanes : Class(l, 1) = {k \in Lanes : k \div 16 = l \div 16}
  BY DEF Class, Lanes
<1> HIDE DEF d
<1> QED
  BY <1>5, <1>6, <1>7 DEF IsMax

-----------------------------------------------------------------------------
(* The pair.                                                               *)

\* A two's complement integer is read back from the bits of its word.
LEMMA SignedBits ==
    ASSUME NEW h \in Nat, h > 0, NEW x \in -h .. h - 1
    PROVE  /\ x % (2 * h) \in 0 .. 2 * h - 1
           /\ x = IF x % (2 * h) < h THEN x % (2 * h) ELSE (x % (2 * h)) - 2 * h
<1>1. CASE x >= 0
  <2>1. x % (2 * h) = x
    BY <1>1
  <2> QED
    BY <1>1, <2>1
<1>2. CASE x < 0
  <2>1. x % (2 * h) = x + 2 * h
    BY <1>2
  <2> QED
    BY <1>2, <2>1
<1> QED
  BY <1>1, <1>2

\* The two halves of a word of words.
LEMMA TwoDigits ==
    ASSUME NEW w \in Nat, w > 1, NEW a \in 0 .. w - 1, NEW b \in 0 .. w - 1
    PROVE  (a + b * w) % w = a /\ (a + b * w) \div w = b
  BY SMT

\* The range that dispatch packs for a sender is the one combine unpacks.
THEOREM PairCorrect == PairKept
<1> SUFFICES ASSUME NEW x \in Int32, NEW y \in Int32
             PROVE  Unpack2(Pack2(x, y)) = <<x, y>>
  BY DEF PairKept
<1> DEFINE a == x % Word
           b == y % Word
<1>1. HalfWord \in Nat /\ HalfWord > 0
  BY SMT DEF HalfWord
<1>2. Word = 2 * HalfWord /\ Word \in Nat /\ Word > 1
  BY <1>1 DEF Word
<1>3. /\ a \in 0 .. Word - 1 /\ Signed(a) = x
      /\ b \in 0 .. Word - 1 /\ Signed(b) = y
  BY <1>1, <1>2, SignedBits DEF Int32, Signed
<1>4. Pack2(x, y) = a + b * Word
  BY DEF Pack2
<1> HIDE DEF a, b
<1>5. (a + b * Word) % Word = a /\ (a + b * Word) \div Word = b
  BY <1>2, <1>3, TwoDigits
<1> QED
  BY <1>3, <1>4, <1>5 DEF Unpack2
=============================================================================
