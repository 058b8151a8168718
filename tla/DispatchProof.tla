--------------------------- MODULE DispatchProof ---------------------------
(* Proofs about the dispatch kernel, for every number of ranks, experts,   *)
(* blocks, tokens and selections.                                          *)
EXTENDS Dispatch, Radix, FiniteSetTheorems, TLAPS

-----------------------------------------------------------------------------
(* Index arithmetic.                                                       *)

\* A group index splits into a rank and a local expert.
LEMMA GroupIndex ==
    ASSUME NEW g \in Experts
    PROVE  /\ DstRank(g) \in Ranks
           /\ LocalIdx(g) \in Locals
<1>1. g \in Nat /\ g < NumRanks * LocalExperts /\ NumRanks \in Nat \ {0}
      /\ LocalExperts \in Nat \ {0}
  BY SizeAssumption DEF Experts, NumExperts
<1>2. g % LocalExperts \in 0 .. LocalExperts - 1
  BY <1>1
<1>3. g \div LocalExperts \in Nat
  BY <1>1
<1>4. g = LocalExperts * (g \div LocalExperts) + (g % LocalExperts)
  BY <1>1
<1>5. g \div LocalExperts < NumRanks
  <2> DEFINE q == g \div LocalExperts
  <2>1. SUFFICES ASSUME q >= NumRanks PROVE FALSE
    BY <1>1, <1>3
  <2>2. LocalExperts * q >= LocalExperts * NumRanks
    BY <2>1, <1>1, <1>3
  <2>3. QED
    BY <2>2, <1>1, <1>2, <1>3, <1>4
<1>6. QED
  BY <1>1, <1>2, <1>3, <1>5 DEF DstRank, LocalIdx, Ranks, Locals

\* The signal words of the pairs (local expert, source) lie in the buffer.
LEMMA WordIndex ==
    ASSUME NEW l \in Locals, NEW s \in Ranks
    PROVE  SignalWord(l, s) \in Experts
<1>1. l \in Nat /\ s \in Nat /\ l <= LocalExperts - 1 /\ s <= NumRanks - 1
      /\ NumRanks \in Nat \ {0} /\ LocalExperts \in Nat \ {0}
  BY SizeAssumption DEF Locals, Ranks
<1>2. l * NumRanks <= (LocalExperts - 1) * NumRanks
  BY <1>1
<1>3. (LocalExperts - 1) * NumRanks = NumRanks * LocalExperts - NumRanks
  BY <1>1
<1>4. l * NumRanks \in Nat
  BY <1>1
<1>5. QED
  BY <1>1, <1>2, <1>3, <1>4 DEF SignalWord, Experts, NumExperts

-----------------------------------------------------------------------------
(* The sets of items are finite.                                           *)

LEMMA ItemsFinite == IsFiniteSet(Items)
<1>1. IsFiniteSet(0 .. MaxTokens - 1) /\ IsFiniteSet(0 .. NumTopK - 1)
  BY FS_Interval, SizeAssumption
<1>2. QED
  BY <1>1, FS_Product DEF Items

LEMMA AssignedFinite == \A e : IsFiniteSet(Assigned(e))
<1>1. \A e : Assigned(e) \subseteq Items
  BY DEF Assigned
<1>2. QED
  BY <1>1, ItemsFinite, FS_Subset

-----------------------------------------------------------------------------
(* Type correctness.                                                       *)

\* Every action leaves the counters, markers and buffers well typed.
LEMMA TypeStep == TypeOK /\ [Next]_vars => TypeOK'
<1> SUFFICES ASSUME TypeOK, [Next]_vars PROVE TypeOK'
  OBVIOUS
<1> USE DEF TypeOK, sendVars, recvVars, ctrlVars
<1>1. ASSUME NEW f \in Routings, NEW ph \in {"both", "send"}, LaunchSend(f, ph)
      PROVE TypeOK'
  <2>1. f \in [Items -> Experts \cup {Unrouted}]
    BY InputAssumption DEF IsRouting
  <2>2. both' \in BOOLEAN /\ recvPending' \in BOOLEAN
    BY <1>1, Zenon DEF LaunchSend
  <2>3. range' \in [Locals \X Ranks -> Int \X Int]
    BY <1>1 DEF LaunchSend, NoRange
  <2>4. outbox' \in [Experts -> SUBSET (Nat \X Nat)]
    BY <1>1 DEF LaunchSend
  <2>5. /\ mode' \in {"idle", "send", "recv"}
        /\ cleaned' \in BOOLEAN
        /\ tagged' \subseteq Experts /\ counted' \subseteq Experts
        /\ synced' \subseteq SMs
    BY <1>1 DEF LaunchSend
  <2>6. /\ step' \in [Items -> {"waiting", "slotted", "written", "finished"}]
        /\ leader' \in [Experts -> {"wait", "sent", "done"}]
        /\ recv' \in [Experts -> {"wait", "copy", "done"}]
    BY <1>1 DEF LaunchSend
  <2>7. slot' \in [Items -> Nat] /\ signal' \in [Experts -> Int]
    BY <1>1 DEF LaunchSend
  <2>8. /\ counter' \in [Experts -> Nat] /\ finish' \in [Experts -> Int]
        /\ packed' \in [Locals -> Int] /\ active' \in [Ranks -> BOOLEAN]
        /\ route' \in [Items -> Experts \cup {Unrouted}]
    BY <1>1, <2>1 DEF LaunchSend
  <2>9. QED
    BY <2>2, <2>3, <2>4, <2>5, <2>6, <2>7, <2>8
<1>2. CASE LaunchRecv
  BY <1>2 DEF LaunchRecv
<1>3. ASSUME NEW i \in Items, TakeSlot(i) PROVE TypeOK'
  <2>1. route[i] \in Experts
    BY <1>3 DEF TakeSlot
  <2>2. QED
    BY <1>3, <2>1 DEF TakeSlot, NextSlot
<1>4. ASSUME NEW i \in Items, WriteRow(i) PROVE TypeOK'
  <2>1. <<slot[i], i[1]>> \in Nat \X Nat
    BY SizeAssumption DEF Items
  <2>2. QED
    BY <1>4, <2>1 DEF WriteRow
<1>5. ASSUME NEW i \in Items, FinishItem(i) PROVE TypeOK'
  <2>1. CASE route[i] \in Experts
    BY <1>5, <2>1 DEF FinishItem
  <2>2. CASE route[i] \notin Experts
    <3>1. finish' = finish
      BY <1>5, <2>2 DEF FinishItem
    <3>2. QED
      BY <1>5, <3>1 DEF FinishItem
  <2>3. QED
    BY <2>1, <2>2
<1>6. CASE CleanNext
  BY <1>6 DEF CleanNext
<1>7. ASSUME NEW e \in Experts, TagExpert(e) PROVE TypeOK'
  BY <1>7, SizeAssumption DEF TagExpert
<1>8. ASSUME NEW e \in Experts, CountExpert(e) PROVE TypeOK'
  <2>1. Cardinality(Assigned(e)) \in Nat
    BY AssignedFinite, FS_CardinalityType
  <2>2. QED
    BY <1>8, <2>1, SizeAssumption DEF CountExpert, CountTag
<1>9. ASSUME NEW s \in SMs, SyncThreads(s) PROVE TypeOK'
  BY <1>9 DEF SyncThreads
<1>10. ASSUME NEW e \in Experts, SendSignal(e) PROVE TypeOK'
  <2>1. Cardinality(Assigned(e)) \in Nat
    BY AssignedFinite, FS_CardinalityType
  <2>2. SignalOf(Cardinality(Assigned(e))) \in Int
    BY <2>1 DEF SignalOf
  <2>3. QED
    BY <1>10, <2>2 DEF SendSignal
<1>11. ASSUME NEW e \in Experts, ResetCounters(e) PROVE TypeOK'
  <2>1. packed' \in [Locals -> Int]
    <3>1. CASE DstRank(e) = 0
      BY <1>11, <3>1, GroupIndex DEF ResetCounters, PackedReset
    <3>2. CASE DstRank(e) # 0
      BY <1>11, <3>2 DEF ResetCounters, PackedReset
    <3>3. QED
      BY <3>1, <3>2
  <2>2. QED
    BY <1>11, <2>1 DEF ResetCounters, Cleared
<1>12. CASE GridSync
  BY <1>12 DEF GridSync
<1>13. CASE ReturnSend
  BY <1>13 DEF ReturnSend
<1>14. ASSUME NEW g \in Experts, NEW n \in Int, Claim(g, n),
              active' \in [Ranks -> BOOLEAN]
       PROVE TypeOK'
  <2>1. packed[LocalIdx(g)] \in Int
    BY GroupIndex
  <2>2. <<n, packed[LocalIdx(g)]>> \in Int \X Int
    BY <2>1
  <2>3. range' \in [Locals \X Ranks -> Int \X Int]
    BY <1>14, <2>2 DEF Claim
  <2>4. packed' \in [Locals -> Int]
    <3>1. packed[LocalIdx(g)] + n \in Int
      BY <1>14, <2>1
    <3>2. QED
      BY <1>14, <3>1 DEF Claim
  <2>5. QED
    BY <1>14, <2>3, <2>4 DEF Claim
<1>15. ASSUME NEW g \in Experts, ReceiveSignal(g) PROVE TypeOK'
  <2>1. WordOf(g) \in Experts
    BY GroupIndex, WordIndex DEF WordOf
  <2>2. CountOf(signal[WordOf(g)]) \in Int
    BY <2>1 DEF CountOf
  <2>3. QED
    BY <1>14, <1>15, <2>2 DEF ReceiveSignal
<1>16. ASSUME NEW g \in Experts, GiveUp(g) PROVE TypeOK'
  <2>1. CountOf(-1) \in Int
    BY DEF CountOf
  <2>2. active' \in [Ranks -> BOOLEAN]
    BY <1>16 DEF GiveUp
  <2>3. QED
    BY <1>14, <1>16, <2>1, <2>2 DEF GiveUp
<1>17. ASSUME NEW g \in Experts, CopyRows(g) PROVE TypeOK'
  BY <1>17 DEF CopyRows
<1>18. CASE ReturnRecv
  BY <1>18 DEF ReturnRecv
<1>19. ASSUME NEW l \in Locals, NEW s \in Ranks, NEW n \in PeerCounts,
              PeerSignal(l, s, n)
       PROVE TypeOK'
  <2>1. SignalOf(n) \in Int
    BY InputAssumption, SizeAssumption DEF SignalOf
  <2>2. QED
    BY <1>19, <2>1 DEF PeerSignal
<1>20. CASE UNCHANGED vars
  BY <1>20 DEF vars
<1>21. QED
  BY <1>1, <1>2, <1>3, <1>4, <1>5, <1>6, <1>7, <1>8, <1>9, <1>10, <1>11, <1>12,
     <1>13, <1>15, <1>16, <1>17, <1>18, <1>19, <1>20 DEF Next

\* Type correctness holds throughout every sequence of launches.
THEOREM TypeCorrect == Spec => []TypeOK
<1>1. Init => TypeOK
  <2> SUFFICES ASSUME Init PROVE TypeOK
    OBVIOUS
  <2>1. range \in [Locals \X Ranks -> Int \X Int]
    BY DEF Init, NoRange
  <2>2. outbox \in [Experts -> SUBSET (Nat \X Nat)]
    BY DEF Init
  <2>3. /\ mode \in {"idle", "send", "recv"}
        /\ recvPending \in BOOLEAN /\ both \in BOOLEAN /\ cleaned \in BOOLEAN
        /\ tagged \subseteq Experts /\ counted \subseteq Experts
        /\ synced \subseteq SMs
    BY DEF Init
  <2>4. /\ step \in [Items -> {"waiting", "slotted", "written", "finished"}]
        /\ leader \in [Experts -> {"wait", "sent", "done"}]
        /\ recv \in [Experts -> {"wait", "copy", "done"}]
        /\ active \in [Ranks -> BOOLEAN]
    BY DEF Init
  <2>5. /\ slot \in [Items -> Nat] /\ signal \in [Experts -> Int]
        /\ counter \in [Experts -> Nat] /\ finish \in [Experts -> Int]
        /\ packed \in [Locals -> Int]
        /\ route \in [Items -> Experts \cup {Unrouted}]
    BY DEF Init
  <2>6. QED
    BY <2>1, <2>2, <2>3, <2>4, <2>5 DEF TypeOK
<1>2. QED
  BY <1>1, TypeStep, PTL DEF Spec

-----------------------------------------------------------------------------
(* The finish-counter protocol.                                            *)

\* The items of an expert in any set of steps are finitely many of its items.
LEMMA StepSets ==
    \A e : /\ IsFiniteSet(Assigned(e)) /\ Cardinality(Assigned(e)) \in Nat
          /\ IsFiniteSet(Taken(e)) /\ Cardinality(Taken(e)) \in Nat
          /\ IsFiniteSet(Finished(e)) /\ Cardinality(Finished(e)) \in Nat
          /\ Cardinality(Finished(e)) <= Cardinality(Assigned(e))
          /\ (Cardinality(Finished(e)) = Cardinality(Assigned(e))
                => Finished(e) = Assigned(e))
<1> TAKE e
<1>1. IsFiniteSet(Assigned(e))
  BY AssignedFinite
<1>2. Taken(e) \in SUBSET Assigned(e) /\ Finished(e) \in SUBSET Assigned(e)
  BY DEF Taken, Finished, InStep
<1>3. IsFiniteSet(Taken(e)) /\ IsFiniteSet(Finished(e))
  BY <1>1, <1>2, FS_Subset
<1>4. /\ Cardinality(Finished(e)) <= Cardinality(Assigned(e))
      /\ (Cardinality(Finished(e)) = Cardinality(Assigned(e))
            => Finished(e) = Assigned(e))
  BY <1>1, <1>2, FS_Subset
<1>5. QED
  BY <1>1, <1>3, <1>4, FS_CardinalityType

\* A leader that sees 2 * Tag after its block's __syncthreads knows that the
\* cleaner has tagged its expert and that no row of it is outstanding.
LEMMA TwoTags ==
    ASSUME NEW e \in Experts, e \in counted, FinishValue(e) = 2 * Tag
    PROVE  e \in tagged /\ Finished(e) = Assigned(e)
<1> DEFINE a == Cardinality(Assigned(e))
           n == Cardinality(Finished(e))
<1>1. a \in Nat /\ n \in Nat /\ n <= a /\ Tag \in Nat /\ Tag > 0
  BY StepSets, SizeAssumption
<1>2. (IF e \in tagged THEN Tag ELSE 0) + (Tag - a) + n = 2 * Tag
  BY DEF FinishValue
<1> HIDE DEF a, n
<1>3. e \in tagged /\ n = a
  BY <1>1, <1>2
<1>4. QED
  BY <1>3, StepSets DEF a, n

\* What a step of one item changes.
LEMMA ItemStep ==
    ASSUME TypeOK, NEW i \in Items, NEW v, UNCHANGED route,
           step' = [step EXCEPT ![i] = v]
    PROVE  /\ \A e : Assigned(e)' = Assigned(e)
           /\ \A e : e # route[i] => /\ Taken(e)' = Taken(e)
                                     /\ Written(e)' = Written(e)
                                     /\ Finished(e)' = Finished(e)
<1>1. \A j \in Items : j # i => step'[j] = step[j]
  BY DEF TypeOK
<1>2. \A e : Assigned(e)' = Assigned(e)
  BY DEF Assigned
<1>3. \A e : e # route[i] => i \notin Assigned(e)
  BY DEF Assigned
<1>4. QED
  BY <1>1, <1>2, <1>3 DEF Taken, Written, Finished, InStep, Assigned

\* An item that is still on its way keeps its expert's leader waiting.
LEMMA LeaderWaits ==
    ASSUME TypeOK, ProgressOrder, mode = "send", NEW i \in Items,
           route[i] \in Experts, step[i] # "finished"
    PROVE  leader[route[i]] = "wait"
<1>1. i \in Assigned(route[i]) /\ i \notin Finished(route[i])
  BY DEF Assigned, Finished, InStep
<1>2. QED
  BY <1>1 DEF ProgressOrder

\* A step that touches neither the routing nor the state of the send part
\* keeps the send invariant.
LEMMA SendUnchanged ==
    SendInv /\ UNCHANGED <<mode, route, sendVars>> => SendInv'
<1> SUFFICES ASSUME SendInv, UNCHANGED <<mode, route, sendVars>> PROVE SendInv'
  OBVIOUS
<1> USE DEF sendVars
<1>1. \A e : Assigned(e)' = Assigned(e)
  BY DEF Assigned
<1>2. \A e : /\ Taken(e)' = Taken(e) /\ Written(e)' = Written(e)
             /\ Finished(e)' = Finished(e)
  BY <1>1 DEF Taken, Written, Finished, InStep
<1>3. \A e : FinishValue(e)' = FinishValue(e)
  BY <1>1, <1>2 DEF FinishValue
<1>4. CounterMeaning'
  BY <1>2, <1>3 DEF SendInv, CounterMeaning
<1>5. ProgressOrder'
  BY <1>1, <1>2 DEF SendInv, ProgressOrder
<1>6. SlotMeaning'
  BY <1>2 DEF SendInv, SlotMeaning
<1>7. QED
  BY <1>4, <1>5, <1>6 DEF SendInv

\* Outside the send part only the zeroed counters matter.
LEMMA NotSending ==
    ASSUME mode' # "send", UNCHANGED <<counter, finish>>,
           \A e \in Experts : counter[e] = 0 /\ finish[e] = 0
    PROVE  SendInv'
BY DEF SendInv, CounterMeaning, ProgressOrder, SlotMeaning

\* A launch starts with nothing taken, tagged or counted.
LEMMA LaunchKeeps ==
    ASSUME SendInv, NEW f \in Routings, NEW ph \in {"both", "send"},
           LaunchSend(f, ph)
    PROVE  SendInv'
<1>1. \A e \in Experts : counter[e] = 0 /\ finish[e] = 0
  BY DEF SendInv, CounterMeaning, LaunchSend
<1>2. \A e : Taken(e)' = {} /\ Written(e)' = {} /\ Finished(e)' = {}
  BY DEF LaunchSend, Taken, Written, Finished, InStep, Assigned
<1>3. Cardinality({}) = 0
  BY FS_EmptySet
<1>4. \A e \in Experts : FinishValue(e)' = 0
  <2>1. tagged' = {} /\ counted' = {}
    BY DEF LaunchSend
  <2>2. QED
    BY <1>2, <1>3, <2>1 DEF FinishValue
<1>5. CounterMeaning'
  BY <1>1, <1>2, <1>3, <1>4 DEF CounterMeaning, LaunchSend
<1>6. \A e \in Experts : leader'[e] = "wait"
  BY DEF LaunchSend
<1>7. ProgressOrder'
  BY <1>6 DEF ProgressOrder, LaunchSend
<1>8. SlotMeaning'
  <2>1. \A e \in Experts : outbox'[e] = {}
    BY DEF LaunchSend
  <2>2. 0 .. 0 - 1 = {}
    OBVIOUS
  <2>3. QED
    BY <1>2, <1>3, <2>1, <2>2 DEF SlotMeaning
<1>9. QED
  BY <1>5, <1>7, <1>8 DEF SendInv

\* Taking a slot: the new item gets the next free slot of its expert.
LEMMA TakeSlotKeeps ==
    ASSUME TypeOK, SendInv, NEW i \in Items, TakeSlot(i)
    PROVE  SendInv'
<1>0. PICK r \in Experts : r = route[i]
  BY DEF TypeOK, TakeSlot
<1>1. r = route[i] /\ leader[r] = "wait" /\ mode = "send" /\ mode' = "send"
      /\ route' = route /\ step[i] = "waiting"
  BY <1>0, LeaderWaits DEF SendInv, TakeSlot, ctrlVars
<1>2. step' = [step EXCEPT ![i] = "slotted"] /\ step'[i] = "slotted"
      /\ \A j \in Items : j # i => step'[j] = step[j]
  BY DEF TakeSlot, TypeOK
<1>3. \A e : Assigned(e)' = Assigned(e)
  BY <1>1, <1>2, ItemStep
<1>4. \A e : e # r => Taken(e)' = Taken(e)
  BY <1>1, <1>2, ItemStep
<1>5. i \in Assigned(r) /\ i \notin Taken(r) /\ Taken(r)' = Taken(r) \cup {i}
  BY <1>1, <1>2 DEF Assigned, Taken, InStep
<1>6. \A e : Written(e)' = Written(e) /\ Finished(e)' = Finished(e)
  BY <1>1, <1>2 DEF Assigned, Written, Finished, InStep
<1>7. IsFiniteSet(Taken(r)) /\ Cardinality(Taken(r)) \in Nat
  BY StepSets
<1>8. Cardinality(Taken(r)') = Cardinality(Taken(r)) + 1
  BY <1>5, <1>7, FS_AddElement
<1>9. \A e : FinishValue(e)' = FinishValue(e)
  BY <1>3, <1>6 DEF FinishValue, TakeSlot
<1>10. counter[r] = Cardinality(Taken(r))
  BY <1>1 DEF SendInv, CounterMeaning
<1>11. counter' = [counter EXCEPT ![r] = counter[r] + 1]
       /\ slot' = [slot EXCEPT ![i] = counter[r]]
       /\ UNCHANGED <<finish, cleaned, tagged, counted, synced, leader, outbox>>
  BY <1>1 DEF TakeSlot, NextSlot
<1>12. CounterMeaning'
  <2> SUFFICES ASSUME NEW e \in Experts
               PROVE  IF mode' = "send" /\ leader'[e] # "done"
                      THEN /\ counter'[e] = Cardinality(Taken(e)')
                           /\ finish'[e] = FinishValue(e)'
                      ELSE counter'[e] = 0 /\ finish'[e] = 0
    BY DEF CounterMeaning
  <2>1. CASE e = r
    BY <2>1, <1>1, <1>8, <1>9, <1>10, <1>11 DEF SendInv, CounterMeaning, TypeOK
  <2>2. CASE e # r
    BY <2>2, <1>1, <1>4, <1>9, <1>11 DEF SendInv, CounterMeaning, TypeOK
  <2>3. QED
    BY <2>1, <2>2
<1>13. ProgressOrder'
  BY <1>1, <1>3, <1>6, <1>11 DEF SendInv, ProgressOrder
<1>14. SlotMeaning'
  <2> DEFINE c == Cardinality(Taken(r))
  <2>1. slot'[i] = c /\ \A j \in Items : j # i => slot'[j] = slot[j]
    BY <1>10, <1>11 DEF TypeOK
  <2>2. \A e : Written(e) \subseteq Taken(e) /\ Taken(e) \subseteq Items
    BY DEF Written, Taken, InStep, Assigned
  <2>3. \A e : i \notin Written(e)
    BY <1>1 DEF Written, InStep
  <2>4. \A e \in Experts : outbox'[e] = {<<slot'[j], j[1]>> : j \in Written(e)'}
    BY <1>1, <1>6, <1>11, <2>1, <2>2, <2>3 DEF SendInv, SlotMeaning
  <2>5. ASSUME NEW e \in Experts, e # r
        PROVE /\ \A j \in Taken(e)' : slot'[j] \in 0 .. Cardinality(Taken(e)') - 1
              /\ \A j, k \in Taken(e)' : slot'[j] = slot'[k] => j = k
              /\ \A n \in 0 .. Cardinality(Taken(e)') - 1 :
                     \E j \in Taken(e)' : slot'[j] = n
    <3>1. i \notin Taken(e)
      BY <2>5, <1>1 DEF Taken, InStep, Assigned
    <3>2. \A j \in Taken(e) : slot'[j] = slot[j]
      BY <3>1, <2>1, <2>2
    <3>3. QED
      BY <3>2, <2>5, <1>1, <1>4 DEF SendInv, SlotMeaning
  <2>6. /\ \A j \in Taken(r) : slot[j] \in 0 .. c - 1
        /\ \A j, k \in Taken(r) : slot[j] = slot[k] => j = k
        /\ \A n \in 0 .. c - 1 : \E j \in Taken(r) : slot[j] = n
    BY <1>1 DEF SendInv, SlotMeaning
  <2>7. \A j \in Taken(r) : slot'[j] = slot[j]
    BY <1>5, <2>1, <2>2
  <2> HIDE DEF c
  <2>8. c \in Nat /\ Cardinality(Taken(r)') = c + 1
    BY <1>7, <1>8 DEF c
  <2>9. \A j \in Taken(r)' : slot'[j] \in 0 .. c
    BY <1>5, <2>1, <2>6, <2>7, <2>8
  <2>10. \A j, k \in Taken(r)' : slot'[j] = slot'[k] => j = k
    BY <1>5, <2>1, <2>6, <2>7, <2>8
  <2>11. \A n \in 0 .. c : \E j \in Taken(r)' : slot'[j] = n
    <3> TAKE n \in 0 .. c
    <3>1. CASE n = c
      BY <3>1, <1>5, <2>1
    <3>2. CASE n # c
      <4>1. n \in 0 .. c - 1
        BY <3>2, <2>8
      <4>2. PICK j \in Taken(r) : slot[j] = n
        BY <4>1, <2>6
      <4>3. QED
        BY <4>2, <1>5, <2>7
    <3>3. QED
      BY <3>1, <3>2
  <2>12. Cardinality(Taken(r)') - 1 = c
    BY <2>8
  <2>13. ASSUME NEW e \in Experts, e = r
         PROVE /\ \A j \in Taken(e)' : slot'[j] \in 0 .. Cardinality(Taken(e)') - 1
               /\ \A j, k \in Taken(e)' : slot'[j] = slot'[k] => j = k
               /\ \A n \in 0 .. Cardinality(Taken(e)') - 1 :
                      \E j \in Taken(e)' : slot'[j] = n
    BY <2>9, <2>10, <2>11, <2>12, <2>13, Zenon
  <2>14. QED
    BY <2>4, <2>5, <2>13, Zenon DEF SlotMeaning
<1>15. QED
  BY <1>12, <1>13, <1>14 DEF SendInv

\* Writing a row: the outbox gains the row of the item, in the item's slot.
LEMMA WriteRowKeeps ==
    ASSUME TypeOK, SendInv, NEW i \in Items, WriteRow(i)
    PROVE  SendInv'
<1>1. mode = "send" /\ mode' = "send" /\ route' = route /\ step[i] = "slotted"
  BY DEF WriteRow, ctrlVars
<1>2. step' = [step EXCEPT ![i] = "written"] /\ step'[i] = "written"
      /\ \A j \in Items : j # i => step'[j] = step[j]
  BY DEF WriteRow, TypeOK
<1>3. UNCHANGED <<slot, counter, finish, cleaned, tagged, counted, synced, leader>>
  BY DEF WriteRow
<1>4. \A e : Assigned(e)' = Assigned(e)
  BY <1>1, <1>2, ItemStep
<1>5. \A e : Taken(e)' = Taken(e) /\ Finished(e)' = Finished(e)
  BY <1>1, <1>2 DEF Assigned, Taken, Finished, InStep
<1>6. \A e : FinishValue(e)' = FinishValue(e)
  BY <1>3, <1>4, <1>5 DEF FinishValue
<1>7. CounterMeaning'
  BY <1>1, <1>3, <1>5, <1>6 DEF SendInv, CounterMeaning
<1>8. ProgressOrder'
  BY <1>1, <1>3, <1>4, <1>5 DEF SendInv, ProgressOrder
<1>9. ASSUME NEW e \in Experts
      PROVE outbox'[e] = {<<slot'[j], j[1]>> : j \in Written(e)'}
  <2>1. outbox[e] = {<<slot[j], j[1]>> : j \in Written(e)}
    BY <1>1 DEF SendInv, SlotMeaning
  <2>2. CASE e = route[i]
    <3>1. Written(e)' = Written(e) \cup {i}
      BY <2>2, <1>1, <1>2 DEF Assigned, Written, InStep
    <3>2. outbox'[e] = outbox[e] \cup {<<slot[i], i[1]>>}
      BY <2>2 DEF WriteRow, TypeOK
    <3>3. QED
      BY <2>1, <3>1, <3>2, <1>3
  <2>3. CASE e # route[i]
    <3>1. Written(e)' = Written(e)
      BY <2>3, <1>1, <1>2, ItemStep
    <3>2. outbox'[e] = outbox[e]
      BY <2>3 DEF WriteRow, TypeOK
    <3>3. QED
      BY <2>1, <3>1, <3>2, <1>3
  <2>4. QED
    BY <2>2, <2>3
<1>10. SlotMeaning'
  BY <1>1, <1>3, <1>5, <1>9 DEF SendInv, SlotMeaning
<1>11. QED
  BY <1>7, <1>8, <1>10 DEF SendInv

\* Finishing an item: the finish counter grows by one, as does the number of
\* finished items of its expert.
LEMMA FinishItemKeeps ==
    ASSUME TypeOK, SendInv, NEW i \in Items, FinishItem(i)
    PROVE  SendInv'
<1>1. mode = "send" /\ mode' = "send" /\ route' = route /\ step[i] = "written"
  BY DEF FinishItem, ctrlVars
<1>2. step' = [step EXCEPT ![i] = "finished"] /\ step'[i] = "finished"
      /\ \A j \in Items : j # i => step'[j] = step[j]
  BY DEF FinishItem, TypeOK
<1>3. UNCHANGED <<slot, counter, cleaned, tagged, counted, synced, leader, outbox>>
  BY DEF FinishItem
<1>4. \A e : Assigned(e)' = Assigned(e)
  BY <1>1, <1>2, ItemStep
<1>5. \A e : Taken(e)' = Taken(e) /\ Written(e)' = Written(e)
  BY <1>1, <1>2 DEF Assigned, Taken, Written, InStep
<1>6. \A e : e # route[i] => Finished(e)' = Finished(e)
  BY <1>1, <1>2, ItemStep
<1>7. ASSUME NEW e \in Experts, e = route[i]
      PROVE /\ leader[e] = "wait"
            /\ finish'[e] = finish[e] + 1
            /\ FinishValue(e)' = FinishValue(e) + 1
  <2>1. leader[e] = "wait"
    BY <1>1, <1>7, LeaderWaits DEF SendInv
  <2>2. finish'[e] = finish[e] + 1
    BY <1>7 DEF FinishItem, TypeOK
  <2>3. i \notin Finished(e) /\ Finished(e)' = Finished(e) \cup {i}
    BY <1>1, <1>2, <1>7 DEF Assigned, Finished, InStep
  <2>4. Cardinality(Finished(e)') = Cardinality(Finished(e)) + 1
    BY <2>3, StepSets, FS_AddElement
  <2>5. /\ Cardinality(Finished(e)) \in Nat /\ Cardinality(Assigned(e)) \in Nat
        /\ Tag \in Nat
    BY StepSets, SizeAssumption
  <2>6. FinishValue(e)' = FinishValue(e) + 1
    BY <1>3, <1>4, <2>4, <2>5 DEF FinishValue
  <2>7. QED
    BY <2>1, <2>2, <2>6
<1>8. ASSUME NEW e \in Experts, e # route[i]
      PROVE finish'[e] = finish[e] /\ FinishValue(e)' = FinishValue(e)
  <2>1. finish'[e] = finish[e]
    BY <1>8 DEF FinishItem, TypeOK
  <2>2. QED
    BY <1>3, <1>4, <1>6, <1>8, <2>1 DEF FinishValue
<1>9. CounterMeaning'
  BY <1>1, <1>3, <1>5, <1>7, <1>8 DEF SendInv, CounterMeaning
<1>10. ProgressOrder'
  <2> SUFFICES ASSUME NEW e \in Experts
               PROVE  /\ e \in tagged => cleaned
                      /\ ExpertSM(e) \in synced => e \in counted
                      /\ leader[e] # "wait" =>
                             /\ cleaned /\ e \in tagged /\ e \in counted
                             /\ Finished(e)' = Assigned(e)'
    BY <1>3 DEF ProgressOrder
  <2>1. CASE e = route[i]
    BY <2>1, <1>1, <1>7 DEF SendInv, ProgressOrder
  <2>2. CASE e # route[i]
    BY <2>2, <1>1, <1>4, <1>6 DEF SendInv, ProgressOrder
  <2>3. QED
    BY <2>1, <2>2
<1>11. SlotMeaning'
  BY <1>1, <1>3, <1>5 DEF SendInv, SlotMeaning
<1>12. QED
  BY <1>9, <1>10, <1>11 DEF SendInv

\* Steps of the last warps, of a barrier or of a leader leave the items, the
\* slots and the outbox alone.
LEMMA ItemsUntouched ==
    ASSUME SendInv, mode = "send", UNCHANGED <<mode, route, step, slot, outbox>>
    PROVE  /\ SlotMeaning'
           /\ \A e : /\ Assigned(e)' = Assigned(e) /\ Taken(e)' = Taken(e)
                     /\ Finished(e)' = Finished(e)
<1>1. \A e : Assigned(e)' = Assigned(e)
  BY DEF Assigned
<1>2. \A e : /\ Taken(e)' = Taken(e) /\ Written(e)' = Written(e)
             /\ Finished(e)' = Finished(e)
  BY <1>1 DEF Taken, Written, Finished, InStep
<1>3. SlotMeaning'
  BY <1>2 DEF SendInv, SlotMeaning
<1>4. QED
  BY <1>1, <1>2, <1>3

\* The last warps: each expert's finish counter gets the cleaner's Tag once and
\* its block's Tag - n once.
LEMMA LastWarpKeeps ==
    ASSUME TypeOK, SendInv, NEW e \in Experts, TagExpert(e) \/ CountExpert(e)
    PROVE  SendInv'
<1>1. mode = "send" /\ UNCHANGED <<mode, route, step, slot, outbox, counter,
                                   cleaned, synced, leader>>
  BY DEF TagExpert, CountExpert, ctrlVars
<1>2. /\ SlotMeaning'
      /\ \A x : /\ Assigned(x)' = Assigned(x) /\ Taken(x)' = Taken(x)
                /\ Finished(x)' = Finished(x)
  BY <1>1, ItemsUntouched
<1>3. leader[e] = "wait"
  BY <1>1 DEF TagExpert, CountExpert, SendInv, ProgressOrder, TypeOK
<1>4. /\ tagged \subseteq tagged' /\ counted \subseteq counted'
      /\ \A x \in Experts : x # e => /\ finish'[x] = finish[x]
                                     /\ x \in tagged' => x \in tagged
                                     /\ x \in counted' => x \in counted
  BY DEF TagExpert, CountExpert, TypeOK
<1>5. \A x \in Experts : x # e => FinishValue(x)' = FinishValue(x)
  BY <1>2, <1>4 DEF FinishValue
<1>6. finish'[e] = FinishValue(e)'
  <2> DEFINE a == Cardinality(Assigned(e))
             n == Cardinality(Finished(e))
  <2>1. a \in Nat /\ n \in Nat /\ Tag \in Nat
    BY StepSets, SizeAssumption
  <2>2. finish[e] = (IF e \in tagged THEN Tag ELSE 0)
                    + (IF e \in counted THEN Tag - a ELSE 0) + n
    BY <1>1, <1>3 DEF SendInv, CounterMeaning, FinishValue
  <2>3. FinishValue(e)' = (IF e \in tagged' THEN Tag ELSE 0)
                          + (IF e \in counted' THEN Tag - a ELSE 0) + n
    BY <1>2 DEF FinishValue
  <2>4. CASE TagExpert(e)
    <3>1. e \notin tagged /\ e \in tagged' /\ counted' = counted
          /\ finish'[e] = finish[e] + Tag
      BY <2>4 DEF TagExpert, TypeOK
    <3> HIDE DEF a, n
    <3>2. QED
      BY <2>1, <2>2, <2>3, <3>1
  <2>5. CASE CountExpert(e)
    <3>1. e \notin counted /\ e \in counted' /\ tagged' = tagged
          /\ finish'[e] = finish[e] + (Tag - a)
      BY <2>5 DEF CountExpert, CountTag, TypeOK
    <3> HIDE DEF a, n
    <3>2. QED
      BY <2>1, <2>2, <2>3, <3>1
  <2>6. QED
    BY <2>4, <2>5
<1>7. CounterMeaning'
  BY <1>1, <1>2, <1>3, <1>4, <1>5, <1>6 DEF SendInv, CounterMeaning
<1>8. ProgressOrder'
  <2>1. e \in tagged' => cleaned
    BY <1>1 DEF TagExpert, CountExpert, SendInv, ProgressOrder
  <2>2. QED
    BY <1>1, <1>2, <1>3, <1>4, <2>1 DEF SendInv, ProgressOrder
<1>9. QED
  BY <1>2, <1>7, <1>8 DEF SendInv

\* Cleaning and the block barrier change no counter.
LEMMA BarrierKeeps ==
    ASSUME TypeOK, SendInv, CleanNext \/ \E s \in SMs : SyncThreads(s)
    PROVE  SendInv'
<1>1. mode = "send" /\ UNCHANGED <<mode, route, step, slot, outbox, counter,
                                   finish, tagged, counted, leader>>
  BY DEF CleanNext, SyncThreads, ctrlVars
<1>2. /\ SlotMeaning'
      /\ \A x : /\ Assigned(x)' = Assigned(x) /\ Taken(x)' = Taken(x)
                /\ Finished(x)' = Finished(x)
  BY <1>1, ItemsUntouched
<1>3. \A x : FinishValue(x)' = FinishValue(x)
  BY <1>1, <1>2 DEF FinishValue
<1>4. CounterMeaning'
  BY <1>1, <1>2, <1>3 DEF SendInv, CounterMeaning
<1>5. cleaned => cleaned'
  BY DEF CleanNext, SyncThreads
<1>6. \A x \in Experts : ExpertSM(x) \in synced' => x \in counted
  BY <1>1 DEF CleanNext, SyncThreads, SendInv, ProgressOrder
<1>7. ProgressOrder'
  BY <1>1, <1>2, <1>5, <1>6 DEF SendInv, ProgressOrder
<1>8. QED
  BY <1>2, <1>4, <1>7 DEF SendInv

\* A leader that publishes knows that its expert is tagged, counted, finished.
LEMMA SendSignalKeeps ==
    ASSUME TypeOK, SendInv, NEW e \in Experts, SendSignal(e)
    PROVE  SendInv'
<1>1. mode = "send" /\ leader[e] = "wait" /\ ExpertSM(e) \in synced
      /\ finish[e] = 2 * Tag
      /\ UNCHANGED <<mode, route, step, slot, outbox, counter, finish, cleaned,
                     tagged, counted, synced>>
  BY DEF SendSignal, ReadyToSignal, ctrlVars
<1>2. leader'[e] = "sent" /\ \A x \in Experts : x # e => leader'[x] = leader[x]
  BY DEF SendSignal, TypeOK
<1>3. /\ SlotMeaning'
      /\ \A x : /\ Assigned(x)' = Assigned(x) /\ Taken(x)' = Taken(x)
                /\ Finished(x)' = Finished(x)
  BY <1>1, ItemsUntouched
<1>4. \A x : FinishValue(x)' = FinishValue(x)
  BY <1>1, <1>3 DEF FinishValue
<1>5. CounterMeaning'
  BY <1>1, <1>2, <1>3, <1>4 DEF SendInv, CounterMeaning
<1>6. e \in counted /\ FinishValue(e) = 2 * Tag
  BY <1>1 DEF SendInv, CounterMeaning, ProgressOrder
<1>7. e \in tagged /\ Finished(e) = Assigned(e)
  BY <1>6, TwoTags
<1>8. ProgressOrder'
  BY <1>1, <1>2, <1>3, <1>6, <1>7 DEF SendInv, ProgressOrder
<1>9. QED
  BY <1>3, <1>5, <1>8 DEF SendInv

\* The leader's reset leaves both counters of its expert at zero, for good.
LEMMA ResetKeeps ==
    ASSUME TypeOK, SendInv, NEW e \in Experts, ResetCounters(e)
    PROVE  SendInv'
<1>1. mode = "send" /\ leader[e] = "sent"
      /\ UNCHANGED <<mode, route, step, slot, outbox, cleaned, tagged, counted,
                     synced>>
  BY DEF ResetCounters, ctrlVars
<1>2. /\ leader'[e] = "done" /\ counter'[e] = 0 /\ finish'[e] = 0
      /\ \A x \in Experts : x # e => /\ leader'[x] = leader[x]
                                     /\ counter'[x] = counter[x]
                                     /\ finish'[x] = finish[x]
  BY DEF ResetCounters, Cleared, TypeOK
<1>3. /\ SlotMeaning'
      /\ \A x : /\ Assigned(x)' = Assigned(x) /\ Taken(x)' = Taken(x)
                /\ Finished(x)' = Finished(x)
  BY <1>1, ItemsUntouched
<1>4. \A x : FinishValue(x)' = FinishValue(x)
  BY <1>1, <1>3 DEF FinishValue
<1>5. CounterMeaning'
  BY <1>1, <1>2, <1>3, <1>4 DEF SendInv, CounterMeaning
<1>6. ProgressOrder'
  BY <1>1, <1>2, <1>3 DEF SendInv, ProgressOrder
<1>7. QED
  BY <1>3, <1>5, <1>6 DEF SendInv

\* Every step of the kernel keeps the send invariant.
LEMMA SendStep == TypeOK /\ SendInv /\ [Next]_vars => SendInv'
<1> SUFFICES ASSUME TypeOK, SendInv, [Next]_vars PROVE SendInv'
  OBVIOUS
<1> USE DEF sendVars, recvVars, ctrlVars
<1>1. ASSUME NEW f \in Routings, NEW ph \in {"both", "send"}, LaunchSend(f, ph)
      PROVE SendInv'
  BY <1>1, LaunchKeeps
<1>2. CASE LaunchRecv \/ ReturnRecv
  <2>1. mode # "send" /\ mode' # "send" /\ UNCHANGED <<counter, finish>>
    BY <1>2 DEF LaunchRecv, ReturnRecv
  <2>2. QED
    BY <2>1, NotSending DEF SendInv, CounterMeaning
<1>3. ASSUME NEW i \in Items, TakeSlot(i) \/ WriteRow(i) \/ FinishItem(i)
      PROVE SendInv'
  BY <1>3, TakeSlotKeeps, WriteRowKeeps, FinishItemKeeps
<1>4. CASE CleanNext \/ \E s \in SMs : SyncThreads(s)
  BY <1>4, BarrierKeeps
<1>5. ASSUME NEW e \in Experts, TagExpert(e) \/ CountExpert(e) PROVE SendInv'
  BY <1>5, LastWarpKeeps
<1>6. ASSUME NEW e \in Experts, SendSignal(e) \/ ResetCounters(e) PROVE SendInv'
  BY <1>6, SendSignalKeeps, ResetKeeps
<1>7. CASE GridSync \/ ReturnSend
  <2>1. mode' # "send" /\ SendDone /\ UNCHANGED <<counter, finish>>
    BY <1>7 DEF GridSync, ReturnSend
  <2>2. QED
    BY <2>1, NotSending DEF SendInv, CounterMeaning, SendDone
<1>8. ASSUME NEW g \in Experts, ReceiveSignal(g) \/ GiveUp(g) \/ CopyRows(g)
      PROVE SendInv'
  <2>1. UNCHANGED <<mode, route, sendVars>>
    BY <1>8 DEF ReceiveSignal, GiveUp, CopyRows, Claim
  <2>2. QED
    BY <2>1, SendUnchanged
<1>9. ASSUME NEW l \in Locals, NEW s \in Ranks, NEW n \in PeerCounts,
             PeerSignal(l, s, n)
      PROVE SendInv'
  <2>1. UNCHANGED <<mode, route, sendVars>>
    BY <1>9 DEF PeerSignal
  <2>2. QED
    BY <2>1, SendUnchanged
<1>10. CASE UNCHANGED vars
  BY <1>10, SendUnchanged DEF vars
<1>11. QED
  BY <1>1, <1>2, <1>3, <1>4, <1>5, <1>6, <1>7, <1>8, <1>9, <1>10 DEF Next

\* In every sequence of launches the counters mean what SendInv says.
THEOREM SendCorrect == Spec => []SendInv
<1>1. Init => SendInv
  BY DEF Init, SendInv, CounterMeaning, ProgressOrder, SlotMeaning
<1>2. QED
  BY <1>1, TypeCorrect, SendStep, PTL DEF Spec

\* Between launches the workspace is zero again, whatever the routing was.
THEOREM WorkspaceCorrect == Spec => []WorkspaceRestored
<1>1. SendInv => WorkspaceRestored
  BY DEF SendInv, CounterMeaning, WorkspaceRestored
<1>2. QED
  BY <1>1, SendCorrect, PTL

\* A published signal covers exactly the rows routed to its expert, each in a
\* slot of its own, and follows the cleaning of the next buffer.
THEOREM SignalCorrect == Spec => []SignalCoversRows
<1>1. SendInv => SignalCoversRows
  <2> SUFFICES ASSUME SendInv, NEW e \in Experts,
                      mode = "send", leader[e] # "wait"
               PROVE  /\ cleaned
                      /\ {r[2] : r \in outbox[e]} = {i[1] : i \in Assigned(e)}
                      /\ {r[1] : r \in outbox[e]} =
                             0 .. Cardinality(Assigned(e)) - 1
                      /\ \A r, q \in outbox[e] : r[1] = q[1] => r = q
    BY DEF SignalCoversRows
  <2>1. cleaned /\ Finished(e) = Assigned(e)
    BY DEF SendInv, ProgressOrder
  <2>2. Written(e) = Assigned(e) /\ Taken(e) = Assigned(e)
    BY <2>1 DEF Written, Taken, Finished, InStep
  <2>3. outbox[e] = {<<slot[i], i[1]>> : i \in Assigned(e)}
    BY <2>2 DEF SendInv, SlotMeaning
  <2>4. /\ \A i \in Assigned(e) : slot[i] \in 0 .. Cardinality(Assigned(e)) - 1
        /\ \A i, j \in Assigned(e) : slot[i] = slot[j] => i = j
        /\ \A n \in 0 .. Cardinality(Assigned(e)) - 1 :
               \E i \in Assigned(e) : slot[i] = n
    BY <2>2 DEF SendInv, SlotMeaning
  <2>5. /\ \A i \in Assigned(e) : <<slot[i], i[1]>> \in outbox[e]
        /\ \A r \in outbox[e] :
               \E i \in Assigned(e) : r = <<slot[i], i[1]>>
                                      /\ r[1] = slot[i] /\ r[2] = i[1]
    BY <2>3
  <2>6. {r[2] : r \in outbox[e]} = {i[1] : i \in Assigned(e)}
    <3>1. ASSUME NEW i \in Assigned(e)
          PROVE  \E r \in outbox[e] : i[1] = r[2]
      <4>1. <<slot[i], i[1]>>[2] = i[1]
        OBVIOUS
      <4>2. QED
        BY <2>5, <4>1
    <3>2. QED
      BY <2>5, <3>1
  <2>7. {r[1] : r \in outbox[e]} = 0 .. Cardinality(Assigned(e)) - 1
    <3>1. ASSUME NEW n \in 0 .. Cardinality(Assigned(e)) - 1
          PROVE  \E r \in outbox[e] : n = r[1]
      <4>1. PICK i \in Assigned(e) : slot[i] = n
        BY <2>4
      <4>2. <<slot[i], i[1]>>[1] = n
        BY <4>1
      <4>3. QED
        BY <2>5, <4>2
    <3>2. \A r \in outbox[e] : r[1] \in 0 .. Cardinality(Assigned(e)) - 1
      BY <2>4, <2>5
    <3>3. QED
      BY <3>1, <3>2
  <2>8. \A r, q \in outbox[e] : r[1] = q[1] => r = q
    BY <2>4, <2>5
  <2>9. QED
    BY <2>1, <2>6, <2>7, <2>8
<1>2. QED
  BY <1>1, SendCorrect, PTL

-----------------------------------------------------------------------------
(* The region of a source rank at the destination.                         *)

\* The tokens routed to one expert are distinct, so there are at most
\* MaxTokens of them.
LEMMA AssignedBound ==
    ASSUME IsRouting(route), NEW e \in Experts
    PROVE  Cardinality(Assigned(e)) <= MaxTokens
<1> DEFINE T == 0 .. MaxTokens - 1
           f == [i \in Assigned(e) |-> i[1]]
<1>1. MaxTokens \in Nat
  BY SizeAssumption
<1>2. IsFiniteSet(T) /\ Cardinality(T) = MaxTokens
  <2>1. IsFiniteSet(T) /\ Cardinality(T) =
            IF 0 > MaxTokens - 1 THEN 0 ELSE (MaxTokens - 1) - 0 + 1
    BY <1>1, FS_Interval
  <2>2. QED
    BY <1>1, <2>1
<1>3. f \in [Assigned(e) -> T]
  BY DEF Assigned, Items
<1>4. \A i, j \in Assigned(e) : f[i] = f[j] => i = j
  <2>1. e # Unrouted
    BY DEF Experts, Unrouted
  <2>2. QED
    BY <2>1 DEF IsRouting, Assigned
<1>5. IsFiniteSet(Assigned(e)) /\ Cardinality(Assigned(e)) \in Nat
  BY StepSets
<1> HIDE DEF T, f
<1>6. ~(MaxTokens < Cardinality(Assigned(e)))
  BY <1>2, <1>3, <1>4, <1>5, FS_PigeonHole
<1>7. QED
  BY <1>1, <1>5, <1>6

\* No row is ever written outside its source's region at the destination.
THEOREM RegionCorrect == Spec => []RowsInRegion
<1> DEFINE Inv == IsRouting(route) /\ RowsInRegion
<1>1. Init => Inv
  BY DEF Init, IsRouting, RowsInRegion
<1>2. TypeOK /\ SendInv /\ Inv /\ [Next]_vars => Inv'
  <2> SUFFICES ASSUME TypeOK, SendInv, IsRouting(route), RowsInRegion, [Next]_vars
               PROVE  IsRouting(route') /\ RowsInRegion'
    BY DEF RowsInRegion, IsRouting
  <2>1. ASSUME NEW f \in Routings, NEW ph \in {"both", "send"}, LaunchSend(f, ph)
        PROVE  IsRouting(route') /\ RowsInRegion'
    <3>1. route' = f /\ outbox' = [e \in Experts |-> {}]
      BY <2>1 DEF LaunchSend
    <3>2. QED
      BY <3>1, InputAssumption DEF RowsInRegion
  <2>2. ASSUME NEW i \in Items, WriteRow(i)
        PROVE  IsRouting(route') /\ RowsInRegion'
    <3>1. route' = route /\ mode = "send" /\ step[i] = "slotted"
      BY <2>2 DEF WriteRow, ctrlVars
    <3>2. ASSUME NEW e \in Experts, NEW r \in outbox'[e]
          PROVE  r[1] < MaxTokens
      <4>1. CASE r \in outbox[e]
        BY <4>1 DEF RowsInRegion
      <4>2. CASE r \notin outbox[e]
        <5>1. e = route[i] /\ r[1] = slot[i]
          BY <2>2, <3>2, <4>2 DEF WriteRow, TypeOK
        <5>2. i \in Taken(e)
          BY <3>1, <5>1 DEF Taken, InStep, Assigned
        <5>3. slot[i] \in 0 .. Cardinality(Taken(e)) - 1
          BY <3>1, <5>2 DEF SendInv, SlotMeaning
        <5>4. Taken(e) \in SUBSET Assigned(e)
          BY DEF Taken, InStep
        <5>5. Cardinality(Taken(e)) <= Cardinality(Assigned(e))
          BY <5>4, StepSets, FS_Subset
        <5>6. QED
          BY <5>1, <5>3, <5>5, AssignedBound, StepSets, SizeAssumption
      <4>3. QED
        BY <4>1, <4>2
    <3>3. QED
      BY <3>1, <3>2 DEF RowsInRegion
  <2>3. CASE UNCHANGED <<route, outbox>>
    BY <2>3 DEF RowsInRegion
  <2>4. QED
    BY <2>1, <2>2, <2>3
       DEF Next, vars, sendVars, recvVars, ctrlVars, LaunchRecv, TakeSlot,
           FinishItem, CleanNext, TagExpert, CountExpert, SyncThreads,
           SendSignal, ResetCounters, GridSync, ReturnSend, ReceiveSignal,
           GiveUp, Claim, CopyRows, ReturnRecv, PeerSignal
<1>3. QED
  BY <1>1, <1>2, TypeCorrect, SendCorrect, PTL DEF Spec

-----------------------------------------------------------------------------
(* A rank keeps itself active.                                             *)

\* The signal of any number of rows is not the zero that means "no signal".
LEMMA SignalNonzero == \A n \in Nat : SignalOf(n) # 0
BY DEF SignalOf

\* Own signal words, once set, stay set until the next launch.
LEMMA OwnSignalsStep ==
    TypeOK /\ OwnSignals /\ [Next]_vars => OwnSignals'
<1> SUFFICES ASSUME TypeOK, OwnSignals, [Next]_vars PROVE OwnSignals'
  OBVIOUS
<1> USE DEF sendVars, recvVars, ctrlVars
<1>1. \A e \in Experts : DstRank(e) = Rank => OwnWord(e) \in Experts
  BY GroupIndex, WordIndex, SizeAssumption DEF OwnWord
<1>2. ASSUME NEW f \in Routings, NEW ph \in {"both", "send"}, LaunchSend(f, ph)
      PROVE OwnSignals'
  BY <1>2 DEF LaunchSend, OwnSignals, Published
<1>3. CASE LaunchRecv \/ ReturnRecv
  BY <1>3 DEF LaunchRecv, ReturnRecv, OwnSignals, Published
<1>4. CASE GridSync \/ ReturnSend
  <2>1. \A e \in Experts : Published(e)
    BY <1>4 DEF GridSync, ReturnSend, SendDone, Published
  <2>2. QED
    BY <1>4, <2>1 DEF GridSync, ReturnSend, OwnSignals
<1>5. ASSUME NEW e \in Experts, SendSignal(e) PROVE OwnSignals'
  <2>1. SignalOf(Cardinality(Assigned(e))) # 0
    BY StepSets, SignalNonzero
  <2>2. \A x \in Experts : x # e => leader'[x] = leader[x]
    BY <1>5 DEF SendSignal, TypeOK
  <2>3. mode = "send" /\ mode' = "send"
    BY <1>5 DEF SendSignal
  <2>4. \A w \in Experts : signal[w] # 0 => signal'[w] # 0
    BY <1>5, <2>1 DEF SendSignal, TypeOK
  <2>5. DstRank(e) = Rank => signal'[OwnWord(e)] # 0
    BY <1>1, <1>5, <2>1 DEF SendSignal, OwnWord, TypeOK
  <2>6. QED
    BY <1>1, <2>2, <2>3, <2>4, <2>5 DEF OwnSignals, Published
<1>6. ASSUME NEW e \in Experts, ResetCounters(e) PROVE OwnSignals'
  <2>1. \A x \in Experts : leader'[x] # "wait" => leader[x] # "wait"
    BY <1>6 DEF ResetCounters, TypeOK
  <2>2. QED
    BY <1>6, <2>1 DEF ResetCounters, OwnSignals, Published
<1>7. ASSUME NEW l \in Locals, NEW s \in Ranks, NEW n \in PeerCounts,
             PeerSignal(l, s, n)
      PROVE OwnSignals'
  <2>1. SignalOf(n) # 0
    BY InputAssumption, SizeAssumption, SignalNonzero
  <2>2. \A w \in Experts : signal[w] # 0 => signal'[w] # 0
    BY <1>7, <2>1 DEF PeerSignal, TypeOK
  <2>3. UNCHANGED <<mode, leader, recvPending>>
    BY <1>7 DEF PeerSignal
  <2>4. QED
    BY <1>1, <2>2, <2>3 DEF OwnSignals, Published
<1>8. CASE UNCHANGED <<mode, leader, recvPending, signal>>
  BY <1>8 DEF OwnSignals, Published
<1>9. QED
  BY <1>2, <1>3, <1>4, <1>5, <1>6, <1>7, <1>8
     DEF Next, vars, TakeSlot, WriteRow, FinishItem, CleanNext, TagExpert,
         CountExpert, SyncThreads, ReceiveSignal, GiveUp, Claim, CopyRows

\* Whatever the timeout, a rank never marks itself inactive.
THEOREM SelfActiveCorrect == Spec => []SelfStaysActive
<1> DEFINE Inv == OwnSignals /\ SelfStaysActive
<1>1. Init => Inv
  BY SizeAssumption DEF Init, OwnSignals, Published, SelfStaysActive
<1>2. TypeOK /\ Inv /\ [Next]_vars => Inv'
  <2> SUFFICES ASSUME TypeOK, OwnSignals, active[Rank], [Next]_vars
               PROVE  active'[Rank]
    BY OwnSignalsStep DEF SelfStaysActive
  <2>1. ASSUME NEW g \in Experts, GiveUp(g) PROVE active'[Rank]
    <3>1. DstRank(g) # Rank
      BY <2>1 DEF GiveUp, OwnSignals, Published, OwnWord, WordOf
    <3>2. active'[Rank] = active[Rank]
      BY <2>1, <3>1, SizeAssumption DEF GiveUp, TypeOK
    <3>3. QED
      BY <3>2
  <2>2. CASE UNCHANGED active
    BY <2>2
  <2>3. QED
    BY <2>1, <2>2
       DEF Next, vars, sendVars, recvVars, ctrlVars, LaunchSend, LaunchRecv,
           TakeSlot, WriteRow, FinishItem, CleanNext, TagExpert, CountExpert,
           SyncThreads, SendSignal, ResetCounters, GridSync, ReturnSend,
           ReceiveSignal, CopyRows, ReturnRecv, PeerSignal
<1>3. QED
  BY <1>1, <1>2, TypeCorrect, PTL DEF Spec

-----------------------------------------------------------------------------
(* The output of the receive part.                                         *)

\* Source s has claimed its range of the output of local expert l, which holds x.
Claimed(l, s)    == recv[s * LocalExperts + l] # "wait"
InRange(l, s, x) == LET r == range[<<l, s>>] IN r[2] <= x /\ x < r[2] + r[1]

\* The ranges claimed for one local expert fill 0 .. packed[l] - 1, no two overlap, and
\* a row of the output is a row of the range of its source.
Filled(l) ==
    /\ packed[l] \in Nat
    /\ \A s \in Ranks : Claimed(l, s) =>
          LET r == range[<<l, s>>]
          IN r[1] \in Nat /\ r[2] \in Nat /\ r[2] + r[1] <= packed[l]
    /\ \A x \in 0 .. packed[l] - 1 : \E s \in Ranks : Claimed(l, s) /\ InRange(l, s, x)
    /\ \A s, t \in Ranks, x \in Int :
          /\ Claimed(l, s) /\ InRange(l, s, x)
          /\ Claimed(l, t) /\ InRange(l, t, x)
          => s = t
    /\ \A r \in rows[l] :
          /\ Claimed(l, r[2]) /\ r[3] \in 0 .. range[<<l, r[2]>>][1] - 1
          /\ r[1] = range[<<l, r[2]>>][2] + r[3]

\* While a launch sends, nothing has been claimed, and packed_recv_count is zero where
\* the leader of the local expert's group of rank 0 has reset it.
ReceiveInv ==
    /\ \A w \in Experts : signal[w] <= 0
    /\ rows \in [Locals -> SUBSET (Int \X Ranks \X Int)]
    /\ IF mode = "send"
       THEN /\ \A g \in Experts : recv[g] = "wait"
            /\ \A l \in Locals : rows[l] = {}
            /\ \A e \in Experts :
                  leader[e] = "done" /\ DstRank(e) = 0 => packed[LocalIdx(e)] = 0
       ELSE \A l \in Locals : Filled(l)

\* The group of a source and a local expert, and back.
LEMMA GroupOf ==
    ASSUME NEW l \in Locals, NEW s \in Ranks
    PROVE  /\ s * LocalExperts + l \in Experts
           /\ DstRank(s * LocalExperts + l) = s
           /\ LocalIdx(s * LocalExperts + l) = l
<1>1. /\ LocalExperts \in Nat \ {0} /\ NumRanks \in Nat \ {0}
      /\ s \in Nat /\ s \in 0 .. NumRanks - 1 /\ l \in 0 .. LocalExperts - 1
  BY SizeAssumption DEF Locals, Ranks
<1>2. s * LocalExperts + l \in 0 .. NumRanks * LocalExperts - 1
  BY <1>1, RadixBound
<1>3. /\ (s * LocalExperts + l) \div LocalExperts = s
      /\ (s * LocalExperts + l) % LocalExperts = l
  BY <1>1, RadixDivision
<1> QED
  BY <1>2, <1>3 DEF Experts, NumExperts, DstRank, LocalIdx

LEMMA GroupIs ==
    ASSUME NEW g \in Experts, NEW l \in Locals, NEW s \in Ranks
    PROVE  g = s * LocalExperts + l <=> DstRank(g) = s /\ LocalIdx(g) = l
<1>1. /\ LocalExperts \in Nat \ {0} /\ g \in Int
  BY SizeAssumption DEF Experts
<1>2. g = (g \div LocalExperts) * LocalExperts + (g % LocalExperts)
  BY <1>1
<1> QED
  BY <1>2, GroupOf DEF DstRank, LocalIdx

LEMMA FilledKept ==
    ASSUME UNCHANGED <<recv, packed, range, rows>>, NEW l \in Locals, Filled(l)
    PROVE  Filled(l)'
<1>1. \A s : (Claimed(l, s)' <=> Claimed(l, s))
             /\ \A x : InRange(l, s, x)' <=> InRange(l, s, x)
  BY DEF Claimed, InRange
<1> QED
  BY <1>1 DEF Filled

\* Nothing claimed, nothing counted and no rows: the output is filled.
LEMMA FilledEmpty ==
    ASSUME NEW l \in Locals, packed[l] = 0, rows[l] = {},
           \A s \in Ranks : ~Claimed(l, s)
    PROVE  Filled(l)
  BY DEF Filled

\* A claim appends its range to the ones before it.
LEMMA ClaimFills ==
    ASSUME TypeOK, rows \in [Locals -> SUBSET (Int \X Ranks \X Int)],
           NEW g \in Experts, NEW n \in Nat, Claim(g, n), recv[g] = "wait",
           NEW l \in Locals, Filled(l)
    PROVE  Filled(l)'
<1>1. /\ packed' = [packed EXCEPT ![LocalIdx(g)] = @ + n]
      /\ range' = [range EXCEPT ![<<LocalIdx(g), DstRank(g)>>] =
                                    <<n, packed[LocalIdx(g)]>>]
      /\ recv' = [recv EXCEPT ![g] = "copy"] /\ rows' = rows
  BY DEF Claim
<1>2. PICK k \in Locals, d \in Ranks : k = LocalIdx(g) /\ d = DstRank(g)
  BY GroupIndex
<1>3. /\ packed \in [Locals -> Int] /\ range \in [Locals \X Ranks -> Int \X Int]
      /\ recv \in [Experts -> {"wait", "copy", "done"}]
  BY DEF TypeOK
<1>4. \A s \in Ranks : /\ s * LocalExperts + l \in Experts
                       /\ g = s * LocalExperts + l <=> d = s /\ k = l
  BY <1>2, GroupOf, GroupIs
<1>5. CASE k # l
  <2>1. packed'[l] = packed[l] /\ rows'[l] = rows[l]
    BY <1>1, <1>2, <1>3, <1>5
  <2>2. \A s \in Ranks : /\ Claimed(l, s)' <=> Claimed(l, s)
                         /\ range'[<<l, s>>] = range[<<l, s>>]
    BY <1>1, <1>2, <1>3, <1>4, <1>5 DEF Claimed
  <2>3. \A r \in rows[l] : r[2] \in Ranks
    OBVIOUS
  <2> QED
    BY <2>1, <2>2, <2>3 DEF Filled, InRange
<1>6. CASE k = l
  <2>1. PICK p \in Nat : p = packed[l]
    BY DEF Filled
  <2>2. packed'[l] = p + n /\ rows'[l] = rows[l]
    BY <1>1, <1>2, <1>3, <1>6, <2>1
  <2>3. /\ Claimed(l, d)' /\ ~Claimed(l, d)
        /\ \A s \in Ranks : s # d => (Claimed(l, s)' <=> Claimed(l, s))
    BY <1>1, <1>3, <1>4, <1>6 DEF Claimed
  <2>4. /\ range'[<<l, d>>] = <<n, p>>
        /\ \A s \in Ranks : s # d => range'[<<l, s>>] = range[<<l, s>>]
    BY <1>1, <1>2, <1>3, <1>6, <2>1
  <2>5. <<n, p>>[1] = n /\ <<n, p>>[2] = p
    OBVIOUS
  <2>6. ASSUME NEW s \in Ranks, Claimed(l, s)'
        PROVE  LET r == range'[<<l, s>>]
               IN r[1] \in Nat /\ r[2] \in Nat /\ r[2] + r[1] <= p + n
    <3>1. CASE s = d
      BY <2>4, <2>5, <3>1
    <3>2. CASE s # d
      <4>1. LET r == range[<<l, s>>]
            IN r[1] \in Nat /\ r[2] \in Nat /\ r[2] + r[1] <= p
        BY <2>1, <2>3, <2>6, <3>2 DEF Filled
      <4> QED
        BY <2>4, <3>2, <4>1
    <3> QED
      BY <3>1, <3>2
  <2>7. ASSUME NEW x \in 0 .. p + n - 1
        PROVE  \E s \in Ranks : Claimed(l, s)' /\ InRange(l, s, x)'
    <3>1. CASE x < p
      <4>1. PICK s \in Ranks : Claimed(l, s) /\ InRange(l, s, x)
        BY <2>1, <3>1 DEF Filled
      <4>2. s # d
        BY <2>3, <4>1
      <4> QED
        BY <2>3, <2>4, <4>1, <4>2 DEF InRange
    <3>2. CASE x >= p
      <4>1. InRange(l, d, x)'
        BY <2>4, <2>5, <3>2 DEF InRange
      <4> QED
        BY <2>3, <4>1
    <3> QED
      BY <2>1, <3>1, <3>2
  <2>8. ASSUME NEW s \in Ranks, s # d, NEW x \in Int, Claimed(l, s)', InRange(l, s, x)'
        PROVE  Claimed(l, s) /\ InRange(l, s, x) /\ ~InRange(l, d, x)'
    <3>1. Claimed(l, s) /\ InRange(l, s, x)
      BY <2>3, <2>4, <2>8 DEF InRange
    <3>2. x < p
      <4>1. LET r == range[<<l, s>>]
            IN r[1] \in Nat /\ r[2] \in Nat /\ r[2] + r[1] <= p
        BY <2>1, <3>1 DEF Filled
      <4> QED
        BY <2>1, <3>1, <4>1 DEF InRange
    <3> QED
      BY <2>4, <2>5, <3>1, <3>2 DEF InRange
  <2>9. ASSUME NEW s \in Ranks, NEW t \in Ranks, NEW x \in Int,
               Claimed(l, s)' /\ InRange(l, s, x)', Claimed(l, t)' /\ InRange(l, t, x)'
        PROVE  s = t
    BY <2>8, <2>9 DEF Filled
  <2>10. ASSUME NEW r \in rows'[l]
         PROVE  /\ Claimed(l, r[2])' /\ r[3] \in 0 .. range'[<<l, r[2]>>][1] - 1
                /\ r[1] = range'[<<l, r[2]>>][2] + r[3]
    <3>1. r \in rows[l] /\ r[2] \in Ranks
      BY <2>2
    <3>2. /\ Claimed(l, r[2]) /\ r[3] \in 0 .. range[<<l, r[2]>>][1] - 1
          /\ r[1] = range[<<l, r[2]>>][2] + r[3]
      BY <3>1 DEF Filled
    <3> QED
      BY <2>3, <2>4, <3>1, <3>2
  <2> QED
    BY <2>1, <2>2, <2>6, <2>7, <2>9, <2>10 DEF Filled
<1> QED
  BY <1>5, <1>6

\* Copied rows are rows of the range of their source.
LEMMA CopyFills ==
    ASSUME TypeOK, rows \in [Locals -> SUBSET (Int \X Ranks \X Int)],
           NEW g \in Experts, CopyRows(g), \A l \in Locals : Filled(l)
    PROVE  /\ rows' \in [Locals -> SUBSET (Int \X Ranks \X Int)]
           /\ \A l \in Locals : Filled(l)'
<1>1. PICK k \in Locals, d \in Ranks : k = LocalIdx(g) /\ d = DstRank(g)
  BY GroupIndex
<1>2. PICK r : r = range[<<k, d>>]
  OBVIOUS
<1> DEFINE New == {<<OutputRow(r, i), d, i>> : i \in 0 .. r[1] - 1}
<1>3. /\ recv[g] = "copy" /\ recv' = [recv EXCEPT ![g] = "done"]
      /\ packed' = packed /\ range' = range
      /\ rows' = [rows EXCEPT ![k] = @ \cup New]
  BY <1>1, <1>2 DEF CopyRows
<1>4. /\ recv \in [Experts -> {"wait", "copy", "done"}]
      /\ range \in [Locals \X Ranks -> Int \X Int]
  BY DEF TypeOK
<1>5. \A l \in Locals, s \in Ranks :
          /\ s * LocalExperts + l \in Experts
          /\ g = s * LocalExperts + l <=> d = s /\ k = l
  BY <1>1, GroupOf, GroupIs
<1>6. \A l \in Locals, s \in Ranks : Claimed(l, s)' <=> Claimed(l, s)
  BY <1>3, <1>4, <1>5 DEF Claimed
<1>7. Claimed(k, d)
  BY <1>1, <1>3, <1>5 DEF Claimed
<1>8. r[1] \in Nat /\ r[2] \in Nat
  BY <1>2, <1>7 DEF Filled
<1>9. ASSUME NEW q \in New
      PROVE  /\ q \in Int \X Ranks \X Int
             /\ q[2] = d /\ q[3] \in 0 .. r[1] - 1 /\ q[1] = r[2] + q[3]
  <2>1. PICK i \in 0 .. r[1] - 1 : q = <<r[2] + i, d, i>>
    BY DEF OutputRow
  <2> QED
    BY <1>8, <2>1
<1> HIDE DEF New
<1>10. rows' \in [Locals -> SUBSET (Int \X Ranks \X Int)]
  <2>1. New \subseteq Int \X Ranks \X Int
    BY <1>9
  <2>2. rows[k] \cup New \in SUBSET (Int \X Ranks \X Int)
    BY <2>1
  <2> QED
    BY <1>3, <2>2
<1>11. ASSUME NEW l \in Locals PROVE Filled(l)'
  <2>1. \A s \in Ranks : \A x : InRange(l, s, x)' <=> InRange(l, s, x)
    BY <1>3 DEF InRange
  <2>2. ASSUME NEW q \in rows'[l]
        PROVE  /\ Claimed(l, q[2])' /\ q[3] \in 0 .. range'[<<l, q[2]>>][1] - 1
               /\ q[1] = range'[<<l, q[2]>>][2] + q[3]
    <3>1. CASE q \in rows[l]
      <4>1. q[2] \in Ranks
        BY <3>1
      <4>2. /\ Claimed(l, q[2]) /\ q[3] \in 0 .. range[<<l, q[2]>>][1] - 1
            /\ q[1] = range[<<l, q[2]>>][2] + q[3]
        BY <3>1 DEF Filled
      <4> QED
        BY <1>3, <1>6, <4>1, <4>2
    <3>2. CASE q \notin rows[l]
      <4>1. l = k /\ q \in New
        BY <1>3, <2>2, <3>2
      <4> QED
        BY <1>2, <1>3, <1>6, <1>7, <1>9, <4>1
    <3> QED
      BY <3>1, <3>2
  <2>3. Filled(l)
    OBVIOUS
  <2> QED
    BY <1>3, <1>6, <2>1, <2>2, <2>3 DEF Filled
<1> QED
  BY <1>10, <1>11

\* Signals are negative, so what a group claims is a number of rows.
LEMMA CountNatural == \A v \in Int : v < 0 => CountOf(v) \in Nat
  BY DEF CountOf

\* A step that leaves the output alone and resets no leader keeps the invariant.
LEMMA ReceiveKept ==
    ASSUME ReceiveInv, UNCHANGED <<mode, recv, packed, range, rows>>,
           \A w \in Experts : signal'[w] <= 0,
           \A e \in Experts : leader'[e] = "done" => leader[e] = "done"
    PROVE  ReceiveInv'
<1>1. ASSUME mode # "send" PROVE \A l \in Locals : Filled(l)'
  BY <1>1, FilledKept DEF ReceiveInv
<1> QED
  BY <1>1 DEF ReceiveInv

\* When all leaders are done, all of packed_recv_count has been reset.
LEMMA ReceiveStarts ==
    ASSUME ReceiveInv, mode = "send", mode' # "send", SendDone,
           UNCHANGED <<signal, recv, packed, range, rows>>
    PROVE  ReceiveInv'
<1>1. ASSUME NEW l \in Locals PROVE Filled(l)
  <2>1. 0 \in Ranks
    BY SizeAssumption DEF Ranks
  <2>2. PICK e \in Experts : DstRank(e) = 0 /\ LocalIdx(e) = l
    BY <2>1, GroupOf
  <2>3. packed[l] = 0 /\ rows[l] = {}
    BY <2>2 DEF ReceiveInv, SendDone
  <2>4. \A s \in Ranks : ~Claimed(l, s)
    BY GroupOf DEF ReceiveInv, Claimed
  <2> QED
    BY <2>3, <2>4, FilledEmpty
<1>2. \A l \in Locals : Filled(l)'
  BY <1>1, FilledKept
<1> QED
  BY <1>2 DEF ReceiveInv

LEMMA ReceiveStep == TypeOK /\ ReceiveInv /\ [Next]_vars => ReceiveInv'
<1> SUFFICES ASSUME TypeOK, ReceiveInv, [Next]_vars PROVE ReceiveInv'
  OBVIOUS
<1> USE DEF sendVars, recvVars, ctrlVars
<1>1. signal \in [Experts -> Int] /\ \A w \in Experts : signal[w] <= 0
  BY DEF TypeOK, ReceiveInv
<1>2. ASSUME NEW f \in Routings, NEW ph \in {"both", "send"}, LaunchSend(f, ph)
      PROVE ReceiveInv'
  BY <1>2 DEF LaunchSend, ReceiveInv
<1>3. CASE LaunchRecv \/ ReturnRecv
  <2>1. /\ mode # "send" /\ mode' # "send"
        /\ UNCHANGED <<signal, recv, packed, range, rows>>
    BY <1>3 DEF LaunchRecv, ReturnRecv
  <2>2. \A l \in Locals : Filled(l)'
    BY <2>1, FilledKept DEF ReceiveInv
  <2> QED
    BY <2>1, <2>2 DEF ReceiveInv
<1>4. CASE GridSync \/ ReturnSend
  <2>1. /\ mode = "send" /\ mode' # "send" /\ SendDone
        /\ UNCHANGED <<signal, recv, packed, range, rows>>
    BY <1>4 DEF GridSync, ReturnSend
  <2> QED
    BY <2>1, ReceiveStarts
<1>5. ASSUME NEW e \in Experts, SendSignal(e) PROVE ReceiveInv'
  <2>1. SignalOf(Cardinality(Assigned(e))) <= 0
    BY StepSets DEF SignalOf
  <2>2. \A w \in Experts : signal'[w] <= 0
    BY <1>1, <1>5, <2>1 DEF SendSignal
  <2>3. \A x \in Experts : leader'[x] = "done" => leader[x] = "done"
    BY <1>5 DEF SendSignal, TypeOK
  <2>4. UNCHANGED <<mode, recv, packed, range, rows>>
    BY <1>5 DEF SendSignal
  <2> QED
    BY <2>2, <2>3, <2>4, ReceiveKept
<1>6. ASSUME NEW e \in Experts, ResetCounters(e) PROVE ReceiveInv'
  <2>1. /\ mode = "send" /\ mode' = "send" /\ UNCHANGED <<signal, recv, rows>>
        /\ leader' = [leader EXCEPT ![e] = "done"] /\ packed' = PackedReset(e)
    BY <1>6 DEF ResetCounters
  <2>2. packed \in [Locals -> Int] /\ leader \in [Experts -> {"wait", "sent", "done"}]
    BY DEF TypeOK
  <2>3. ASSUME NEW x \in Experts, leader'[x] = "done", DstRank(x) = 0
        PROVE  packed'[LocalIdx(x)] = 0
    <3>1. x # e => leader[x] = "done"
      BY <2>1, <2>2, <2>3
    <3>2. x # e => packed[LocalIdx(x)] = 0
      BY <2>1, <2>3, <3>1 DEF ReceiveInv
    <3>3. LocalIdx(x) \in Locals /\ LocalIdx(e) \in Locals
      BY GroupIndex
    <3> QED
      BY <2>1, <2>2, <2>3, <3>2, <3>3 DEF PackedReset
  <2> QED
    BY <2>1, <2>3 DEF ReceiveInv
<1>7. ASSUME NEW g \in Experts, ReceiveSignal(g) \/ GiveUp(g) PROVE ReceiveInv'
  <2>1. WordOf(g) \in Experts
    BY GroupIndex, WordIndex DEF WordOf
  <2>2. PICK n \in Nat : Claim(g, n)
    <3>1. CASE ReceiveSignal(g)
      <4>1. signal[WordOf(g)] \in Int /\ signal[WordOf(g)] < 0
        BY <1>1, <2>1, <3>1 DEF ReceiveSignal
      <4> QED
        BY <3>1, <4>1, CountNatural DEF ReceiveSignal
    <3>2. CASE GiveUp(g)
      <4>1. CountOf(-1) \in Nat
        BY CountNatural
      <4> QED
        BY <3>2, <4>1 DEF GiveUp
    <3> QED
      BY <1>7, <3>1, <3>2
  <2>3. mode = "recv" /\ recv[g] = "wait"
    BY <1>7 DEF ReceiveSignal, GiveUp
  <2>4. mode' = mode /\ signal' = signal /\ rows' = rows
    BY <2>2 DEF Claim
  <2>5. \A l \in Locals : Filled(l)'
    BY <2>2, <2>3, ClaimFills DEF ReceiveInv
  <2> QED
    BY <2>3, <2>4, <2>5 DEF ReceiveInv
<1>8. ASSUME NEW g \in Experts, CopyRows(g) PROVE ReceiveInv'
  <2>1. mode = "recv" /\ mode' = mode /\ signal' = signal
    BY <1>8 DEF CopyRows
  <2>2. /\ rows' \in [Locals -> SUBSET (Int \X Ranks \X Int)]
        /\ \A l \in Locals : Filled(l)'
    BY <1>8, <2>1, CopyFills DEF ReceiveInv
  <2> QED
    BY <2>1, <2>2 DEF ReceiveInv
<1>9. ASSUME NEW l \in Locals, NEW s \in Ranks, NEW n \in PeerCounts,
             PeerSignal(l, s, n)
      PROVE ReceiveInv'
  <2>1. SignalOf(n) <= 0
    BY InputAssumption, SizeAssumption DEF SignalOf
  <2>2. \A w \in Experts : signal'[w] <= 0
    BY <1>1, <1>9, <2>1 DEF PeerSignal
  <2>3. UNCHANGED <<mode, leader, recv, packed, range, rows>>
    BY <1>9 DEF PeerSignal
  <2> QED
    BY <2>2, <2>3, ReceiveKept
<1>10. CASE UNCHANGED <<mode, leader, signal, recv, packed, range, rows>>
  BY <1>1, <1>10, ReceiveKept
<1> QED
  BY <1>2, <1>3, <1>4, <1>5, <1>6, <1>7, <1>8, <1>9, <1>10
     DEF Next, vars, TakeSlot, WriteRow, FinishItem, CleanNext, TagExpert,
         CountExpert, SyncThreads

\* In every sequence of launches the output is what ReceiveInv says.
LEMMA ReceiveInvariance == Spec => []ReceiveInv
<1>1. Init => ReceiveInv
  <2> SUFFICES ASSUME Init PROVE ReceiveInv
    OBVIOUS
  <2>1. ASSUME NEW l \in Locals PROVE Filled(l)
    <3>1. \A s \in Ranks : range[<<l, s>>][1] = 0 /\ range[<<l, s>>][2] = 0
      BY DEF Init, NoRange
    <3>2. packed[l] = 0 /\ rows[l] = {}
      BY DEF Init
    <3> QED
      BY <3>1, <3>2 DEF Filled, InRange
  <2>2. \A w \in Experts : signal[w] <= 0
    BY DEF Init
  <2> QED
    BY <2>1, <2>2 DEF Init, ReceiveInv
<1> QED
  BY <1>1, TypeCorrect, ReceiveStep, PTL DEF Spec

\* The ranges that atomicAdd on packed_recv_count hands out for a local expert are
\* disjoint and leave no hole, in whatever order the groups claim them.
THEOREM PackedCorrect == Spec => []Packed
<1>1. TypeOK /\ ReceiveInv => Packed
  <2> SUFFICES ASSUME TypeOK, ReceiveInv, mode = "recv", NEW l \in Locals
               PROVE  LET claimed == {s \in Ranks : recv[s * LocalExperts + l] # "wait"}
                          begin(s) == range[<<l, s>>][2]
                          rangeOf(s) == begin(s) .. begin(s) + range[<<l, s>>][1] - 1
                      IN /\ UNION {rangeOf(s) : s \in claimed} = 0 .. packed[l] - 1
                         /\ \A s, t \in claimed : s # t => rangeOf(s) \cap rangeOf(t) = {}
    BY DEF Packed
  <2> DEFINE claimed == {s \in Ranks : recv[s * LocalExperts + l] # "wait"}
             rangeOf(s) == range[<<l, s>>][2] .. range[<<l, s>>][2] + range[<<l, s>>][1] - 1
  <2>1. Filled(l)
    BY DEF ReceiveInv
  <2>2. \A s : s \in claimed <=> s \in Ranks /\ Claimed(l, s)
    BY DEF Claimed
  <2>3. ASSUME NEW s \in Ranks, Claimed(l, s), NEW x
        PROVE  /\ x \in rangeOf(s) <=> x \in Int /\ InRange(l, s, x)
               /\ x \in rangeOf(s) => x \in 0 .. packed[l] - 1
    <3>1. PICK n \in Nat, b \in Nat, p \in Nat :
              n = range[<<l, s>>][1] /\ b = range[<<l, s>>][2] /\ p = packed[l] /\ b + n <= p
      BY <2>1, <2>3 DEF Filled
    <3>2. rangeOf(s) = b .. b + n - 1
      BY <3>1
    <3>3. InRange(l, s, x) <=> b <= x /\ x < b + n
      BY <3>1 DEF InRange
    <3> QED
      BY <3>1, <3>2, <3>3
  <2>4. \A x \in 0 .. packed[l] - 1 : \E s \in Ranks : Claimed(l, s) /\ InRange(l, s, x)
    BY <2>1 DEF Filled
  <2>5. \A s, t \in Ranks, x \in Int :
            Claimed(l, s) /\ InRange(l, s, x) /\ Claimed(l, t) /\ InRange(l, t, x) => s = t
    BY <2>1 DEF Filled
  <2>6. \A x \in 0 .. packed[l] - 1 : x \in Int
    OBVIOUS
  <2> HIDE DEF claimed, rangeOf
  <2>7. UNION {rangeOf(s) : s \in claimed} = 0 .. packed[l] - 1
    BY <2>2, <2>3, <2>4, <2>6
  <2>8. \A s, t \in claimed : s # t => rangeOf(s) \cap rangeOf(t) = {}
    BY <2>2, <2>3, <2>5
  <2> QED
    BY <2>7, <2>8 DEF claimed, rangeOf
<1> QED
  BY <1>1, TypeCorrect, ReceiveInvariance, PTL

\* What OutputMatchesRange needs beyond ReceiveInv: a group that is done has copied all
\* of its range, the range of an active source is as long as its signal says, and a
\* launch that has returned from its receive phase has finished all groups.
Copied(l, s) ==
    recv[s * LocalExperts + l] = "done" =>
        \A i \in 0 .. range[<<l, s>>][1] - 1 :
            <<range[<<l, s>>][2] + i, s, i>> \in rows[l]
Returned == mode = "idle" /\ ~recvPending
Announced(l, s) ==
    Claimed(l, s) /\ active[s] =>
        \/ signal[SignalWord(l, s)] = SignalOf(range[<<l, s>>][1])
        \/ signal[SignalWord(l, s)] = 0 /\ Returned
OutputInv ==
    /\ mode = "send" => (recvPending <=> ~both)
    /\ Returned => \A g \in Experts : recv[g] = "done"
    /\ mode # "send" => \A l \in Locals, s \in Ranks : Copied(l, s) /\ Announced(l, s)

\* Different pairs have different words.
LEMMA WordUnique ==
    ASSUME NEW l \in Locals, NEW k \in Locals, NEW s \in Ranks, NEW t \in Ranks,
           SignalWord(l, s) = SignalWord(k, t)
    PROVE  l = k /\ s = t
<1>1. /\ NumRanks \in Nat /\ l \in Int /\ k \in Int
      /\ s \in 0 .. NumRanks - 1 /\ t \in 0 .. NumRanks - 1
  BY SizeAssumption DEF Locals, Ranks
<1> QED
  BY <1>1, RadixUnique DEF SignalWord

LEMMA OutputStep == TypeOK /\ ReceiveInv /\ OutputInv /\ [Next]_vars => OutputInv'
<1> SUFFICES ASSUME TypeOK, ReceiveInv, OutputInv, [Next]_vars PROVE OutputInv'
  OBVIOUS
<1> USE DEF sendVars, recvVars, ctrlVars
<1>1. ASSUME NEW f \in Routings, NEW ph \in {"both", "send"}, LaunchSend(f, ph)
      PROVE OutputInv'
  BY <1>1 DEF LaunchSend, OutputInv, Returned
<1>2. CASE LaunchRecv \/ ReturnRecv
  <2>1. /\ mode # "send" /\ mode' # "send" /\ ~Returned
        /\ UNCHANGED <<signal, recv, range, rows, active>>
    BY <1>2 DEF LaunchRecv, ReturnRecv, Returned
  <2>2. Returned' => \A g \in Experts : recv'[g] = "done"
    BY <1>2 DEF LaunchRecv, ReturnRecv, Returned
  <2>3. \A l \in Locals, s \in Ranks : Copied(l, s)' /\ Announced(l, s)'
    BY <2>1 DEF OutputInv, Copied, Announced, Claimed
  <2> QED
    BY <2>1, <2>2, <2>3 DEF OutputInv
<1>3. CASE GridSync \/ ReturnSend
  <2>1. /\ mode = "send" /\ mode' # "send" /\ ~Returned'
        /\ UNCHANGED <<recv, range, rows>>
    BY <1>3 DEF GridSync, ReturnSend, Returned, OutputInv
  <2>2. \A l \in Locals, s \in Ranks : recv'[s * LocalExperts + l] = "wait"
    BY <2>1, GroupOf DEF ReceiveInv
  <2>3. \A l \in Locals, s \in Ranks : Copied(l, s)' /\ Announced(l, s)'
    BY <2>2 DEF Copied, Announced, Claimed
  <2> QED
    BY <2>1, <2>3 DEF OutputInv
<1>4. ASSUME NEW g \in Experts, ReceiveSignal(g) \/ GiveUp(g) PROVE OutputInv'
  <2>1. PICK k \in Locals, d \in Ranks : k = LocalIdx(g) /\ d = DstRank(g)
    BY GroupIndex
  <2>2. PICK n : Claim(g, n) /\ (ReceiveSignal(g) => n = CountOf(signal[WordOf(g)]))
    BY <1>4 DEF ReceiveSignal, GiveUp
  <2>3. /\ mode = "recv" /\ mode' = "recv" /\ signal' = signal /\ rows' = rows
        /\ range' = [range EXCEPT ![<<k, d>>] = <<n, packed[k]>>]
        /\ recv' = [recv EXCEPT ![g] = "copy"]
    BY <1>4, <2>1, <2>2 DEF ReceiveSignal, GiveUp, Claim
  <2>4. /\ range \in [Locals \X Ranks -> Int \X Int] /\ active \in [Ranks -> BOOLEAN]
        /\ recv \in [Experts -> {"wait", "copy", "done"}] /\ signal \in [Experts -> Int]
    BY DEF TypeOK
  <2>5. /\ ReceiveSignal(g) => active' = active
        /\ GiveUp(g) => active' = [active EXCEPT ![d] = FALSE]
    BY <2>1 DEF ReceiveSignal, GiveUp
  <2>6. ASSUME NEW l \in Locals, NEW s \in Ranks PROVE Copied(l, s)' /\ Announced(l, s)'
    <3>1. /\ s * LocalExperts + l \in Experts
          /\ g = s * LocalExperts + l <=> d = s /\ k = l
      BY <2>1, GroupOf, GroupIs
    <3>2. CASE k = l /\ d = s
      <4>1. recv'[s * LocalExperts + l] = "copy" /\ range'[<<l, s>>] = <<n, packed[k]>>
        BY <2>3, <2>4, <3>1, <3>2
      <4>2. Copied(l, s)'
        BY <4>1 DEF Copied
      <4>3. CASE ReceiveSignal(g)
        <5>1. WordOf(g) = SignalWord(l, s) /\ SignalWord(l, s) \in Experts
          BY <2>1, <3>2, WordIndex DEF WordOf
        <5>2. PICK v \in Int : v = signal[SignalWord(l, s)]
          BY <2>4, <5>1
        <5>3. SignalOf(n) = v
          BY <2>2, <4>3, <5>1, <5>2 DEF SignalOf, CountOf
        <5>4. range'[<<l, s>>][1] = n
          BY <4>1
        <5> QED
          BY <2>3, <4>2, <5>2, <5>3, <5>4 DEF Announced
      <4>4. CASE GiveUp(g)
        <5>1. ~active'[s]
          BY <2>4, <2>5, <3>2, <4>4
        <5> QED
          BY <4>2, <5>1 DEF Announced
      <4> QED
        BY <1>4, <4>3, <4>4
    <3>3. CASE ~(k = l /\ d = s)
      <4>1. /\ recv'[s * LocalExperts + l] = recv[s * LocalExperts + l]
            /\ range'[<<l, s>>] = range[<<l, s>>]
        BY <2>3, <2>4, <3>1, <3>3
      <4>2. active'[s] => active[s]
        BY <1>4, <2>4, <2>5
      <4>3. ~Returned /\ Copied(l, s) /\ Announced(l, s)
        BY <2>3 DEF OutputInv, Returned
      <4>4. Copied(l, s)'
        BY <2>3, <4>1, <4>3 DEF Copied
      <4>5. Announced(l, s)'
        BY <2>3, <4>1, <4>2, <4>3 DEF Announced, Claimed
      <4> QED
        BY <4>4, <4>5
    <3> QED
      BY <3>2, <3>3
  <2> QED
    BY <2>3, <2>6 DEF OutputInv, Returned
<1>5. ASSUME NEW g \in Experts, CopyRows(g) PROVE OutputInv'
  <2>1. PICK k \in Locals, d \in Ranks : k = LocalIdx(g) /\ d = DstRank(g)
    BY GroupIndex
  <2> DEFINE New == {<<OutputRow(range[<<k, d>>], i), d, i>> :
                        i \in 0 .. range[<<k, d>>][1] - 1}
  <2>2. /\ mode = "recv" /\ mode' = "recv" /\ recv[g] = "copy"
        /\ recv' = [recv EXCEPT ![g] = "done"]
        /\ rows' = [rows EXCEPT ![k] = @ \cup New]
        /\ UNCHANGED <<signal, range, active>>
    BY <1>5, <2>1 DEF CopyRows
  <2>3. /\ recv \in [Experts -> {"wait", "copy", "done"}]
        /\ rows \in [Locals -> SUBSET (Int \X Ranks \X Int)]
    BY DEF TypeOK, ReceiveInv
  <2>4. \A i \in 0 .. range[<<k, d>>][1] - 1 : <<range[<<k, d>>][2] + i, d, i>> \in New
    BY DEF OutputRow
  <2> HIDE DEF New
  <2>5. ASSUME NEW l \in Locals, NEW s \in Ranks PROVE Copied(l, s)' /\ Announced(l, s)'
    <3>1. /\ s * LocalExperts + l \in Experts
          /\ g = s * LocalExperts + l <=> d = s /\ k = l
      BY <2>1, GroupOf, GroupIs
    <3>2. rows[l] \subseteq rows'[l] /\ (k = l => New \subseteq rows'[l])
      BY <2>2, <2>3
    <3>3. ~Returned /\ Copied(l, s) /\ Announced(l, s)
      BY <2>2 DEF OutputInv, Returned
    <3>4. Announced(l, s)'
      BY <2>2, <2>3, <3>1, <3>3 DEF Announced, Claimed
    <3>5. CASE k = l /\ d = s
      BY <2>2, <2>4, <3>2, <3>4, <3>5 DEF Copied
    <3>6. CASE ~(k = l /\ d = s)
      <4>1. recv'[s * LocalExperts + l] = recv[s * LocalExperts + l]
        BY <2>2, <2>3, <3>1, <3>6
      <4> QED
        BY <2>2, <3>2, <3>3, <3>4, <4>1 DEF Copied
    <3> QED
      BY <3>5, <3>6
  <2> QED
    BY <2>2, <2>5 DEF OutputInv, Returned
<1>6. ASSUME NEW k \in Locals, NEW d \in Ranks, NEW n \in PeerCounts,
             PeerSignal(k, d, n)
      PROVE OutputInv'
  <2>1. /\ ~Returned /\ ~Returned' /\ signal[SignalWord(k, d)] = 0
        /\ signal' = [signal EXCEPT ![SignalWord(k, d)] = SignalOf(n)]
        /\ UNCHANGED <<mode, recvPending, both, recv, range, rows, active>>
    BY <1>6 DEF PeerSignal, Returned
  <2>2. signal \in [Experts -> Int]
    BY DEF TypeOK
  <2>3. ASSUME mode # "send", NEW l \in Locals, NEW s \in Ranks
        PROVE  Copied(l, s)' /\ Announced(l, s)'
    <3>1. Copied(l, s) /\ Announced(l, s) /\ Copied(l, s)'
      BY <2>1, <2>3 DEF OutputInv, Copied
    <3>2. CASE SignalWord(l, s) = SignalWord(k, d)
      <4>1. l = k /\ s = d
        BY <3>2, WordUnique
      <4>2. ASSUME Claimed(l, s), active[s] PROVE FALSE
        <5>1. range[<<l, s>>][1] \in Nat
          BY <2>3, <4>2 DEF ReceiveInv, Filled
        <5> QED
          BY <2>1, <3>1, <4>1, <4>2, <5>1, SignalNonzero DEF Announced
      <4> QED
        BY <2>1, <3>1, <4>2 DEF Announced, Claimed
    <3>3. CASE SignalWord(l, s) # SignalWord(k, d)
      <4>1. signal'[SignalWord(l, s)] = signal[SignalWord(l, s)]
        BY <2>1, <2>2, <3>3, WordIndex
      <4> QED
        BY <2>1, <3>1, <4>1 DEF Announced, Claimed
    <3> QED
      BY <3>2, <3>3
  <2> QED
    BY <2>1, <2>3 DEF OutputInv
<1>7. CASE UNCHANGED <<recvPending, both, recv, range, rows, active>>
           /\ UNCHANGED mode /\ (mode = "send" \/ UNCHANGED signal)
  <2>1. Returned' = Returned
    BY <1>7 DEF Returned
  <2>2. ASSUME mode # "send", NEW l \in Locals, NEW s \in Ranks
        PROVE  Copied(l, s)' /\ Announced(l, s)'
    BY <1>7, <2>1, <2>2 DEF OutputInv, Copied, Announced, Claimed
  <2> QED
    BY <1>7, <2>1, <2>2 DEF OutputInv
<1>8. ASSUME NEW e \in Experts, SendSignal(e) \/ ResetCounters(e) PROVE OutputInv'
  BY <1>8 DEF SendSignal, ResetCounters, OutputInv, Returned
<1> QED
  BY <1>1, <1>2, <1>3, <1>4, <1>5, <1>6, <1>7, <1>8
     DEF Next, vars, TakeSlot, WriteRow, FinishItem, CleanNext, TagExpert,
         CountExpert, SyncThreads

LEMMA OutputInvariance == Spec => []OutputInv
<1>1. Init => OutputInv
  <2> SUFFICES ASSUME Init PROVE OutputInv
    OBVIOUS
  <2>1. ASSUME NEW l \in Locals, NEW s \in Ranks PROVE Copied(l, s) /\ Announced(l, s)
    <3>1. range[<<l, s>>][1] = 0 /\ signal[SignalWord(l, s)] = 0
      BY WordIndex DEF Init, NoRange
    <3> QED
      BY <3>1 DEF Init, Copied, Announced, Returned
  <2> QED
    BY <2>1 DEF Init, OutputInv
<1> QED
  BY <1>1, TypeCorrect, ReceiveInvariance, OutputStep, PTL DEF Spec

\* When the kernel returns, the layout range describes the output completely: each
\* source's rows are all there, at the places the range gives, they fill
\* 0 .. packed_recv_count - 1 without overlap, and a rank still active has lost none of
\* the rows its signal announced.
THEOREM OutputCorrect == Spec => []OutputMatchesRange
<1>1. ReceiveInv /\ OutputInv => OutputMatchesRange
  <2> SUFFICES ASSUME ReceiveInv, OutputInv, mode = "idle", ~recvPending, NEW l \in Locals
               PROVE  /\ rows[l] = UNION {{<<range[<<l, s>>][2] + i, s, i>> :
                                              i \in 0 .. range[<<l, s>>][1] - 1}
                                          : s \in Ranks}
                      /\ {r[1] : r \in rows[l]} = 0 .. packed[l] - 1
                      /\ \A r, q \in rows[l] : r[1] = q[1] => r = q
                      /\ \A s \in Ranks :
                            active[s] /\ signal[SignalWord(l, s)] # 0 =>
                                signal[SignalWord(l, s)] = SignalOf(range[<<l, s>>][1])
    BY DEF OutputMatchesRange
  <2>1. PICK p \in Nat : p = packed[l]
    BY DEF ReceiveInv, Filled
  <2>2. Filled(l) /\ \A r \in rows[l] : r \in Int \X Ranks \X Int
    BY DEF ReceiveInv
  <2>3. ASSUME NEW s \in Ranks
        PROVE  /\ Claimed(l, s) /\ Announced(l, s)
               /\ \A i \in 0 .. range[<<l, s>>][1] - 1 :
                     <<range[<<l, s>>][2] + i, s, i>> \in rows[l]
    BY GroupOf DEF OutputInv, Returned, Copied, Claimed
  <2>4. ASSUME NEW r \in rows[l]
        PROVE  /\ r[1] \in 0 .. p - 1 /\ r[2] \in Ranks /\ r = <<r[1], r[2], r[3]>>
               /\ Claimed(l, r[2]) /\ InRange(l, r[2], r[1])
               /\ r[3] \in 0 .. range[<<l, r[2]>>][1] - 1
               /\ r[1] = range[<<l, r[2]>>][2] + r[3]
               /\ r[3] = r[1] - range[<<l, r[2]>>][2]
    <3>1. r[2] \in Ranks /\ r = <<r[1], r[2], r[3]>>
      BY <2>2
    <3>2. /\ Claimed(l, r[2]) /\ r[3] \in 0 .. range[<<l, r[2]>>][1] - 1
          /\ r[1] = range[<<l, r[2]>>][2] + r[3]
      BY <2>2 DEF Filled
    <3>3. LET x == range[<<l, r[2]>>] IN x[1] \in Nat /\ x[2] \in Nat /\ x[2] + x[1] <= p
      BY <2>1, <2>2, <3>1, <3>2 DEF Filled
    <3> QED
      BY <3>1, <3>2, <3>3 DEF InRange
  <2>5. \A r, q \in rows[l] : r[1] = q[1] => r = q
    <3> SUFFICES ASSUME NEW r \in rows[l], NEW q \in rows[l], r[1] = q[1] PROVE r = q
      OBVIOUS
    <3>1. r[1] \in Int
      BY <2>2
    <3>2. r[2] = q[2]
      BY <2>2, <2>4, <3>1 DEF Filled
    <3>3. /\ r[3] = r[1] - range[<<l, r[2]>>][2] /\ q[3] = q[1] - range[<<l, q[2]>>][2]
          /\ r = <<r[1], r[2], r[3]>> /\ q = <<q[1], q[2], q[3]>>
      BY <2>4
    <3>4. r[3] = q[3]
      BY <3>2, <3>3
    <3> QED
      BY <3>2, <3>3, <3>4
  <2> DEFINE Part(s) == {<<range[<<l, s>>][2] + i, s, i>> : i \in 0 .. range[<<l, s>>][1] - 1}
  <2>6. rows[l] = UNION {Part(s) : s \in Ranks}
    <3>1. ASSUME NEW r \in rows[l] PROVE r \in Part(r[2]) /\ r[2] \in Ranks
      BY <2>4
    <3>2. ASSUME NEW s \in Ranks, NEW r \in Part(s) PROVE r \in rows[l]
      BY <2>3
    <3> HIDE DEF Part
    <3> QED
      BY <3>1, <3>2
  <2>7. ASSUME NEW x \in 0 .. p - 1 PROVE \E r \in rows[l] : r[1] = x
    <3>1. PICK s \in Ranks : Claimed(l, s) /\ InRange(l, s, x)
      BY <2>1, <2>2 DEF Filled
    <3>2. PICK n \in Nat, b \in Nat : n = range[<<l, s>>][1] /\ b = range[<<l, s>>][2]
      BY <2>2, <3>1 DEF Filled
    <3>3. x - b \in 0 .. n - 1
      BY <3>1, <3>2 DEF InRange
    <3>4. <<b + (x - b), s, x - b>> \in rows[l]
      BY <2>3, <3>2, <3>3
    <3> QED
      BY <3>2, <3>4
  <2>8. {r[1] : r \in rows[l]} = 0 .. packed[l] - 1
    <3>1. \A r \in rows[l] : r[1] \in 0 .. p - 1
      BY <2>4
    <3> QED
      BY <2>1, <2>7, <3>1
  <2>9. \A s \in Ranks : active[s] /\ signal[SignalWord(l, s)] # 0 =>
                             signal[SignalWord(l, s)] = SignalOf(range[<<l, s>>][1])
    BY <2>3 DEF Announced
  <2> QED
    BY <2>5, <2>6, <2>8, <2>9
<1> QED
  BY <1>1, ReceiveInvariance, OutputInvariance, PTL
=============================================================================
