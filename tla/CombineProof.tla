---------------------------- MODULE CombineProof ----------------------------
(* Proofs about the combine kernel, for every number of ranks, experts,    *)
(* warps, rows and tokens, cooperative or not, with and without timeouts.  *)
EXTENDS Combine, FiniteSetTheorems, TLAPS

-----------------------------------------------------------------------------
(* The inductive invariant.                                                *)

\* The groups whose leader has given its share of the flag back.
LoweredGroups == {g \in Groups : leader[g] = "done"}

\* What the flag counts: nothing before it is raised, then the leaders that have
\* still to lower it.
FlagMeaning ==
    flag = (IF cleaner = "done" THEN NumExperts ELSE 0) - Cardinality(LoweredGroups)

\* A leader past the barrier has its rows sent, one past the flag the buffer clean,
\* and all are through when no launch is in its send part.
LeaderOrder ==
    /\ \A g \in Groups : leader[g] # "rows" => sent[g] = 0 .. layout[g] - 1
    /\ \A g \in Groups : leader[g] \in {"sent", "done"} => cleaner = "done"
    /\ \A g \in published : leader[g] \in {"sent", "done"}
    /\ mode \in {"idle", "reduce"} \/ (mode = "run" /\ "send" \notin phases) =>
           \A g \in Groups : leader[g] = "done"

\* A group whose rows a reduction may add: they have arrived, or it was given up.
Settled(g) == g \in landed \/ ~active[Peer(g)]

\* A signal follows its rows, and a wait ends with the signal or gives up.
WaitMeaning ==
    /\ \A g \in Groups : signal[g] # 0 => g \in landed
    /\ mode = "run" /\ "recv" \in phases =>
           \A g \in Groups : waiter[g] = "done" => Settled(g)
    /\ mode = "reduce" => \A g \in Groups : Settled(g)

CombineInv ==
    /\ TypeOK
    /\ sent \in [Groups -> SUBSET Nat]
    /\ FlagMeaning /\ LeaderOrder /\ WaitMeaning /\ ReducesArrivedRows

-----------------------------------------------------------------------------
(* Index arithmetic.                                                       *)

\* A group index splits into a rank and a local expert; the words of this rank's
\* own experts are in the buffer.
LEMMA GroupIndex ==
    ASSUME NEW g \in Groups
    PROVE  Peer(g) \in Ranks /\ GlobalExpert(Local(g)) \in Groups
<1> DEFINE L == LocalExperts
           q == g \div L
           m == g % L
<1>1. g \in Nat /\ g < NumRanks * L /\ NumRanks \in Nat \ {0} /\ L \in Nat \ {0}
      /\ Rank \in Nat /\ Rank <= NumRanks - 1
  BY CombineAssumption DEF Groups, NumExperts, Ranks
<1>2. q \in Nat /\ m \in 0 .. L - 1 /\ g = L * q + m
  BY <1>1
<1>3. q < NumRanks
  <2>1. SUFFICES ASSUME q >= NumRanks PROVE FALSE
    BY <1>1, <1>2
  <2> HIDE DEF q, m, L
  <2>2. L * q >= L * NumRanks
    BY <2>1, <1>1, <1>2
  <2>3. QED
    BY <2>2, <1>1, <1>2
<1>4. Rank * L + m \in Groups
  <2> HIDE DEF q, m
  <2>1. Rank * L <= (NumRanks - 1) * L
    BY <1>1
  <2>2. (NumRanks - 1) * L = NumRanks * L - L
    BY <1>1
  <2>3. Rank * L \in Nat
    BY <1>1
  <2>4. QED
    BY <2>1, <2>2, <2>3, <1>1, <1>2 DEF Groups, NumExperts
<1>5. QED
  BY <1>1, <1>2, <1>3, <1>4 DEF Peer, Local, GlobalExpert, Ranks

\* There are num_experts groups.
LEMMA GroupCount ==
    /\ IsFiniteSet(Groups) /\ Cardinality(Groups) = NumExperts
    /\ NumExperts \in Nat \ {0} /\ 0 \in Groups
<1>1. NumExperts \in Nat \ {0}
  BY CombineAssumption DEF NumExperts
<1>2. QED
  BY <1>1, FS_Interval DEF Groups

-----------------------------------------------------------------------------
(* Type correctness.                                                       *)

WellTyped == TypeOK /\ sent \in [Groups -> SUBSET Nat]

LEMMA TypeInit == Init => WellTyped
<1> SUFFICES ASSUME Init PROVE WellTyped
  OBVIOUS
<1>1. /\ mode \in {"idle", "run", "reduce", "aborted"} /\ phases \subseteq {"send", "recv"}
      /\ cooperative \in BOOLEAN /\ recvPending \in BOOLEAN
      /\ cleaner \in {"clean", "raise", "done"}
      /\ published \subseteq Groups /\ landed \subseteq Groups
  BY Zenon DEF Init
<1>2. /\ flag \in Int /\ layout \in [Groups -> Nat] /\ sent \in [Groups -> SUBSET Nat]
      /\ \A g \in Groups : sent[g] \subseteq 0 .. layout[g] - 1
      /\ signal \in [Groups -> {0, 1}]
  BY DEF Init
<1>3. /\ leader \in [Groups -> {"rows", "wait", "sent", "done"}]
      /\ waiter \in [Groups -> {"rows", "wait", "done"}]
      /\ active \in [Ranks -> BOOLEAN]
      /\ reduced \in [TokenIds -> SUBSET Groups]
  BY DEF Init
<1>4. QED
  BY <1>1, <1>2, <1>3 DEF WellTyped, TypeOK

LEMMA TypeStep == WellTyped /\ [Next]_vars => WellTyped'
<1> SUFFICES ASSUME WellTyped, [Next]_vars PROVE WellTyped'
  OBVIOUS
<1> USE DEF WellTyped, TypeOK, launchVars, sendVars, recvVars
<1>1. ASSUME NEW lay \in Layouts, NEW ph \in {{"send"}, {"send", "recv"}},
             NEW coop \in LaunchAttrs, LaunchSend(lay, ph, coop)
      PROVE  WellTyped'
  <2>1. lay \in [Groups -> Nat] /\ coop \in BOOLEAN
    BY CombineAssumption
  <2>2. /\ recvPending' \in BOOLEAN /\ cooperative' \in BOOLEAN
        /\ phases' \subseteq {"send", "recv"}
    BY <1>1, <2>1, Zenon DEF LaunchSend
  <2>3. QED
    BY <1>1, <2>1, <2>2 DEF LaunchSend
<1>2. ASSUME NEW coop \in LaunchAttrs, LaunchRecv(coop) PROVE WellTyped'
  BY <1>2, CombineAssumption DEF LaunchRecv
<1>3. CASE CleanNext
  BY <1>3 DEF CleanNext
<1>4. CASE RaiseFlag
  BY <1>4, GroupCount DEF RaiseFlag, FlagShares
<1>5. ASSUME NEW g \in Groups, NEW i \in RowsOf(g), SendRow(g, i) PROVE WellTyped'
  BY <1>5 DEF SendRow, RowsOf
<1>6. ASSUME NEW g \in Groups, BarSync(g) PROVE WellTyped'
  BY <1>6 DEF BarSync
<1>7. ASSUME NEW g \in Groups, SendSignal(g) PROVE WellTyped'
  BY <1>7, GroupIndex DEF SendSignal
<1>8. ASSUME NEW g \in Groups, LowerFlag(g) PROVE WellTyped'
  BY <1>8 DEF LowerFlag
<1>9. ASSUME NEW g \in Groups, PeerSignal(g) PROVE WellTyped'
  BY <1>9 DEF PeerSignal
<1>10. ASSUME NEW g \in Groups, ReceiveSignal(g) PROVE WellTyped'
  BY <1>10 DEF ReceiveSignal, EndWait
<1>11. ASSUME NEW g \in Groups, GiveUp(g) PROVE WellTyped'
  BY <1>11, GroupIndex DEF GiveUp, EndWait
<1>12. CASE ReturnSend \/ GridSync \/ AbortAtGridSync \/ ReturnRecv
  BY <1>12 DEF ReturnSend, GridSync, AbortAtGridSync, ReturnRecv
<1>13. ASSUME NEW t \in TokenIds, ReduceToken(t) PROVE WellTyped'
  BY <1>13, CombineAssumption DEF ReduceToken
<1>14. CASE UNCHANGED vars
  BY <1>14 DEF vars
<1>15. QED
  BY <1>1, <1>2, <1>3, <1>4, <1>5, <1>6, <1>7, <1>8, <1>9, <1>10, <1>11, <1>12, <1>13,
     <1>14 DEF Next, StayAborted

-----------------------------------------------------------------------------
(* The flag.                                                               *)

SendMeaning == FlagMeaning /\ LeaderOrder

\* No leader has passed a flag that is not raised, so that it is not zero only
\* when the buffer is clean.
LEMMA FlagUpMeansClean ==
    ASSUME WellTyped, SendMeaning, FlagUp
    PROVE  cleaner = "done"
<1> SUFFICES ASSUME cleaner # "done" PROVE FALSE
  OBVIOUS
<1>1. LoweredGroups = {}
  BY DEF SendMeaning, LeaderOrder, LoweredGroups
<1>2. flag = 0
  BY <1>1, FS_EmptySet DEF SendMeaning, FlagMeaning
<1>3. QED
  BY <1>2 DEF FlagUp

\* When every leader has given its share back, the flag is zero.
LEMMA AllLowered ==
    ASSUME WellTyped, SendMeaning, \A g \in Groups : leader[g] = "done"
    PROVE  flag = 0
<1>1. LoweredGroups = Groups
  BY DEF LoweredGroups
<1>2. cleaner = "done"
  BY GroupCount DEF SendMeaning, LeaderOrder
<1>3. QED
  BY <1>1, <1>2, GroupCount DEF SendMeaning, FlagMeaning

LEMMA SendInit == Init => SendMeaning
<1> SUFFICES ASSUME Init PROVE SendMeaning
  OBVIOUS
<1>1. LoweredGroups = Groups
  BY DEF Init, LoweredGroups
<1>2. FlagMeaning
  BY <1>1, GroupCount DEF Init, FlagMeaning
<1>3. LeaderOrder
  BY DEF Init, LeaderOrder
<1>4. QED
  BY <1>2, <1>3 DEF SendMeaning

LEMMA SendStep == WellTyped /\ SendMeaning /\ [Next]_vars => SendMeaning'
<1> SUFFICES ASSUME WellTyped, SendMeaning, [Next]_vars PROVE SendMeaning'
  OBVIOUS
<1> USE DEF SendMeaning, launchVars, sendVars, recvVars
<1>1. ASSUME NEW lay \in Layouts, NEW ph \in {{"send"}, {"send", "recv"}},
             NEW coop \in LaunchAttrs, LaunchSend(lay, ph, coop)
      PROVE  SendMeaning'
  <2>1. flag = 0
    BY <1>1, AllLowered DEF LaunchSend, LeaderOrder
  <2>2. LoweredGroups' = {}
    BY <1>1 DEF LaunchSend, LoweredGroups
  <2>3. FlagMeaning'
    BY <1>1, <2>1, <2>2, FS_EmptySet DEF LaunchSend, FlagMeaning
  <2>4. LeaderOrder'
    BY <1>1 DEF LaunchSend, LeaderOrder
  <2>5. QED
    BY <2>3, <2>4
<1>2. ASSUME NEW coop \in LaunchAttrs, LaunchRecv(coop) PROVE SendMeaning'
  BY <1>2 DEF LaunchRecv, FlagMeaning, LeaderOrder, LoweredGroups
<1>3. CASE CleanNext
  BY <1>3 DEF CleanNext, FlagMeaning, LeaderOrder, LoweredGroups
<1>4. CASE RaiseFlag
  <2>1. LoweredGroups = {} /\ LoweredGroups' = {}
    BY <1>4 DEF RaiseFlag, LeaderOrder, LoweredGroups
  <2>2. FlagMeaning'
    BY <1>4, <2>1, FS_EmptySet, GroupCount DEF RaiseFlag, FlagShares, FlagMeaning
  <2>3. LeaderOrder'
    BY <1>4 DEF RaiseFlag, LeaderOrder
  <2>4. QED
    BY <2>2, <2>3
<1>5. ASSUME NEW g \in Groups, NEW i \in RowsOf(g), SendRow(g, i) PROVE SendMeaning'
  BY <1>5 DEF SendRow, FlagMeaning, LeaderOrder, LoweredGroups, WellTyped, TypeOK
<1>6. ASSUME NEW g \in Groups, BarSync(g) PROVE SendMeaning'
  <2>1. LoweredGroups' = LoweredGroups
    BY <1>6 DEF BarSync, LoweredGroups, WellTyped, TypeOK
  <2>2. FlagMeaning'
    BY <1>6, <2>1 DEF BarSync, FlagMeaning
  <2>3. LeaderOrder'
    BY <1>6 DEF BarSync, LeaderOrder, RowsOf, Sending, WellTyped, TypeOK
  <2>4. QED
    BY <2>2, <2>3
<1>7. ASSUME NEW g \in Groups, SendSignal(g) PROVE SendMeaning'
  <2>1. LoweredGroups' = LoweredGroups
    BY <1>7 DEF SendSignal, LoweredGroups, WellTyped, TypeOK
  <2>2. FlagMeaning'
    BY <1>7, <2>1 DEF SendSignal, FlagMeaning
  <2>3. cleaner = "done"
    BY <1>7, FlagUpMeansClean DEF SendSignal
  <2>4. LeaderOrder'
    BY <1>7, <2>3 DEF SendSignal, LeaderOrder, Sending, WellTyped, TypeOK
  <2>5. QED
    BY <2>2, <2>4
<1>8. ASSUME NEW g \in Groups, LowerFlag(g) PROVE SendMeaning'
  <2>1. LoweredGroups' = LoweredGroups \cup {g} /\ g \notin LoweredGroups
    BY <1>8 DEF LowerFlag, LoweredGroups, WellTyped, TypeOK
  <2>2. IsFiniteSet(LoweredGroups)
    BY GroupCount, FS_Subset DEF LoweredGroups
  <2>3. /\ Cardinality(LoweredGroups') = Cardinality(LoweredGroups) + 1
        /\ Cardinality(LoweredGroups) \in Nat
    BY <2>1, <2>2, FS_AddElement, FS_CardinalityType
  <2>4. FlagMeaning'
    BY <1>8, <2>3, GroupCount DEF LowerFlag, FlagMeaning, WellTyped, TypeOK
  <2>5. LeaderOrder'
    BY <1>8 DEF LowerFlag, LeaderOrder, Sending, WellTyped, TypeOK
  <2>6. QED
    BY <2>4, <2>5
<1>9. ASSUME NEW g \in Groups, PeerSignal(g) \/ ReceiveSignal(g) \/ GiveUp(g)
      PROVE  SendMeaning'
  BY <1>9 DEF PeerSignal, ReceiveSignal, GiveUp, EndWait, FlagMeaning, LeaderOrder,
     LoweredGroups
<1>10. CASE ReturnSend \/ GridSync \/ AbortAtGridSync \/ ReturnRecv
  BY <1>10 DEF ReturnSend, GridSync, AtGridSync, AbortAtGridSync, ReturnRecv,
     FlagMeaning, LeaderOrder, LoweredGroups
<1>11. ASSUME NEW t \in TokenIds, ReduceToken(t) PROVE SendMeaning'
  BY <1>11 DEF ReduceToken, FlagMeaning, LeaderOrder, LoweredGroups
<1>12. CASE UNCHANGED vars
  BY <1>12 DEF vars, FlagMeaning, LeaderOrder, LoweredGroups
<1>13. QED
  BY <1>1, <1>2, <1>3, <1>4, <1>5, <1>6, <1>7, <1>8, <1>9, <1>10, <1>11, <1>12
  DEF Next, StayAborted

-----------------------------------------------------------------------------
(* The reduction.                                                          *)

RecvMeaning == WaitMeaning /\ ReducesArrivedRows

LEMMA RecvInit == Init => RecvMeaning
  BY DEF Init, RecvMeaning, WaitMeaning, ReducesArrivedRows

LEMMA RecvStep == WellTyped /\ RecvMeaning /\ [Next]_vars => RecvMeaning'
<1> SUFFICES ASSUME WellTyped, RecvMeaning, [Next]_vars PROVE RecvMeaning'
  OBVIOUS
<1> USE DEF RecvMeaning, WaitMeaning, ReducesArrivedRows, Settled,
            launchVars, sendVars, recvVars, WellTyped, TypeOK
<1>1. ASSUME NEW lay \in Layouts, NEW ph \in {{"send"}, {"send", "recv"}},
             NEW coop \in LaunchAttrs, LaunchSend(lay, ph, coop)
      PROVE  RecvMeaning'
  BY <1>1 DEF LaunchSend
<1>2. ASSUME NEW coop \in LaunchAttrs, LaunchRecv(coop) PROVE RecvMeaning'
  BY <1>2 DEF LaunchRecv
<1>3. CASE CleanNext \/ RaiseFlag
  BY <1>3 DEF CleanNext, RaiseFlag
<1>4. ASSUME NEW g \in Groups, NEW i \in RowsOf(g), SendRow(g, i) PROVE RecvMeaning'
  BY <1>4 DEF SendRow
<1>5. ASSUME NEW g \in Groups, BarSync(g) PROVE RecvMeaning'
  BY <1>5 DEF BarSync
<1>6. ASSUME NEW g \in Groups, SendSignal(g) PROVE RecvMeaning'
  BY <1>6, GroupIndex DEF SendSignal
<1>7. ASSUME NEW g \in Groups, LowerFlag(g) PROVE RecvMeaning'
  BY <1>7 DEF LowerFlag
<1>8. ASSUME NEW g \in Groups, PeerSignal(g) PROVE RecvMeaning'
  BY <1>8 DEF PeerSignal
<1>9. ASSUME NEW g \in Groups, ReceiveSignal(g) PROVE RecvMeaning'
  BY <1>9 DEF ReceiveSignal, EndWait
<1>10. ASSUME NEW g \in Groups, GiveUp(g) PROVE RecvMeaning'
  <2>1. ~active'[Peer(g)]
        /\ \A r \in Ranks : ~active[r] => ~active'[r]
    BY <1>10, GroupIndex DEF GiveUp
  <2>2. \A h \in Groups : Settled(h) => Settled(h)'
    BY <1>10, <2>1, GroupIndex DEF GiveUp, EndWait
  <2>3. QED
    BY <1>10, <2>1, <2>2, GroupIndex DEF GiveUp, EndWait
<1>11. CASE ReturnSend \/ AbortAtGridSync \/ ReturnRecv
  BY <1>11 DEF ReturnSend, AbortAtGridSync, ReturnRecv
<1>12. CASE GridSync
  BY <1>12 DEF GridSync, AtGridSync
<1>13. ASSUME NEW t \in TokenIds, ReduceToken(t) PROVE RecvMeaning'
  BY <1>13, CombineAssumption DEF ReduceToken
<1>14. CASE UNCHANGED vars
  BY <1>14 DEF vars
<1>15. QED
  BY <1>1, <1>2, <1>3, <1>4, <1>5, <1>6, <1>7, <1>8, <1>9, <1>10, <1>11, <1>12, <1>13,
     <1>14 DEF Next, StayAborted

-----------------------------------------------------------------------------
(* The theorems.                                                           *)

\* The state of the combine kernel stays well typed in every sequence of launches.
THEOREM TypeCorrect == Spec => []TypeOK
<1>1. WellTyped => TypeOK
  BY DEF WellTyped
<1>2. QED
  BY <1>1, TypeInit, TypeStep, PTL DEF Spec

\* What the clean flag, the leaders and the waits mean in every state.
THEOREM CombineCorrect == Spec => []CombineInv
<1>1. Init => WellTyped /\ SendMeaning /\ RecvMeaning
  BY TypeInit, SendInit, RecvInit
<1>2. WellTyped /\ SendMeaning /\ RecvMeaning /\ [Next]_vars
      => (WellTyped /\ SendMeaning /\ RecvMeaning)'
  BY TypeStep, SendStep, RecvStep
<1>3. WellTyped /\ SendMeaning /\ RecvMeaning => CombineInv
  BY DEF WellTyped, SendMeaning, RecvMeaning, CombineInv
<1>4. QED
  BY <1>1, <1>2, <1>3, PTL DEF Spec

\* No signal of combine leaves before the cleaning warp has zeroed the next buffer
\* and the group has sent its rows.
THEOREM SignalCorrect == Spec => []SignalAfterClean
<1>1. CombineInv => SignalAfterClean
  <2>1. SUFFICES ASSUME CombineInv, NEW g \in published
                 PROVE  cleaner # "clean" /\ sent[g] = 0 .. layout[g] - 1
    BY DEF SignalAfterClean
  <2>2. QED
    BY <2>1 DEF CombineInv, LeaderOrder, TypeOK
<1>2. QED
  BY <1>1, CombineCorrect, PTL

\* atomic_clean_flag, the first word of the workspace, is zero whenever no launch is
\* sending, which dispatch relies on.
THEOREM FlagCorrect == Spec => []FlagRestored
<1>1. CombineInv => FlagRestored
  BY AllLowered DEF CombineInv, WellTyped, SendMeaning, LeaderOrder, FlagRestored
<1>2. QED
  BY <1>1, CombineCorrect, PTL

\* After the grid barrier a token is reduced over rows that have arrived, or whose
\* rank was given up.
THEOREM ReduceCorrect == Spec => []ReducesArrivedRows
<1>1. CombineInv => ReducesArrivedRows
  BY DEF CombineInv
<1>2. QED
  BY <1>1, CombineCorrect, PTL
=============================================================================
