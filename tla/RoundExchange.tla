--------------------------- MODULE RoundExchange ---------------------------
(***************************************************************************)
(* What a sequence of dispatch and combine launches promises the ranks: in *)
(* every round each rank gives one contribution to each rank, then takes   *)
(* one contribution from each rank: the one that was given in that round,  *)
(* exactly once and in order.  It gives nothing for the next round before  *)
(* it has taken everything of this one, so at most two contributions are   *)
(* outstanding between two ranks.                                          *)
(***************************************************************************)
EXTENDS Integers

CONSTANTS Ranks, LastRound

VARIABLES
    given,   \* given[s][d]: the last round in which s contributed to d
    taken    \* taken[d][s]: the round of the contribution d took last from s

avars == <<given, taken>>

AInit ==
    /\ given = [s \in Ranks |-> [d \in Ranks |-> 0]]
    /\ taken = [d \in Ranks |-> [s \in Ranks |-> 0]]

Give(s, d) ==
    /\ given[s][d] < LastRound
    /\ \A x \in Ranks : taken[s][x] = given[s][d]
    /\ given' = [given EXCEPT ![s][d] = @ + 1]
    /\ UNCHANGED taken

Take(d, S) ==
    /\ \A s \in S : /\ taken[d][s] < given[s][d]
                    /\ \A x \in Ranks : given[d][x] = taken[d][s] + 1
    /\ taken' = [taken EXCEPT ![d] =
                    [s \in Ranks |-> IF s \in S THEN @[s] + 1 ELSE @[s]]]
    /\ UNCHANGED given

ANext ==
    \/ \E s, d \in Ranks : Give(s, d)
    \/ \E d \in Ranks, S \in (SUBSET Ranks) \ {{}} : Take(d, S)

ASpec == AInit /\ [][ANext]_avars
=============================================================================
