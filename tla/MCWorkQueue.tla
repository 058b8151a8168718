---------------------------- MODULE MCWorkQueue ----------------------------
(* Rank 1 of two ranks with two experts each, which share the one context  *)
(* of their rank (three queue pairs, of which two are used).  Bytes have   *)
(* four values: the head wraps at 16, twice the ring, in the last launch.  *)
EXTENDS WorkQueue

\* The rows for the two experts, launch by launch: both slots of an expert, a
\* returned row, two experts with different tokens, and launches of signals only.
MCRows(k, d, l) ==
    <<<<0, 2>>, <<0, 1>>, <<1, 1>>, <<0, 0>>, <<0, 0>>, <<0, 0>>>>[k][l + 1]

\* The experts' rows are not in the order of the tokens.
MCToken(k, d, l, n) == (l + n) % MaxTokens

\* The own rank's rows come first in the output of the dispatch.
MCBegin(k, d, l) == l + 1
=============================================================================
