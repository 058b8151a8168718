----------------------------- MODULE MCExchange -----------------------------
(* Small instances of Exchange: launches alternate dispatch and combine.   *)
EXTENDS Exchange

MCKind(k) == IF k % 2 = 1 THEN "dispatch" ELSE "combine"

\* Every round announces another number of rows, one group sends none.
MCCount(k, r, g) == IF g = r THEN 0 ELSE 1 + k

AllRdma(r, d) == FALSE
AllNVLink(r, d) == TRUE
=============================================================================
