----------------------------- MODULE MCDispatch -----------------------------
(* Small instances of Dispatch, on rank 0.                                 *)
EXTENDS Dispatch

\* Four tables: every item routed, all tokens to one expert plus a masked
\* selection, nothing routed, and one token only.
MCRoutings ==
    {[i \in Items |-> (i[1] + i[2]) % NumExperts],
     [i \in Items |-> IF i[2] = 0 THEN NumExperts - 1 ELSE Unrouted],
     [i \in Items |-> Unrouted],
     [i \in Items |-> IF i[1] = 0 THEN i[2] ELSE Unrouted]}
=============================================================================
