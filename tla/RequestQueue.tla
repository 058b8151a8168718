---------------------------- MODULE RequestQueue ----------------------------
(***************************************************************************)
(* What a kernel expects of the queue pairs it posts to: every context is  *)
(* an unbounded first-in first-out queue whose oldest request is carried   *)
(* out, exactly once, eventually.  Dispatch, Combine and Exchange are      *)
(* written on top of this; WorkQueue implements it.                        *)
(***************************************************************************)
EXTENDS Sequences

CONSTANTS Contexts, Requests

VARIABLES
    queue,    \* queue[c]: the requests posted to context c and not carried out
    served    \* the requests carried out so far

qvars == <<queue, served>>

QInit == queue = [c \in Contexts |-> << >>] /\ served = {}

Enqueue(c, m) ==
    /\ UNCHANGED served
    /\ queue' = [queue EXCEPT ![c] = Append(@, m)]
    /\ m \notin served
    /\ \A b \in Contexts : \A i \in DOMAIN queue[b] : queue[b][i] # m

Serve(c) ==
    /\ queue[c] # << >>
    /\ served' = served \cup {Head(queue[c])}
    /\ queue' = [queue EXCEPT ![c] = Tail(@)]

QNext == \E c \in Contexts : Serve(c) \/ \E m \in Requests : Enqueue(c, m)

QSpec ==
    QInit /\ [][QNext]_qvars /\ \A c \in Contexts : WF_qvars(Serve(c))
=============================================================================
