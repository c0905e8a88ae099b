------------------------------- MODULE Queues -------------------------------
(***************************************************************************)
(* What is left of a queue when some of its elements leave it: the queue   *)
(* of a tree (messaging/trees/node.py) and the log of a chat's messages    *)
(* (session/managed_message_log.py).                                       *)
(***************************************************************************)
EXTENDS Naturals, Sequences, FiniteSets

\* The queue without those gone, in its order.
Remaining(q, gone) ==
    LET left == {i \in DOMAIN q : q[i] \notin gone}
        Kth(k) == CHOOSE i \in left : Cardinality({j \in left : j < i}) = k - 1
    IN [k \in 1 .. Cardinality(left) |-> q[Kth(k)]]
=============================================================================
