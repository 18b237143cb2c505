-------------------------- MODULE MCSocketHandshake --------------------------
(* Instances of SocketHandshake for TLC. *)
EXTENDS SocketHandshake, TLC

Symmetry == Permutations(Pairs) \cup Permutations(Tasks) \cup Permutations(Conns) \cup Permutations(Hands)

(* The races between token requests are explored without sockets, those of *)
(* the sockets with one request, two pairs and one tick.       *)
Bounded ==
    \/ presence = 0 /\ \A c \in Conns : conn[c] = FreeConn
    \/ now <= 1 /\ Cardinality(Issued) <= 2 /\ Cardinality({t \in Tasks : flow[t] # Idle}) <= 1
=============================================================================
