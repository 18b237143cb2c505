--------------------------- MODULE MCChatDelivery ---------------------------
(* An instance of ChatDelivery for TLC: one chat, which may get two        *)
(* documents; one message of the client and two equal ones of the          *)
(* attendant.                                                              *)
EXTENDS ChatDelivery, TLC

CONSTANTS chat, theirs, own1, own2, hello, ok

MCChatOf == [m \in {theirs, own1, own2} |-> chat]
MCTextOf == [m \in {theirs, own1, own2} |-> IF m = theirs THEN hello ELSE ok]
(* The copies, the slots and the two equal messages are interchangeable,   *)
(* and every property is an invariant.                                     *)
Symmetry == Permutations(Copies) \cup Permutations(Tasks) \cup Permutations(Reqs) \cup Permutations(Own)
=============================================================================
