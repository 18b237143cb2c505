------------------------------ MODULE MCPages -------------------------------
EXTENDS Pages, TLC

\* Calls and clicks are alike, and so are workspaces and conversations.
Alike == Permutations(Slots) \cup Permutations(Places)
=============================================================================
