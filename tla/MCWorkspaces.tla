---------------------------- MODULE MCWorkspaces ----------------------------
EXTENDS Workspaces, TLC
\* Two users of the same letters; n3 has a digit.
CONSTANTS n1
MCDefault == [u \in Users |-> n1]
MCSymmetry == Permutations(Jobs) \cup Permutations(Users)
=============================================================================
