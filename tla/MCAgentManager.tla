--------------------------- MODULE MCAgentManager ---------------------------
EXTENDS AgentManager, TLC
MCSymmetry == Permutations(Agents) \cup Permutations(Actors) \cup Permutations(Jobs)
=============================================================================
