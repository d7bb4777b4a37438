-------------------------- MODULE MCDagOrchestrator --------------------------
EXTENDS DagOrchestratorProofs, TLC
MCSymmetry == Permutations(Jobs) \cup Permutations(Reviews)
MCHome == [a \in Agents |-> CHOOSE w \in Workspaces : TRUE]
=============================================================================
