---------------------------- MODULE MCAgentActor ----------------------------
EXTENDS AgentActor, TLC
MCSymmetry == Permutations(Checks) \cup Permutations(Execs)
MCHome == [a \in Agents |-> CHOOSE w \in Workspaces : TRUE]
=============================================================================
