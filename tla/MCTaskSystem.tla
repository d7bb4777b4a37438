---------------------------- MODULE MCTaskSystem ----------------------------
EXTENDS TaskSystem
MCHome == [a \in Agents |-> CHOOSE w \in Workspaces : TRUE]
=============================================================================
