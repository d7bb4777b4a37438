------------------------ MODULE MCDocumentedPromises ------------------------
EXTENDS DocumentedPromises
\* Every workspace has an agent.
MCHome == CHOOSE h \in [Agents -> Workspaces] :
              Workspaces = {h[a] : a \in Agents}
=============================================================================
