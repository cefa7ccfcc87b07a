------------------------- MODULE MCWorkspaceExits --------------------------
\* WorkspaceExits for TLC.
EXTENDS WorkspaceExits
=============================================================================
