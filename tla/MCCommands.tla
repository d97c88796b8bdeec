----------------------------- MODULE MCCommands -----------------------------
\* Instances of Commands: the receive thread and the update checker capture,
\* a terminal opens a shell meanwhile.
EXTENDS Commands

CONSTANTS receive, update, agent, ash

TwoCallers == {receive, update}
=============================================================================
