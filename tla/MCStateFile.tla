---------------------------- MODULE MCStateFile -----------------------------
(***************************************************************************)
(* StateFile with the service and one command, a cursor and a verdict.     *)
(***************************************************************************)
EXTENDS StateFile

CONSTANTS service, command, cursor, verdict

MCHandles == {service, command}
MCKeys == {cursor, verdict}
MCPrunable == {verdict}
=============================================================================
