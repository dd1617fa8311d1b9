--------------------------- MODULE MCScanPolicies ---------------------------
(***************************************************************************)
(* FCFS, SJF and STCF on every small workload.                             *)
(***************************************************************************)
EXTENDS ScanPolicies

\* "P1" and "P2": alike in the one character the engine's sort looks at.
MCPids == {<< 0, 1 >>, << 0, 2 >>}
=============================================================================
