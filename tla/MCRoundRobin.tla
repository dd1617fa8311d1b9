---------------------------- MODULE MCRoundRobin ----------------------------
(***************************************************************************)
(* Round Robin on every small workload with every small quantum.           *)
(***************************************************************************)
EXTENDS RoundRobin

MCPids == {<< 0, 0 >>}
=============================================================================
