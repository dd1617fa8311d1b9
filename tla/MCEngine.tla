------------------------------ MODULE MCEngine ------------------------------
(***************************************************************************)
(* The engine under an arbitrary policy, on every small workload, and the  *)
(* report on it.                                                           *)
(***************************************************************************)
EXTENDS Metrics

\* The engine looks at a pid only to order simultaneous arrivals, and every such
\* order is among the workloads: one name is enough.
MCPids == {<< 0, 0 >>}
=============================================================================
