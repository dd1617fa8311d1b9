------------------------------- MODULE MCMLFQ -------------------------------
(***************************************************************************)
(* MLFQ configurations and workloads for TLC.                              *)
(***************************************************************************)
EXTENDS MLFQ

MCPids == {<< 0, 0 >>}

\* A configuration from the quantum and allotment of each level, highest first.
MakeConfig(qs, as, period) ==
  [ num_queues   |-> Len(qs),
    quantums     |-> [l \in 0 .. Len(qs) - 1 |-> qs[l + 1]],
    allotments   |-> [l \in 0 .. Len(qs) - 1 |-> as[l + 1]],
    boost_period |-> period ]

NoBoost == 99   \* beyond the end of every workload here

\* Allotments equal to the quanta (as in the default configuration), larger and
\* smaller than them, with and without boosts; one, two and three levels.
MCConfigs ==
  { MakeConfig(<< 1, 2 >>, << 1, 2 >>, 3),
    MakeConfig(<< 2, 1 >>, << 3, 2 >>, 4),
    MakeConfig(<< 1, 2, 4 >>, << 1, 1, 2 >>, 2),
    MakeConfig(<< 2 >>, << 3 >>, 3),
    MakeConfig(<< 1, 2 >>, << 2, 2 >>, NoBoost),
    MakeConfig(<< 2, 1, 1 >>, << 1, 2, 3 >>, NoBoost) }

\* Two levels and a boost every two time units.
ShortPeriod == {MakeConfig(<< 1, 2 >>, << 1, 2 >>, 2)}
=============================================================================
