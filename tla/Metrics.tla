------------------------------- MODULE Metrics -------------------------------
(***************************************************************************)
(* The report of src/core/metrics.c on a simulation that has ended.        *)
(***************************************************************************)
EXTENDS Engine, Sums

CONSTANT ConvoyThreshold   \* 100, the waiting time from which a convoy is suspected

ASSUME ThresholdAssumption == ConvoyThreshold \in Nat

\* calculate_metrics, which nothing calls.
calculate_metrics(processes) ==
  [p \in Procs |->
     LET turnaround == processes[p].finish_time - processes[p].arrival_time
     IN  [processes[p] EXCEPT
            !.turnaround_time = turnaround,
            !.waiting_time = turnaround - processes[p].burst_time,
            !.response_time = processes[p].start_time - processes[p].arrival_time]]

total_tt == Total(NumProcs, [p \in Procs |-> procs[p].turnaround_time])
total_wt == Total(NumProcs, [p \in Procs |-> procs[p].waiting_time])

\* Mutant: the sum that was copied from total_wt.
total_rt_copied == Total(NumProcs, [p \in Procs |-> procs[p].waiting_time])

total_rt == Total(NumProcs, [p \in Procs |-> procs[p].response_time])

Convoys ==
  {p \in Procs : procs[p].waiting_time > ConvoyThreshold
                   /\ procs[p].waiting_time > procs[p].burst_time}

\* The last line of the table, and the process the warning names: the first in the array.
print_metrics_table ==
  [ avg_tt |-> total_tt \div NumProcs,
    avg_wt |-> total_wt \div NumProcs,
    avg_rt |-> total_rt \div NumProcs,
    convoy |-> IF Convoys = {} THEN NULL ELSE CHOOSE p \in Convoys : \A q \in Convoys : p <= q ]
-----------------------------------------------------------------------------
\* The part of its life before it is first on the CPU.
Unserved(p) == {t \in Life(p) : \A u \in Ticks(p) : t < u}

\* The pairs of a process and such a time unit, over all processes.
Alive    == UNION {{p} \X Life(p) : p \in Procs}
Delay    == UNION {{p} \X Waiting(p) : p \in Procs}
Response == UNION {{p} \X Unserved(p) : p \in Procs}

(***************************************************************************)
(* src/core/metrics.c:13-50, against the log alone.  The averages are the  *)
(* numbers of processes alive, of processes waiting and of processes not   *)
(* served yet, summed over the time units and divided without the          *)
(* remainder; the convoy warning names the first process that waited       *)
(* longer than the threshold and than it ran, and is not printed if there  *)
(* is none.  To calculate the metrics again from the times (metrics.c:5)   *)
(* changes nothing.                                                        *)
(***************************************************************************)
ReportMatchesLog ==
  pc = "done" /\ NumProcs > 0 =>
    LET waited(p) == Cardinality(Waiting(p)) > ConvoyThreshold
                       /\ Cardinality(Waiting(p)) > Cardinality(Ticks(p))
        report == print_metrics_table
    IN  /\ report.avg_tt = Cardinality(Alive) \div NumProcs
        /\ report.avg_wt = Cardinality(Delay) \div NumProcs
        /\ report.avg_rt = Cardinality(Response) \div NumProcs
        /\ IF report.convoy = NULL THEN \A p \in Procs : ~waited(p)
             ELSE waited(report.convoy) /\ \A p \in 1 .. report.convoy - 1 : ~waited(p)
        /\ calculate_metrics(procs) = procs
=============================================================================
