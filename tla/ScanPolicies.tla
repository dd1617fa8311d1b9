---------------------------- MODULE ScanPolicies ----------------------------
(***************************************************************************)
(* The policies that keep no state of their own: src/algorithms/fcfs.c,    *)
(* sjf.c and stcf.c.  Each next_process scans the process array for the    *)
(* READY process that comes first in an order of its own; STCF also asks   *)
(* for a preemption when a shorter process arrives.                        *)
(***************************************************************************)
EXTENDS Engine, FiniteSetsExt, Sums

CONSTANT Policies   \* the policies considered, of "FCFS", "SJF" and "STCF"

VARIABLE policy     \* the policy that run_simulation is called with

\* The tie-breakers of SJF and STCF: arrival time, then name.
TieBefore(p, q) ==
  \/ p.arrival_time < q.arrival_time
  \/ p.arrival_time = q.arrival_time /\ strcmp_lt(p.pid, q.pid)

\* Mutant: <= for <.
FCFSBefore_last(p, q) == p.arrival_time <= q.arrival_time

FCFSBefore(p, q) == p.arrival_time < q.arrival_time

SJFBefore(p, q) ==
  \/ p.burst_time < q.burst_time
  \/ p.burst_time = q.burst_time /\ TieBefore(p, q)

\* Mutant: the whole burst counts, not what remains of it.
STCFBefore_burst(p, q) == SJFBefore(p, q)

STCFBefore(p, q) ==
  \/ p.remaining_time < q.remaining_time
  \/ p.remaining_time = q.remaining_time /\ TieBefore(p, q)

\* The comparison in the loop of each policy.
Before(p, q) ==
  CASE policy = "FCFS" -> FCFSBefore(p, q)
    [] policy = "SJF"  -> SJFBefore(p, q)
    [] policy = "STCF" -> STCFBefore(p, q)

\* Mutant: the state is not looked at.
Scan_any ==
  LET next[i \in 0 .. NumProcs] ==
        IF i = 0 THEN NULL
        ELSE IF next[i - 1] = NULL \/ Before(Readied[i], Readied[next[i - 1]])
          THEN i
          ELSE next[i - 1]
  IN  next[NumProcs]

(***************************************************************************)
(* The loop the three share: `next` after the first i elements is the      *)
(* process kept so far, replaced when a READY process goes Before it.      *)
(***************************************************************************)
Scan ==
  LET next[i \in 0 .. NumProcs] ==
        IF i = 0 THEN NULL
        ELSE IF /\ Readied[i].state = "READY"
                /\ next[i - 1] = NULL \/ Before(Readied[i], Readied[next[i - 1]])
          THEN i
          ELSE next[i - 1]
  IN  next[NumProcs]

fcfs_next_process == policy = "FCFS" /\ handle_dispatch(Scan)
sjf_next_process  == policy = "SJF" /\ handle_dispatch(Scan)
stcf_next_process == policy = "STCF" /\ handle_dispatch(Scan)

\* Mutant: an arrival one time unit shorter does not preempt.
stcf_on_arrival_reluctant ==
  /\ policy = "STCF"
  /\ arrive(/\ running_process # NULL
            /\ procs[next_arrival_idx + 1].remaining_time + 1 < procs[running_process].remaining_time)

stcf_on_arrival ==
  /\ policy = "STCF"
  /\ arrive(/\ running_process # NULL
            /\ procs[next_arrival_idx + 1].remaining_time < procs[running_process].remaining_time)

\* fcfs.c and sjf.c have no on_arrival.
arrive_unnoticed == policy \in {"FCFS", "SJF"} /\ arrive(FALSE)

\* The stages whose hooks are NULL in all three: on_init, on_tick and on_finish
NoHooks == on_init \/ policy_tick(FALSE) \/ on_finish

ScanInit == Init /\ policy \in Policies

ScanNext ==
  /\ \/ Mechanism
     \/ NoHooks
     \/ arrive_unnoticed
     \/ stcf_on_arrival
     \/ fcfs_next_process
     \/ sjf_next_process
     \/ stcf_next_process
  /\ UNCHANGED policy

ScanSpec == ScanInit /\ [][ScanNext]_<< vars, policy >> /\ WF_<< vars, policy >>(ScanNext)
-----------------------------------------------------------------------------
Ready == {p \in Procs : procs[p].state = "READY"}

\* The scan returns what the engine expects of a policy: the results of Engine hold.
ImplementsEngine == Spec

(***************************************************************************)
(* SJF never takes the CPU from a process: one that has started and not    *)
(* finished is the one that runs, for its whole burst.                     *)
(***************************************************************************)
RunsToCompletion ==
  policy = "SJF" => \A p \in Procs :
    procs[p].start_time # -1 /\ p \notin Finished =>
      /\ p = running_process
      /\ \A t \in procs[p].start_time + 1 .. Len(gantt_log) : gantt_log[t] = p

(***************************************************************************)
(* FCFS runs the processes one after the other in the order of the array,  *)
(* whatever arrives meanwhile.                                             *)
(***************************************************************************)
FirstComeFirstServed ==
  policy = "FCFS" => \A p, q \in Procs :
    p < q /\ procs[q].start_time # -1 =>
      p \in Finished /\ procs[p].finish_time <= procs[q].start_time

(***************************************************************************)
(* README.md:132.  "When processes have equal priority (same burst time,   *)
(* same arrival time), PIDs are ordered alphabetically": a process that    *)
(* gets the CPU for the first time does not go before such a process whose *)
(* name comes first.  SJF and STCF compare the whole name; FCFS takes the  *)
(* array's order, and the engine's sort looks only at the first character. *)
(***************************************************************************)
TiesAlphabetical ==
  pc = "execute" /\ running_process # NULL =>
    LET r == procs[running_process]
    IN  r.start_time = current_time =>
          \A p \in Ready :
            /\ procs[p].arrival_time = r.arrival_time
            /\ procs[p].burst_time = r.burst_time
            => ~strcmp_lt(procs[p].pid, r.pid)

TotalTurnaround == Total(NumProcs, [p \in Procs |-> procs[p].turnaround_time])

\* The CPU time of a process, and whether it counts as finished at the start of it.
Length(p) == IF procs[p].burst_time = 0 THEN 1 ELSE procs[p].burst_time
Lead(p)   == IF procs[p].burst_time = 0 THEN 1 ELSE 0

(***************************************************************************)
(* The least total turnaround of any schedule that leaves the CPU idle     *)
(* only when nobody waits, by trying every one: least[rest][left] is what  *)
(* the last `rest` time units add to it, where left is the CPU time each   *)
(* process still needs.                                                    *)
(***************************************************************************)
Waiters(t, left) == {p \in Procs : left[p] > 0 /\ procs[p].arrival_time <= t}

\* The turnaround that is settled when p is served from time t to t + 1.
Settled(p, t, left) ==
  IF left[p] = 1 THEN t + 1 - Lead(p) - procs[p].arrival_time ELSE 0

Serve(left, p) == [left EXCEPT ![p] = @ - 1]

LeastTotal ==
  LET least[rest \in 0 .. Makespan] ==
        [left \in [Procs -> Nat] |->
          LET t == Makespan - rest
          IN  IF rest = 0 THEN 0
              ELSE IF Waiters(t, left) = {} THEN least[rest - 1][left]
              ELSE Min({Settled(p, t, left) + least[rest - 1][Serve(left, p)]
                          : p \in Waiters(t, left)})]
  IN  least[Makespan][[p \in Procs |-> Length(p)]]

(***************************************************************************)
(* stcf.c:6, "This rule minimizes the average wait time": no schedule that *)
(* is idle only when nobody waits, preemptive or not, has a smaller total  *)
(* turnaround, though STCF decides without knowing what will arrive, and   *)
(* reconsiders only when a process arrives or ends.  SJF does as well when *)
(* all arrive together.                                                    *)
(***************************************************************************)
ShortestFirstIsOptimal ==
  /\ pc = "done"
  /\ \/ policy = "STCF"
     \/ policy = "SJF" /\ \A p, q \in Procs : procs[p].arrival_time = procs[q].arrival_time
  => TotalTurnaround = LeastTotal

(***************************************************************************)
(* stcf.c:36.  The CPU is always assigned to the globally shortest task,   *)
(* although a preemption is considered only against each single arrival.   *)
(***************************************************************************)
ShortestRuns ==
  pc = "execute" /\ policy = "STCF" /\ running_process # NULL =>
    \A p \in Ready : procs[running_process].remaining_time <= procs[p].remaining_time
=============================================================================
