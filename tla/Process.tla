------------------------------ MODULE Process ------------------------------
(***************************************************************************)
(* The process record of include/process.h and the lifecycle operations of *)
(* src/core/process.c.  priority and allotment_used, which only the MLFQ   *)
(* policy reads and writes, are variables of the MLFQ module instead.      *)
(*                                                                         *)
(* A pid is a pair <<first character, rest>>: the engine's sort compares   *)
(* only the first character, the policies compare the whole name.          *)
(***************************************************************************)
EXTENDS Integers

CONSTANTS
  ArrivalTimes,   \* the arrival times a workload may use
  BurstTimes,     \* the burst times a workload may use
  Pids            \* the names a process may have

\* README.md:124 demands non-negative arrival and burst times.
ASSUME WorkloadAssumption ==
  /\ ArrivalTimes \subseteq Nat
  /\ BurstTimes \subseteq Nat
  /\ Pids \subseteq Nat \X Nat

ProcessState == {"NOT_ARRIVED", "READY", "RUNNING", "FINISHED"}

Process ==
  [ pid             : Pids,
    arrival_time    : ArrivalTimes,
    burst_time      : BurstTimes,
    remaining_time  : Nat,
    start_time      : Nat \cup {-1},
    finish_time     : Nat,
    turnaround_time : Int,
    waiting_time    : Int,
    response_time   : Int,
    state           : ProcessState ]

\* strcmp(p, q) < 0
strcmp_lt(p, q) == p[1] < q[1] \/ (p[1] = q[1] /\ p[2] < q[2])

calculate_turnaround_time(finish_time, arrival_time) == finish_time - arrival_time

calculate_waiting_time(turnaround_time, burst_time) == turnaround_time - burst_time

calculate_response_time(start_time, arrival_time) == start_time - arrival_time

init_process(pid, at, bt) ==
  [ pid             |-> pid,
    arrival_time    |-> at,
    burst_time      |-> bt,
    remaining_time  |-> bt,
    start_time      |-> -1,
    finish_time     |-> 0,
    turnaround_time |-> 0,
    waiting_time    |-> 0,
    response_time   |-> 0,
    state           |-> "NOT_ARRIVED" ]

\* p->state = STATE_READY, on arrival and when the process is preempted
process_ready(p) == [p EXCEPT !.state = "READY"]

\* Mutant: every dispatch counts as the first one.
process_start_again(p, current_time) ==
  [p EXCEPT !.start_time    = current_time,
            !.response_time = calculate_response_time(current_time, p.arrival_time),
            !.state         = "RUNNING"]

process_start(p, current_time) ==
  IF p.start_time = -1
    THEN [p EXCEPT !.start_time    = current_time,
                   !.response_time = calculate_response_time(current_time, p.arrival_time),
                   !.state         = "RUNNING"]
    ELSE [p EXCEPT !.state = "RUNNING"]

\* p->state = STATE_RUNNING, when the preempted process is chosen again
process_resume(p) == [p EXCEPT !.state = "RUNNING"]

process_tick(p) ==
  IF p.remaining_time > 0 THEN [p EXCEPT !.remaining_time = @ - 1] ELSE p

process_finish(p, current_time) ==
  LET turnaround == calculate_turnaround_time(current_time, p.arrival_time)
  IN  [p EXCEPT !.state           = "FINISHED",
                !.finish_time     = current_time,
                !.turnaround_time = turnaround,
                !.waiting_time    = calculate_waiting_time(turnaround, p.burst_time)]
=============================================================================
