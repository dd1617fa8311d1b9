------------------------------- MODULE Engine -------------------------------
(***************************************************************************)
(* The simulation engine, src/core/scheduler.c: run_simulation, the stages *)
(* of step_simulation in their order, and the state they share.            *)
(*                                                                         *)
(* The engine is written against an arbitrary scheduling policy.  Each     *)
(* action that calls a policy hook takes what the hook decides as a        *)
(* parameter (arrive and policy_tick: does the hook request a preemption;  *)
(* handle_dispatch: the process next_process returns), and Next lets the   *)
(* hook decide anything the policy contract allows.  A policy module       *)
(* extends this one, conjoins its own state to these actions, and has to   *)
(* show that it keeps the contract: that its specification implements Spec.*)
(*                                                                         *)
(* Process i of the model is element i - 1 of the array config.processes.  *)
(* A log entry is the index of a process, or Idle for the "-" of the code. *)
(***************************************************************************)
EXTENDS Process, Sequences, FiniteSets

CONSTANT NumProcs        \* config.num_processes

ASSUME NumProcsAssumption == NumProcs \in Nat

Procs == 1 .. NumProcs
NULL  == 0
Idle  == 0

VARIABLES
  procs,              \* config.processes
  current_time,       \* engine.current_time
  next_arrival_idx,   \* engine.next_arrival_idx: the processes 1 .. this have arrived
  running_process,    \* engine.running_process
  preempt_requested,  \* engine.preempt_requested
  context_switches,   \* metrics.context_switches
  gantt_log,          \* metrics.gantt_log, one entry per time unit
  completed,          \* the local variable of run_simulation
  pc                  \* the stage step_simulation performs next

vars == << procs, current_time, next_arrival_idx, running_process,
           preempt_requested, context_switches, gantt_log, completed, pc >>

Stages == { "init", "completion", "arrival", "tick", "dispatch", "execute",
            "finish", "done" }
-----------------------------------------------------------------------------
compare_arrival_time(p, q) ==
  IF p.arrival_time # q.arrival_time
    THEN p.arrival_time - q.arrival_time
    ELSE p.pid[1] - q.pid[1]

\* What qsort leaves: elements that compare equal are in an unspecified order.
Sorted(array) ==
  \A i, j \in Procs : i < j => compare_arrival_time(array[i], array[j]) <= 0

\* A process as the parser leaves it.
Parsed == {init_process(pid, at, bt) : pid \in Pids, at \in ArrivalTimes, bt \in BurstTimes}

\* The arrays the engine may start from, after qsort.
Workloads == {array \in [Procs -> Parsed] : Sorted(array)}

\* init_scheduler_state
Init ==
  /\ procs \in Workloads
  /\ current_time = 0
  /\ next_arrival_idx = 0
  /\ running_process = NULL
  /\ preempt_requested = FALSE
  /\ context_switches = 0
  /\ gantt_log = << >>
  /\ completed = 0
  /\ pc = "init"

\* Mutant: <= for <.
LoopHead_extra(done) == IF done <= NumProcs THEN "completion" ELSE "finish"

\* The condition of run_simulation's loop, tested between two steps.
LoopHead(done) == IF done < NumProcs THEN "completion" ELSE "finish"

\* run_simulation up to its loop
on_init ==
  /\ pc = "init"
  /\ running_process' = NULL
  /\ pc' = LoopHead(completed)
  /\ UNCHANGED << procs, current_time, next_arrival_idx, preempt_requested,
                  context_switches, gantt_log, completed >>

\* Stage 1, with the early return of step_simulation when this was the last one.
handle_completions ==
  LET finished == running_process # NULL /\ procs[running_process].remaining_time = 0
  IN  /\ pc = "completion"
      /\ IF finished
           THEN /\ procs' = [procs EXCEPT ![running_process] = process_finish(@, current_time)]
                /\ completed' = completed + 1
                /\ running_process' = NULL
           ELSE UNCHANGED << procs, completed, running_process >>
      /\ pc' = IF completed' = NumProcs THEN LoopHead(completed') ELSE "arrival"
      /\ UNCHANGED << current_time, next_arrival_idx, preempt_requested,
                      context_switches, gantt_log >>

\* Mutant: a process that arrives at this very time is left for the next one.
ArrivalDue_late ==
  /\ next_arrival_idx < NumProcs
  /\ procs[next_arrival_idx + 1].arrival_time < current_time
  /\ procs[next_arrival_idx + 1].state = "NOT_ARRIVED"

\* The condition of handle_arrivals' loop.
ArrivalDue ==
  /\ next_arrival_idx < NumProcs
  /\ procs[next_arrival_idx + 1].arrival_time <= current_time
  /\ procs[next_arrival_idx + 1].state = "NOT_ARRIVED"

\* Stage 2, one iteration; `request`: on_arrival sets preempt_requested.
arrive(request) ==
  /\ pc = "arrival"
  /\ ArrivalDue
  /\ procs' = [procs EXCEPT ![next_arrival_idx + 1] = process_ready(@)]
  /\ next_arrival_idx' = next_arrival_idx + 1
  /\ preempt_requested' = (preempt_requested \/ request)
  /\ UNCHANGED << current_time, running_process, context_switches, gantt_log,
                  completed, pc >>

arrivals_done ==
  /\ pc = "arrival"
  /\ ~ArrivalDue
  /\ pc' = "tick"
  /\ UNCHANGED << procs, current_time, next_arrival_idx, running_process,
                  preempt_requested, context_switches, gantt_log, completed >>

\* Stage 3; `request`: on_tick sets preempt_requested.
policy_tick(request) ==
  /\ pc = "tick"
  /\ running_process # NULL
  /\ preempt_requested' = (preempt_requested \/ request)
  /\ pc' = "dispatch"
  /\ UNCHANGED << procs, current_time, next_arrival_idx, running_process,
                  context_switches, gantt_log, completed >>

no_tick ==
  /\ pc = "tick"
  /\ running_process = NULL
  /\ pc' = "dispatch"
  /\ UNCHANGED << procs, current_time, next_arrival_idx, running_process,
                  preempt_requested, context_switches, gantt_log, completed >>

\* Mutant: a dispatch in every time unit.
DispatchDue_always == TRUE

DispatchDue == running_process = NULL \/ preempt_requested

\* Mutant: the preempted process keeps its state.
Readied_kept == procs

\* The array next_process sees: the process on the CPU is READY again.
Readied == IF running_process = NULL THEN procs
           ELSE [procs EXCEPT ![running_process] = process_ready(@)]

\* The array after next_process has returned `next`.
Dispatched(next) ==
  IF next = NULL THEN Readied
  ELSE [Readied EXCEPT ![next] = IF next = running_process THEN process_resume(@)
                                 ELSE process_start(@, current_time)]

\* Mutant: a switch is counted even if the preempted process is chosen again.
Switched_any(next) == running_process # NULL

\* What counts as a context switch: previous is the process on the CPU.
Switched(next) == next # running_process /\ running_process # NULL

\* Stage 4; `next`: what next_process returns.
handle_dispatch(next) ==
  /\ pc = "dispatch"
  /\ DispatchDue
  /\ procs' = Dispatched(next)
  /\ context_switches' = IF Switched(next) THEN context_switches + 1 ELSE context_switches
  /\ running_process' = next
  /\ preempt_requested' = FALSE
  /\ pc' = "execute"
  /\ UNCHANGED << current_time, next_arrival_idx, gantt_log, completed >>

keep_running ==
  /\ pc = "dispatch"
  /\ ~DispatchDue
  /\ pc' = "execute"
  /\ UNCHANGED << procs, current_time, next_arrival_idx, running_process,
                  preempt_requested, context_switches, gantt_log, completed >>

\* Mutant: idle time is not logged.
append_gantt_entry_busy(entry) ==
  gantt_log' = IF entry = Idle THEN gantt_log ELSE Append(gantt_log, entry)

append_gantt_entry(entry) == gantt_log' = Append(gantt_log, entry)

\* Mutant: the completion is not counted.
finish_instantly_uncounted ==
  /\ pc = "execute"
  /\ running_process # NULL
  /\ procs[running_process].remaining_time = 0
  /\ procs' = [procs EXCEPT ![running_process] = process_finish(@, current_time)]
  /\ running_process' = NULL
  /\ append_gantt_entry(Idle)
  /\ current_time' = current_time + 1
  /\ pc' = LoopHead(completed)
  /\ UNCHANGED << next_arrival_idx, preempt_requested, context_switches, completed >>

\* Stage 4b: a process with no work left ends at dispatch, and the time unit is logged idle.
finish_instantly ==
  /\ pc = "execute"
  /\ running_process # NULL
  /\ procs[running_process].remaining_time = 0
  /\ procs' = [procs EXCEPT ![running_process] = process_finish(@, current_time)]
  /\ completed' = completed + 1
  /\ running_process' = NULL
  /\ append_gantt_entry(Idle)
  /\ current_time' = current_time + 1
  /\ pc' = LoopHead(completed')
  /\ UNCHANGED << next_arrival_idx, preempt_requested, context_switches >>

\* Mutant: stage 4b falls through to stage 5, and the tick has lost its guard.
execute_unguarded ==
  /\ pc = "execute"
  /\ running_process # NULL
  /\ procs' = [procs EXCEPT ![running_process].remaining_time = @ - 1]
  /\ append_gantt_entry(running_process)
  /\ current_time' = current_time + 1
  /\ pc' = LoopHead(completed)
  /\ UNCHANGED << next_arrival_idx, running_process, preempt_requested,
                  context_switches, completed >>

\* Stages 5 and 6 with a process on the CPU
execute ==
  /\ pc = "execute"
  /\ running_process # NULL
  /\ procs[running_process].remaining_time # 0
  /\ procs' = [procs EXCEPT ![running_process] = process_tick(@)]
  /\ append_gantt_entry(running_process)
  /\ current_time' = current_time + 1
  /\ pc' = LoopHead(completed)
  /\ UNCHANGED << next_arrival_idx, running_process, preempt_requested,
                  context_switches, completed >>

\* Stages 5 and 6 with nothing to run
idle ==
  /\ pc = "execute"
  /\ running_process = NULL
  /\ append_gantt_entry(Idle)
  /\ current_time' = current_time + 1
  /\ pc' = LoopHead(completed)
  /\ UNCHANGED << procs, next_arrival_idx, running_process, preempt_requested,
                  context_switches, completed >>

\* policy->on_finish, after the loop
on_finish ==
  /\ pc = "finish"
  /\ pc' = "done"
  /\ UNCHANGED << procs, current_time, next_arrival_idx, running_process,
                  preempt_requested, context_switches, gantt_log, completed >>

\* run_simulation has returned.
returned == pc = "done" /\ UNCHANGED vars
-----------------------------------------------------------------------------
(***************************************************************************)
(* The policy contract: the hooks request a preemption only of a process   *)
(* that runs, and next_process returns a process that has arrived and not  *)
(* finished, or NULL when there is none.                                   *)
(***************************************************************************)
MayRequest(request) == request => running_process # NULL

Candidates == {p \in Procs : procs[p].state = "READY" \/ p = running_process}

MayReturn(next) == next \in Candidates \/ (next = NULL /\ Candidates = {})

\* The stages that call no hook
Mechanism ==
  \/ handle_completions
  \/ arrivals_done
  \/ no_tick
  \/ keep_running
  \/ finish_instantly
  \/ execute
  \/ idle
  \/ returned

Next ==
  \/ Mechanism
  \/ on_init
  \/ \E request \in BOOLEAN : MayRequest(request) /\ arrive(request)
  \/ \E request \in BOOLEAN : MayRequest(request) /\ policy_tick(request)
  \/ \E next \in Procs \cup {NULL} : MayReturn(next) /\ handle_dispatch(next)
  \/ on_finish

\* The loop of run_simulation is one thread that nothing blocks: while a step is
\* possible the program takes one.
Spec == Init /\ [][Next]_vars /\ WF_vars(Next)
-----------------------------------------------------------------------------
(***************************************************************************)
(* The structure of every reachable state.                                 *)
(***************************************************************************)
TypeOK ==
  /\ procs \in [Procs -> Process]
  /\ current_time \in Nat
  /\ next_arrival_idx \in 0 .. NumProcs
  /\ running_process \in Procs \cup {NULL}
  /\ preempt_requested \in BOOLEAN
  /\ context_switches \in Nat
  /\ gantt_log \in Seq(Procs \cup {Idle})
  /\ completed \in 0 .. NumProcs
  /\ pc \in Stages

\* The processes that have finished.
Finished == {p \in Procs : procs[p].state = "FINISHED"}

\* The time units logged for process p: entry t covers the time from t - 1 to t.
Ticks(p) == {t \in 1 .. Len(gantt_log) : gantt_log[t] = p}

(***************************************************************************)
(* handle_dispatch, handle_completions and stage 4b keep running_process   *)
(* and the process states in step: the process in state RUNNING is the one *)
(* running_process points to, whatever the policy preempts or returns.     *)
(***************************************************************************)
OneRunning ==
  \A p \in Procs : procs[p].state = "RUNNING" <=> p = running_process

(***************************************************************************)
(* handle_arrivals examines only the next element of the sorted array and  *)
(* runs once per time unit, yet no process is late: once it is over,       *)
(* every process whose arrival time has come has arrived.                  *)
(***************************************************************************)
NoLateArrival ==
  pc \in {"tick", "dispatch", "execute"} =>
    \A p \in Procs : procs[p].state = "NOT_ARRIVED" => procs[p].arrival_time > current_time

(***************************************************************************)
(* `completed`, counted at two places (stages 1 and 4b), decides when the  *)
(* loop ends: it is the number of FINISHED processes, so the loop ends     *)
(* when the last process does, not before and not never.                   *)
(***************************************************************************)
CompletedCountsFinished == completed = Cardinality(Finished)

(***************************************************************************)
(* The Gantt log against the processes: one entry per elapsed time unit;   *)
(* the CPU time a process has used (burst less remaining) is the number of *)
(* units logged for it, all between its arrival and its finish.            *)
(***************************************************************************)
LogAccountsForCPU ==
  /\ Len(gantt_log) = current_time
  /\ \A p \in Procs :
       /\ Cardinality(Ticks(p)) = procs[p].burst_time - procs[p].remaining_time
       /\ \A t \in Ticks(p) : procs[p].arrival_time < t
       /\ p \in Finished => \A t \in Ticks(p) : t <= procs[p].finish_time

\* The time units of the life of p, and those it spent waiting.
Life(p)    == procs[p].arrival_time + 1 .. procs[p].finish_time
Waiting(p) == {t \in Life(p) : gantt_log[t] # p}

(***************************************************************************)
(* What print_metrics_table reports, against the log: WT is the number of  *)
(* time units between arrival and finish in which p did not run, RT the    *)
(* delay to the first unit p ran, and RT is part of WT.                    *)
(***************************************************************************)
MetricsMatchLog ==
  \A p \in Finished :
    /\ procs[p].turnaround_time = Cardinality(Life(p))
    /\ procs[p].waiting_time = Cardinality(Waiting(p))
    /\ procs[p].response_time = Cardinality({t \in Life(p) : \A u \in Ticks(p) : t < u})

(***************************************************************************)
(* metrics.context_switches, against the log: the number of times the CPU  *)
(* went from a process that had not finished to something else.  The pause *)
(* between a dispatch and its execution is left out.                       *)
(***************************************************************************)
SwitchedAway(t) ==
  LET p == gantt_log[t]
  IN  /\ p # Idle
      /\ gantt_log[t + 1] # p
      /\ ~(p \in Finished /\ procs[p].finish_time <= t)

ContextSwitchesMatchLog ==
  pc # "execute" =>
    context_switches = Cardinality({t \in 1 .. Len(gantt_log) - 1 : SwitchedAway(t)})

(***************************************************************************)
(* The engine never leaves the CPU idle beside a READY process, so the     *)
(* time at which the simulation ends does not depend on the policy: it is  *)
(* that of running the processes one after the other in order of arrival,  *)
(* a process with burst 0 taking the one time unit stage 4b charges.       *)
(***************************************************************************)
Makespan ==
  LET end[i \in 0 .. NumProcs] ==
        IF i = 0 THEN 0
        ELSE LET p     == procs[i]
                 begin == IF end[i - 1] > p.arrival_time THEN end[i - 1] ELSE p.arrival_time
             IN  begin + (IF p.burst_time = 0 THEN 1 ELSE p.burst_time)
  IN  end[NumProcs]

MakespanIsPolicyIndependent == pc = "done" => current_time = Makespan

(***************************************************************************)
(* The loop ends: every process of every workload finishes, whatever the   *)
(* policy chooses, because each time unit that is not idle uses up work.   *)
(***************************************************************************)
Termination == <>(pc = "done")
\* A process that has used up its burst and is not FINISHED yet.
Exhausted(p) ==
  p \notin Finished /\ procs[p].burst_time > 0 /\ procs[p].remaining_time = 0

(***************************************************************************)
(* What the safety properties rest on, inductive together with them: the   *)
(* loop condition holds inside a step; the sorted array has arrived up to  *)
(* next_arrival_idx; a process has not worked before it arrives and is     *)
(* exhausted only until the next completion stage; a process with no work  *)
(* to do has the CPU only within stage 4b; and the CPU is left idle only   *)
(* when no process is READY.                                               *)
(***************************************************************************)
InStep == {"completion", "arrival", "tick", "dispatch", "execute"}

StepInLoop == pc \in InStep => completed < NumProcs

ArrivedInOrder ==
  /\ Sorted(procs)
  /\ \A p \in Procs : procs[p].state = "NOT_ARRIVED" <=> next_arrival_idx < p

WorkAccounted ==
  \A p \in Procs :
    /\ procs[p].remaining_time <= procs[p].burst_time
    /\ procs[p].state # "NOT_ARRIVED" => procs[p].arrival_time <= current_time
    /\ Exhausted(p) => pc = "completion" /\ p = running_process

CPUWellUsed ==
  /\ pc = "init" => running_process = NULL
  /\ running_process # NULL /\ pc # "execute" => procs[running_process].burst_time > 0
  /\ running_process = NULL /\ pc = "execute" =>
       \A p \in Procs : procs[p].state # "READY"

EngineInv ==
  /\ TypeOK
  /\ OneRunning
  /\ NoLateArrival
  /\ CompletedCountsFinished
  /\ StepInLoop
  /\ ArrivedInOrder
  /\ WorkAccounted
  /\ CPUWellUsed
-----------------------------------------------------------------------------
(***************************************************************************)
(* The engine implements a uniprocessor schedule.  A process that has used *)
(* up its burst has ended there at once; the engine takes note of it only  *)
(* at the next completion stage, at the same time.                         *)
(***************************************************************************)
FinishOf(p) ==
  IF p \in Finished THEN procs[p].finish_time
  ELSE IF Exhausted(p) THEN current_time
  ELSE -1

Schedule == INSTANCE Uniprocessor WITH
  arrival <- [p \in Procs |-> procs[p].arrival_time],
  burst   <- [p \in Procs |-> procs[p].burst_time],
  served  <- [p \in Procs |-> procs[p].burst_time - procs[p].remaining_time],
  finish  <- [p \in Procs |-> FinishOf(p)],
  clock   <- current_time

(***************************************************************************)
(* The stages of step_simulation, seen from outside, are the time units of *)
(* a uniprocessor: arrivals are never missed, the CPU is never shared and  *)
(* never idle beside a waiting process, each finish is recorded at the     *)
(* time the last unit of work ended, and every process does finish.        *)
(***************************************************************************)
ImplementsUniprocessor == Schedule!Spec
=============================================================================
