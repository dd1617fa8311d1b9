---------------------------- MODULE EngineProofs ----------------------------
(***************************************************************************)
(* Theorems about the engine of Engine.tla, for every number of processes, *)
(* every workload and every policy that keeps the contract: its inductive  *)
(* invariant, that it implements Uniprocessor.tla, and what it records:    *)
(* the Gantt log, the metrics of each process, the report of Metrics.tla,  *)
(* the context switches and the time at which it ends.                     *)
(***************************************************************************)
EXTENDS Metrics, Foundations

USE DEF Procs, NULL, Idle

-----------------------------------------------------------------------------
(***************************************************************************)
(* The operations of process.c on one process: each keeps the process well *)
(* formed and leaves alone the fields it does not name.                    *)
(***************************************************************************)
SameJob(p, q) ==
  /\ q.pid = p.pid
  /\ q.arrival_time = p.arrival_time
  /\ q.burst_time = p.burst_time

\* The lifecycle field types, and the fields Process and ProcessState give them.
LEMMA ProcessFields ==
  ASSUME NEW p \in Process
  PROVE  /\ p.pid \in Nat \X Nat
         /\ p.arrival_time \in Nat
         /\ p.burst_time \in Nat
         /\ p.remaining_time \in Nat
         /\ p.finish_time \in Nat
BY WorkloadAssumption DEF Process

\* Arrival and preemption (scheduler.c:80, scheduler.c:105) only change the state.
LEMMA ReadyProcess ==
  ASSUME NEW p \in Process
  PROVE  /\ process_ready(p) \in Process
         /\ SameJob(p, process_ready(p))
         /\ process_ready(p).remaining_time = p.remaining_time
         /\ process_ready(p).finish_time = p.finish_time
         /\ process_ready(p).state = "READY"
BY DEF Process, ProcessState, process_ready, SameJob

\* process_start, and the resumption of a preempted process, lose no work.
LEMMA StartProcess ==
  ASSUME NEW p \in Process, NEW t \in Nat
  PROVE  /\ process_start(p, t) \in Process
         /\ SameJob(p, process_start(p, t))
         /\ process_start(p, t).remaining_time = p.remaining_time
         /\ process_start(p, t).finish_time = p.finish_time
         /\ process_start(p, t).state = "RUNNING"
<1>1. CASE p.start_time = -1
  <2> DEFINE response == calculate_response_time(t, p.arrival_time)
  <2>1. response \in Int
    BY ProcessFields DEF calculate_response_time
  <2>2. process_start(p, t) = [p EXCEPT !.start_time = t, !.response_time = response,
                                       !.state = "RUNNING"]
    BY <1>1 DEF process_start
  <2> HIDE DEF response
  <2> QED
    BY <2>1, <2>2 DEF Process, ProcessState, SameJob
<1>2. CASE p.start_time # -1
  BY <1>2 DEF Process, ProcessState, process_start, SameJob
<1> QED
  BY <1>1, <1>2

LEMMA ResumeProcess ==
  ASSUME NEW p \in Process
  PROVE  /\ process_resume(p) \in Process
         /\ SameJob(p, process_resume(p))
         /\ process_resume(p).remaining_time = p.remaining_time
         /\ process_resume(p).finish_time = p.finish_time
         /\ process_resume(p).state = "RUNNING"
BY DEF Process, ProcessState, process_resume, SameJob

\* process_tick takes one unit of the work that is left, and nothing from none.
LEMMA TickProcess ==
  ASSUME NEW p \in Process
  PROVE  /\ process_tick(p) \in Process
         /\ SameJob(p, process_tick(p))
         /\ p.remaining_time # 0 => process_tick(p).remaining_time = p.remaining_time - 1
         /\ process_tick(p).state = p.state
BY DEF Process, process_tick, SameJob

\* process_finish records the time it is given.
LEMMA FinishProcess ==
  ASSUME NEW p \in Process, NEW t \in Nat
  PROVE  /\ process_finish(p, t) \in Process
         /\ SameJob(p, process_finish(p, t))
         /\ process_finish(p, t).remaining_time = p.remaining_time
         /\ process_finish(p, t).finish_time = t
         /\ process_finish(p, t).state = "FINISHED"
<1> DEFINE turnaround == calculate_turnaround_time(t, p.arrival_time)
           waiting == calculate_waiting_time(turnaround, p.burst_time)
<1>1. turnaround \in Int /\ waiting \in Int
  BY ProcessFields DEF calculate_turnaround_time, calculate_waiting_time
<1>2. process_finish(p, t) = [p EXCEPT !.state = "FINISHED", !.finish_time = t,
                                     !.turnaround_time = turnaround, !.waiting_time = waiting]
  BY DEF process_finish
<1> HIDE DEF turnaround, waiting
<1> QED
  BY <1>1, <1>2 DEF Process, ProcessState, SameJob

\* A parsed process has all its work before it and has not arrived.
LEMMA ParsedProcess ==
  ASSUME NEW p \in Parsed
  PROVE  /\ p \in Process
         /\ p.remaining_time = p.burst_time
         /\ p.state = "NOT_ARRIVED"
BY WorkloadAssumption DEF Parsed, Process, ProcessState, init_process
-----------------------------------------------------------------------------
(***************************************************************************)
(* Dispatch.  The array next_process sees has no RUNNING process; the one  *)
(* it leaves has one if it returns one, the process returned, and in both  *)
(* each process is the one it was but for its state and start.             *)
(***************************************************************************)
LEMMA ReadiedProcess ==
  ASSUME TypeOK, OneRunning
  PROVE  /\ Readied \in [Procs -> Process]
         /\ \A p \in Procs :
              /\ SameJob(procs[p], Readied[p])
              /\ Readied[p].remaining_time = procs[p].remaining_time
              /\ Readied[p].finish_time = procs[p].finish_time
              /\ Readied[p].state = IF p = running_process THEN "READY" ELSE procs[p].state
<1>1. CASE running_process = NULL
  BY <1>1 DEF TypeOK, Readied, SameJob
<1>2. CASE running_process # NULL
  BY <1>2, ReadyProcess DEF TypeOK, Readied, SameJob
<1> QED
  BY <1>1, <1>2

LEMMA DispatchedProcess ==
  ASSUME TypeOK, OneRunning, NEW next \in Procs \cup {NULL}
  PROVE  /\ Dispatched(next) \in [Procs -> Process]
         /\ \A p \in Procs :
              /\ SameJob(procs[p], Dispatched(next)[p])
              /\ Dispatched(next)[p].remaining_time = procs[p].remaining_time
              /\ Dispatched(next)[p].finish_time = procs[p].finish_time
              /\ Dispatched(next)[p].state = IF p = next THEN "RUNNING"
                                             ELSE IF p = running_process THEN "READY"
                                             ELSE procs[p].state
<1>1. CASE next = NULL
  BY <1>1, ReadiedProcess DEF Dispatched
<1>2. CASE next # NULL
  <2>1. PICK q \in Process :
          /\ Dispatched(next) = [Readied EXCEPT ![next] = q]
          /\ SameJob(Readied[next], q)
          /\ q.remaining_time = Readied[next].remaining_time
          /\ q.finish_time = Readied[next].finish_time
          /\ q.state = "RUNNING"
    BY <1>2, ReadiedProcess, StartProcess, ResumeProcess DEF Dispatched, TypeOK
  <2> QED
    BY <1>2, <2>1, ReadiedProcess DEF SameJob
<1> QED
  BY <1>1, <1>2
-----------------------------------------------------------------------------
(***************************************************************************)
(* The sort key is a function of the job, so the array stays sorted, and   *)
(* it puts earlier arrivals first.                                         *)
(***************************************************************************)
LEMMA StaysSorted ==
  ASSUME Sorted(procs), \A p \in Procs : SameJob(procs[p], procs[p]')
  PROVE  Sorted(procs)'
BY DEF Sorted, SameJob, compare_arrival_time

LEMMA SortedByArrival ==
  ASSUME TypeOK, Sorted(procs), NEW i \in Procs, NEW j \in Procs, i < j
  PROVE  procs[i].arrival_time <= procs[j].arrival_time
<1>1. procs[i].arrival_time \in Nat /\ procs[j].arrival_time \in Nat
  BY ProcessFields DEF TypeOK
<1>2. compare_arrival_time(procs[i], procs[j]) <= 0
  BY DEF Sorted
<1> QED
  BY <1>1, <1>2 DEF compare_arrival_time

\* The number of FINISHED processes, when one more finishes and when none does.
LEMMA FinishedFinite == IsFiniteSet(Finished) /\ Cardinality(Finished) <= NumProcs
<1>1. IsFiniteSet(Procs) /\ Cardinality(Procs) = NumProcs
  BY FS_Interval, NumProcsAssumption
<1>2. Finished \subseteq Procs
  BY DEF Finished
<1> QED
  BY <1>1, <1>2, FS_Subset

LEMMA OneMoreFinished ==
  ASSUME NEW r \in Procs,
         procs[r].state # "FINISHED", procs[r]'.state = "FINISHED",
         \A p \in Procs \ {r} : procs[p]'.state = procs[p].state
  PROVE  Cardinality(Finished)' = Cardinality(Finished) + 1
<1>1. Finished' = Finished \cup {r} /\ r \notin Finished
  BY DEF Finished
<1>2. Cardinality(Finished \cup {r}) = Cardinality(Finished) + 1
  BY <1>1, FinishedFinite, FS_AddElement
<1> QED
  BY <1>1, <1>2

LEMMA AllFinished ==
  ASSUME CompletedCountsFinished, completed = NumProcs
  PROVE  Finished = Procs
<1>1. IsFiniteSet(Procs) /\ Cardinality(Procs) = NumProcs
  BY FS_Interval, NumProcsAssumption
<1>2. Finished \in SUBSET Procs /\ Cardinality(Finished) = NumProcs
  BY DEF Finished, CompletedCountsFinished
<1> QED
  BY <1>1, <1>2, FS_Subset

LEMMA NoneFinished ==
  ASSUME \A p \in Procs : procs[p]'.state = "FINISHED" <=> procs[p].state = "FINISHED"
  PROVE  Finished' = Finished
BY DEF Finished
-----------------------------------------------------------------------------
(***************************************************************************)
(* The invariant.                                                          *)
(***************************************************************************)
LEMMA EngineInit == Init => EngineInv
<1> SUFFICES ASSUME Init PROVE EngineInv
  OBVIOUS
<1>1. \A p \in Procs : /\ procs[p] \in Process
                       /\ procs[p].remaining_time = procs[p].burst_time
                       /\ procs[p].state = "NOT_ARRIVED"
  BY ParsedProcess DEF Init, Workloads
<1>2. TypeOK
  <2>1. procs \in [Procs -> Process]
    BY <1>1 DEF Init, Workloads
  <2>2. preempt_requested \in BOOLEAN
    BY Zenon DEF Init
  <2>3. gantt_log \in Seq(Procs \cup {Idle})
    BY DEF Init
  <2>4. /\ current_time \in Nat /\ next_arrival_idx \in 0 .. NumProcs
        /\ running_process \in Procs \cup {NULL} /\ context_switches \in Nat
        /\ completed \in 0 .. NumProcs /\ pc \in Stages
    BY NumProcsAssumption DEF Init, Stages
  <2> QED
    BY <2>1, <2>2, <2>3, <2>4 DEF TypeOK
<1>3. OneRunning
  BY <1>1 DEF Init, OneRunning
<1>4. CompletedCountsFinished
  <2>1. Finished = {}
    BY <1>1 DEF Finished
  <2> QED
    BY <2>1, FS_EmptySet DEF Init, CompletedCountsFinished
<1>5. NoLateArrival /\ StepInLoop
  BY DEF Init, NoLateArrival, StepInLoop, InStep
<1>6. ArrivedInOrder
  BY <1>1 DEF Init, Workloads, ArrivedInOrder
<1>7. WorkAccounted
  <2> SUFFICES ASSUME NEW p \in Procs
               PROVE  /\ procs[p].remaining_time <= procs[p].burst_time
                      /\ procs[p].state = "NOT_ARRIVED"
                      /\ ~Exhausted(p)
    BY DEF WorkAccounted
  <2>1. procs[p].burst_time \in Nat
    BY <1>1, ProcessFields
  <2> QED
    BY <1>1, <2>1 DEF Exhausted
<1>8. CPUWellUsed
  BY DEF Init, CPUWellUsed
<1> QED
  BY <1>2, <1>3, <1>4, <1>5, <1>6, <1>7, <1>8 DEF EngineInv

\* Stage 1 (scheduler.c:62)
LEMMA CompletionStep == EngineInv /\ handle_completions => EngineInv'
<1> SUFFICES ASSUME EngineInv, handle_completions PROVE EngineInv'
  OBVIOUS
<1> USE DEF EngineInv
<1> DEFINE r == running_process
           finished == r # NULL /\ procs[r].remaining_time = 0
<1>0. /\ pc = "completion"
      /\ pc' = IF completed' = NumProcs THEN LoopHead(completed') ELSE "arrival"
      /\ UNCHANGED << current_time, next_arrival_idx, preempt_requested, context_switches,
                      gantt_log >>
      /\ completed \in Nat /\ completed < NumProcs
  BY DEF handle_completions, StepInLoop, InStep, TypeOK
<1>1. CASE finished
  <2>1. r \in Procs /\ procs[r].state = "RUNNING" /\ procs[r] \in Process /\ current_time \in Nat
    BY <1>1 DEF TypeOK, OneRunning
  <2>2. PICK q \in Process :
          /\ procs' = [procs EXCEPT ![r] = q]
          /\ SameJob(procs[r], q)
          /\ q.remaining_time = procs[r].remaining_time
          /\ q.state = "FINISHED"
    BY <1>1, <2>1, FinishProcess DEF handle_completions
  <2>3. completed' = completed + 1 /\ running_process' = NULL
    BY <1>1 DEF handle_completions
  <2>4. /\ procs' \in [Procs -> Process]
        /\ \A p \in Procs : SameJob(procs[p], procs'[p])
        /\ \A p \in Procs : procs'[p].remaining_time = procs[p].remaining_time
        /\ \A p \in Procs : procs'[p].state = IF p = r THEN "FINISHED" ELSE procs[p].state
    BY <2>1, <2>2 DEF TypeOK, SameJob
  <2>5. TypeOK'
    BY <1>0, <2>3, <2>4, NumProcsAssumption DEF TypeOK, LoopHead, Stages
  <2>6. OneRunning'
    BY <2>3, <2>4 DEF OneRunning
  <2>7. NoLateArrival' /\ StepInLoop'
    BY <1>0, <2>3, NumProcsAssumption DEF NoLateArrival, StepInLoop, InStep, LoopHead
  <2>8. CompletedCountsFinished'
    BY <2>1, <2>3, <2>4, OneMoreFinished DEF CompletedCountsFinished
  <2>9. ArrivedInOrder'
    BY <1>0, <2>1, <2>4, StaysSorted DEF ArrivedInOrder
  <2>10. WorkAccounted'
    BY <1>0, <2>1, <2>4 DEF WorkAccounted, Exhausted, Finished, SameJob
  <2>11. CPUWellUsed'
    BY <1>0, <2>3 DEF CPUWellUsed, LoopHead
  <2> QED
    BY <2>5, <2>6, <2>7, <2>8, <2>9, <2>10, <2>11
<1>2. CASE ~finished
  <2>1. UNCHANGED << procs, completed, running_process >> /\ pc' = "arrival"
    BY <1>0, <1>2 DEF handle_completions
  <2>2. TypeOK' /\ OneRunning' /\ NoLateArrival' /\ StepInLoop' /\ ArrivedInOrder'
    BY <1>0, <2>1 DEF TypeOK, OneRunning, NoLateArrival, StepInLoop, InStep, ArrivedInOrder,
       Sorted, Stages
  <2>3. CompletedCountsFinished'
    BY <2>1 DEF CompletedCountsFinished, Finished
  <2>4. WorkAccounted'
    BY <1>0, <1>2, <2>1 DEF WorkAccounted, Exhausted, Finished, TypeOK
  <2>5. CPUWellUsed'
    BY <1>0, <2>1 DEF CPUWellUsed
  <2> QED
    BY <2>2, <2>3, <2>4, <2>5
<1> QED
  BY <1>1, <1>2

\* Stage 2 (scheduler.c:77)
LEMMA ArrivalStep == EngineInv /\ (\E request \in BOOLEAN : arrive(request)) => EngineInv'
<1> SUFFICES ASSUME EngineInv, NEW request \in BOOLEAN, arrive(request) PROVE EngineInv'
  OBVIOUS
<1> USE DEF EngineInv
<1> DEFINE a == next_arrival_idx + 1
<1>1. /\ pc = "arrival" /\ pc' = pc
      /\ next_arrival_idx \in Nat /\ next_arrival_idx' = a
      /\ a \in Procs /\ procs[a] \in Process
      /\ procs[a].state = "NOT_ARRIVED" /\ procs[a].arrival_time <= current_time
      /\ procs' = [procs EXCEPT ![a] = process_ready(procs[a])]
      /\ preempt_requested' \in BOOLEAN
      /\ UNCHANGED << current_time, running_process, context_switches, gantt_log, completed >>
  BY NumProcsAssumption DEF arrive, ArrivalDue, TypeOK
<1>2. /\ procs' \in [Procs -> Process]
      /\ \A p \in Procs : SameJob(procs[p], procs'[p])
      /\ \A p \in Procs : procs'[p].remaining_time = procs[p].remaining_time
      /\ \A p \in Procs : procs'[p].state = IF p = a THEN "READY" ELSE procs[p].state
  BY <1>1, ReadyProcess DEF TypeOK, SameJob
<1>3. TypeOK'
  BY <1>1, <1>2, NumProcsAssumption DEF TypeOK
<1>4. OneRunning'
  BY <1>1, <1>2 DEF OneRunning
<1>5. NoLateArrival' /\ StepInLoop'
  BY <1>1 DEF NoLateArrival, StepInLoop
<1>6. CompletedCountsFinished'
  BY <1>1, <1>2, NoneFinished DEF CompletedCountsFinished
<1>7. ArrivedInOrder'
  BY <1>1, <1>2, StaysSorted DEF ArrivedInOrder
<1>8. WorkAccounted'
  BY <1>1, <1>2 DEF WorkAccounted, Exhausted, Finished, SameJob
<1>9. CPUWellUsed'
  BY <1>1, <1>2 DEF CPUWellUsed, SameJob, TypeOK
<1> QED
  BY <1>3, <1>4, <1>5, <1>6, <1>7, <1>8, <1>9

\* The end of stage 2: by the sort, the first process that has not arrived is the
\* earliest of them, so if it is not due none is.
LEMMA ArrivalsDoneStep == EngineInv /\ arrivals_done => EngineInv'
<1> SUFFICES ASSUME EngineInv, arrivals_done PROVE EngineInv'
  OBVIOUS
<1> USE DEF EngineInv
<1>1. /\ pc = "arrival" /\ pc' = "tick" /\ ~ArrivalDue
      /\ UNCHANGED << procs, current_time, next_arrival_idx, running_process,
                      preempt_requested, context_switches, gantt_log, completed >>
  BY DEF arrivals_done
<1>2. NoLateArrival'
  <2> SUFFICES ASSUME NEW p \in Procs, procs[p].state = "NOT_ARRIVED"
               PROVE  procs[p].arrival_time > current_time
    BY <1>1 DEF NoLateArrival
  <2> DEFINE a == next_arrival_idx + 1
  <2>1. next_arrival_idx \in Nat /\ next_arrival_idx < p
    BY DEF ArrivedInOrder, TypeOK
  <2>2. a \in Procs /\ a <= p /\ procs[a].state = "NOT_ARRIVED"
    BY <2>1, NumProcsAssumption DEF ArrivedInOrder
  <2>3. procs[a].arrival_time \in Nat /\ procs[p].arrival_time \in Nat /\ current_time \in Nat
    BY <2>2, ProcessFields DEF TypeOK
  <2>4. procs[a].arrival_time > current_time
    BY <1>1, <2>1, <2>2, <2>3, NumProcsAssumption DEF ArrivalDue
  <2>5. procs[a].arrival_time <= procs[p].arrival_time
    BY <2>2, <2>3, SortedByArrival DEF ArrivedInOrder
  <2> QED
    BY <2>3, <2>4, <2>5
<1>3. TypeOK' /\ OneRunning' /\ StepInLoop' /\ ArrivedInOrder'
  BY <1>1 DEF TypeOK, OneRunning, StepInLoop, InStep, ArrivedInOrder, Sorted, Stages
<1>4. CompletedCountsFinished'
  BY <1>1 DEF CompletedCountsFinished, Finished
<1>5. WorkAccounted' /\ CPUWellUsed'
  BY <1>1 DEF WorkAccounted, CPUWellUsed, Exhausted, Finished
<1> QED
  BY <1>2, <1>3, <1>4, <1>5

\* Stage 3 (scheduler.c:140)
LEMMA TickStep ==
  EngineInv /\ ((\E request \in BOOLEAN : policy_tick(request)) \/ no_tick) => EngineInv'
<1> SUFFICES ASSUME EngineInv, (\E request \in BOOLEAN : policy_tick(request)) \/ no_tick
             PROVE  EngineInv'
  OBVIOUS
<1> USE DEF EngineInv
<1>1. /\ pc = "tick" /\ pc' = "dispatch"
      /\ preempt_requested' \in BOOLEAN
      /\ UNCHANGED << procs, current_time, next_arrival_idx, running_process,
                      context_switches, gantt_log, completed >>
  BY DEF policy_tick, no_tick, TypeOK
<1>2. TypeOK' /\ OneRunning' /\ NoLateArrival' /\ StepInLoop' /\ ArrivedInOrder'
  BY <1>1 DEF TypeOK, OneRunning, NoLateArrival, StepInLoop, InStep, ArrivedInOrder,
     Sorted, Stages
<1>3. CompletedCountsFinished'
  BY <1>1 DEF CompletedCountsFinished, Finished
<1>4. WorkAccounted' /\ CPUWellUsed'
  BY <1>1 DEF WorkAccounted, CPUWellUsed, Exhausted, Finished
<1> QED
  BY <1>2, <1>3, <1>4

\* Stage 4 (scheduler.c:102), with a policy that keeps the contract
LEMMA DispatchStep ==
  EngineInv /\ (\E next \in Procs \cup {NULL} : MayReturn(next) /\ handle_dispatch(next))
    => EngineInv'
<1> SUFFICES ASSUME EngineInv, NEW next \in Procs \cup {NULL}, MayReturn(next),
                    handle_dispatch(next)
             PROVE  EngineInv'
  OBVIOUS
<1> USE DEF EngineInv
<1>1. /\ pc = "dispatch" /\ pc' = "execute"
      /\ procs' = Dispatched(next)
      /\ running_process' = next /\ preempt_requested' = FALSE
      /\ context_switches' \in {context_switches, context_switches + 1}
      /\ UNCHANGED << current_time, next_arrival_idx, gantt_log, completed >>
  BY DEF handle_dispatch
<1>2. /\ procs' \in [Procs -> Process]
      /\ \A p \in Procs : SameJob(procs[p], procs'[p])
      /\ \A p \in Procs : procs'[p].remaining_time = procs[p].remaining_time
      /\ \A p \in Procs : procs'[p].state = IF p = next THEN "RUNNING"
                                            ELSE IF p = running_process THEN "READY"
                                            ELSE procs[p].state
  BY <1>1, DispatchedProcess
<1>3. \A p \in Procs : /\ p = next \/ p = running_process => procs[p].state \in {"READY", "RUNNING"}
                       /\ p = running_process => procs[p].state = "RUNNING"
  BY DEF MayReturn, Candidates, OneRunning
<1>4. TypeOK'
  <2>1. context_switches' \in Nat
    BY <1>1 DEF TypeOK
  <2>2. preempt_requested' \in BOOLEAN
    BY <1>1, Zenon
  <2>3. running_process' \in Procs \cup {NULL} /\ pc' \in Stages
    BY <1>1 DEF Stages
  <2> QED
    BY <1>1, <1>2, <2>1, <2>2, <2>3 DEF TypeOK
<1>5. OneRunning'
  BY <1>1, <1>2, <1>3 DEF OneRunning
<1>6. NoLateArrival' /\ StepInLoop'
  BY <1>1, <1>2, <1>3 DEF NoLateArrival, StepInLoop, InStep, SameJob
<1>7. CompletedCountsFinished'
  BY <1>1, <1>2, <1>3, NoneFinished DEF CompletedCountsFinished
<1>8. ArrivedInOrder'
  BY <1>1, <1>2, <1>3, StaysSorted DEF ArrivedInOrder
<1>9. WorkAccounted'
  BY <1>1, <1>2, <1>3 DEF WorkAccounted, Exhausted, Finished, SameJob
<1>10. CPUWellUsed'
  BY <1>1, <1>2, <1>3 DEF CPUWellUsed, MayReturn, Candidates
<1> QED
  BY <1>4, <1>5, <1>6, <1>7, <1>8, <1>9, <1>10

LEMMA KeepRunningStep == EngineInv /\ keep_running => EngineInv'
<1> SUFFICES ASSUME EngineInv, keep_running PROVE EngineInv'
  OBVIOUS
<1> USE DEF EngineInv
<1>1. /\ pc = "dispatch" /\ pc' = "execute" /\ running_process # NULL
      /\ UNCHANGED << procs, current_time, next_arrival_idx, running_process,
                      preempt_requested, context_switches, gantt_log, completed >>
  BY DEF keep_running, DispatchDue
<1>2. TypeOK' /\ OneRunning' /\ NoLateArrival' /\ StepInLoop' /\ ArrivedInOrder'
  BY <1>1 DEF TypeOK, OneRunning, NoLateArrival, StepInLoop, InStep, ArrivedInOrder,
     Sorted, Stages
<1>3. CompletedCountsFinished'
  BY <1>1 DEF CompletedCountsFinished, Finished
<1>4. WorkAccounted' /\ CPUWellUsed'
  BY <1>1 DEF WorkAccounted, CPUWellUsed, Exhausted, Finished
<1> QED
  BY <1>2, <1>3, <1>4

\* Stage 4b (scheduler.c:147)
LEMMA FinishInstantlyStep == EngineInv /\ finish_instantly => EngineInv'
<1> SUFFICES ASSUME EngineInv, finish_instantly PROVE EngineInv'
  OBVIOUS
<1> USE DEF EngineInv
<1> DEFINE r == running_process
<1>1. /\ pc = "execute" /\ pc' = LoopHead(completed')
      /\ r \in Procs /\ procs[r] \in Process /\ procs[r].state = "RUNNING"
      /\ completed \in Nat /\ completed < NumProcs /\ completed' = completed + 1
      /\ running_process' = NULL
      /\ gantt_log' = Append(gantt_log, Idle)
      /\ current_time \in Nat /\ current_time' = current_time + 1
      /\ UNCHANGED << next_arrival_idx, preempt_requested, context_switches >>
  BY DEF finish_instantly, append_gantt_entry, TypeOK, OneRunning, StepInLoop, InStep
<1>2. PICK q \in Process : /\ procs' = [procs EXCEPT ![r] = q]
                           /\ SameJob(procs[r], q)
                           /\ q.remaining_time = procs[r].remaining_time
                           /\ q.state = "FINISHED"
  BY <1>1, FinishProcess DEF finish_instantly
<1>3. /\ procs' \in [Procs -> Process]
      /\ \A p \in Procs : SameJob(procs[p], procs'[p])
      /\ \A p \in Procs : procs'[p].remaining_time = procs[p].remaining_time
      /\ \A p \in Procs : procs'[p].state = IF p = r THEN "FINISHED" ELSE procs[p].state
  BY <1>1, <1>2 DEF TypeOK, SameJob
<1>4. TypeOK'
  BY <1>1, <1>3, NumProcsAssumption DEF TypeOK, LoopHead, Stages
<1>5. OneRunning'
  BY <1>1, <1>3 DEF OneRunning
<1>6. NoLateArrival' /\ StepInLoop'
  BY <1>1, NumProcsAssumption DEF NoLateArrival, StepInLoop, InStep, LoopHead
<1>7. CompletedCountsFinished'
  BY <1>1, <1>3, OneMoreFinished DEF CompletedCountsFinished
<1>8. ArrivedInOrder'
  BY <1>1, <1>3, StaysSorted DEF ArrivedInOrder
<1>9. WorkAccounted'
  <2> SUFFICES ASSUME NEW p \in Procs
               PROVE  /\ procs'[p].remaining_time <= procs'[p].burst_time
                      /\ procs'[p].state # "NOT_ARRIVED" => procs'[p].arrival_time <= current_time'
                      /\ ~Exhausted(p)'
    BY DEF WorkAccounted
  <2>1. procs[p].arrival_time \in Nat
    BY ProcessFields DEF TypeOK
  <2> QED
    BY <1>1, <1>3, <2>1 DEF WorkAccounted, Exhausted, Finished, SameJob
<1>10. CPUWellUsed'
  BY <1>1 DEF CPUWellUsed, LoopHead
<1> QED
  BY <1>4, <1>5, <1>6, <1>7, <1>8, <1>9, <1>10

\* Stages 5 and 6 (scheduler.c:158)
LEMMA ExecuteStep == EngineInv /\ execute => EngineInv'
<1> SUFFICES ASSUME EngineInv, execute PROVE EngineInv'
  OBVIOUS
<1> USE DEF EngineInv
<1> DEFINE r == running_process
<1>1. /\ pc = "execute" /\ pc' = "completion"
      /\ r \in Procs /\ procs[r] \in Process /\ procs[r].state = "RUNNING"
      /\ procs[r].remaining_time # 0
      /\ procs' = [procs EXCEPT ![r] = process_tick(procs[r])]
      /\ gantt_log' = Append(gantt_log, r)
      /\ current_time \in Nat /\ current_time' = current_time + 1
      /\ UNCHANGED << next_arrival_idx, running_process, preempt_requested, context_switches,
                      completed >>
  BY DEF execute, append_gantt_entry, TypeOK, OneRunning, StepInLoop, InStep, LoopHead
<1>2. /\ procs' \in [Procs -> Process]
      /\ \A p \in Procs : SameJob(procs[p], procs'[p])
      /\ \A p \in Procs : procs'[p].state = procs[p].state
      /\ \A p \in Procs : procs'[p].remaining_time = IF p = r THEN procs[p].remaining_time - 1
                                                     ELSE procs[p].remaining_time
  BY <1>1, TickProcess DEF TypeOK, SameJob
<1>3. TypeOK'
  BY <1>1, <1>2 DEF TypeOK, Stages
<1>4. OneRunning'
  BY <1>1, <1>2 DEF OneRunning
<1>5. NoLateArrival' /\ StepInLoop'
  BY <1>1 DEF NoLateArrival, StepInLoop, InStep
<1>6. CompletedCountsFinished'
  BY <1>1, <1>2, NoneFinished DEF CompletedCountsFinished
<1>7. ArrivedInOrder'
  BY <1>1, <1>2, StaysSorted DEF ArrivedInOrder
<1>8. WorkAccounted'
  <2> SUFFICES ASSUME NEW p \in Procs
               PROVE  /\ procs'[p].remaining_time <= procs'[p].burst_time
                      /\ procs'[p].state # "NOT_ARRIVED" => procs'[p].arrival_time <= current_time'
                      /\ Exhausted(p)' => p = r
    BY <1>1 DEF WorkAccounted
  <2>1. /\ procs[p].arrival_time \in Nat
        /\ procs[p].burst_time \in Nat
        /\ procs[p].remaining_time \in Nat
    BY ProcessFields DEF TypeOK
  <2> QED
    BY <1>1, <1>2, <2>1 DEF WorkAccounted, Exhausted, Finished, SameJob
<1>9. CPUWellUsed'
  <2>1. procs[r].remaining_time \in Nat /\ procs[r].burst_time \in Nat
    BY <1>1, ProcessFields
  <2> QED
    BY <1>1, <1>2, <2>1 DEF CPUWellUsed, WorkAccounted, SameJob
<1> QED
  BY <1>3, <1>4, <1>5, <1>6, <1>7, <1>8, <1>9

LEMMA IdleStep == EngineInv /\ idle => EngineInv'
<1> SUFFICES ASSUME EngineInv, idle PROVE EngineInv'
  OBVIOUS
<1> USE DEF EngineInv
<1>1. /\ pc = "execute" /\ pc' = "completion" /\ running_process = NULL
      /\ gantt_log' = Append(gantt_log, Idle)
      /\ current_time \in Nat /\ current_time' = current_time + 1
      /\ UNCHANGED << procs, next_arrival_idx, running_process, preempt_requested,
                      context_switches, completed >>
  BY DEF idle, append_gantt_entry, TypeOK, StepInLoop, InStep, LoopHead
<1>2. TypeOK' /\ OneRunning' /\ NoLateArrival' /\ StepInLoop' /\ ArrivedInOrder'
  BY <1>1 DEF TypeOK, OneRunning, NoLateArrival, StepInLoop, InStep, ArrivedInOrder,
     Sorted, Stages
<1>3. CompletedCountsFinished'
  BY <1>1 DEF CompletedCountsFinished, Finished
<1>4. WorkAccounted'
  <2> SUFFICES ASSUME NEW p \in Procs
               PROVE  /\ procs[p].remaining_time <= procs[p].burst_time
                      /\ procs[p].state # "NOT_ARRIVED" => procs[p].arrival_time <= current_time'
                      /\ ~Exhausted(p)
    BY <1>1 DEF WorkAccounted, Exhausted, Finished
  <2>1. procs[p].arrival_time \in Nat
    BY ProcessFields DEF TypeOK
  <2> QED
    BY <1>1, <2>1 DEF WorkAccounted
<1>5. CPUWellUsed'
  BY <1>1 DEF CPUWellUsed
<1> QED
  BY <1>2, <1>3, <1>4, <1>5

\* Before and after the loop of run_simulation
LEMMA OutsideLoopStep == EngineInv /\ (on_init \/ on_finish \/ UNCHANGED vars) => EngineInv'
<1> SUFFICES ASSUME EngineInv, on_init \/ on_finish \/ UNCHANGED vars PROVE EngineInv'
  OBVIOUS
<1> USE DEF EngineInv
<1>1. CASE UNCHANGED vars
  BY <1>1 DEF vars, TypeOK, OneRunning, NoLateArrival, CompletedCountsFinished, Finished,
     StepInLoop, InStep, ArrivedInOrder, Sorted, WorkAccounted, Exhausted, CPUWellUsed
<1>2. CASE on_init \/ on_finish
  <2>1. /\ pc' \in {"completion", "finish", "done"}
        /\ pc' = "completion" => completed < NumProcs
        /\ pc \in {"init", "finish"}
        /\ UNCHANGED << procs, current_time, next_arrival_idx, running_process,
                        preempt_requested, context_switches, gantt_log, completed >>
    BY <1>2 DEF on_init, on_finish, LoopHead, CPUWellUsed
  <2>2. TypeOK' /\ OneRunning' /\ NoLateArrival' /\ StepInLoop' /\ ArrivedInOrder'
    BY <2>1 DEF TypeOK, OneRunning, NoLateArrival, StepInLoop, InStep, ArrivedInOrder,
       Sorted, Stages
  <2>3. CompletedCountsFinished'
    BY <2>1 DEF CompletedCountsFinished, Finished
  <2>4. WorkAccounted' /\ CPUWellUsed'
    BY <2>1 DEF WorkAccounted, CPUWellUsed, Exhausted, Finished
  <2> QED
    BY <2>2, <2>3, <2>4
<1> QED
  BY <1>1, <1>2

LEMMA EngineStep == EngineInv /\ [Next]_vars => EngineInv'
BY CompletionStep, ArrivalStep, ArrivalsDoneStep, TickStep, DispatchStep, KeepRunningStep,
   FinishInstantlyStep, ExecuteStep, IdleStep, OutsideLoopStep
   DEF Next, Mechanism, returned

\* Where the loop may end: only when all have completed.
LEMMA AfterTheLoop ==
  ASSUME EngineInv, Next, pc \in {"finish", "done"} => completed = NumProcs
  PROVE  /\ pc' # "init"
         /\ pc' \in {"finish", "done"} => completed' = NumProcs
<1>1. completed \in 0 .. NumProcs /\ completed' \in 0 .. NumProcs /\ pc \in Stages
  BY EngineStep DEF EngineInv, TypeOK
<1>2. CASE on_init \/ handle_completions \/ finish_instantly \/ execute \/ idle
  BY <1>1, <1>2, NumProcsAssumption
     DEF on_init, handle_completions, finish_instantly, execute, idle, LoopHead
<1>3. CASE \/ arrivals_done \/ no_tick \/ keep_running
           \/ \E request \in BOOLEAN : arrive(request)
           \/ \E request \in BOOLEAN : policy_tick(request)
           \/ \E next \in Procs \cup {NULL} : handle_dispatch(next)
  BY <1>3 DEF arrivals_done, no_tick, keep_running, arrive, policy_tick, handle_dispatch
<1>4. CASE on_finish \/ returned
  BY <1>4 DEF on_finish, returned, vars
<1> QED
  BY <1>2, <1>3, <1>4 DEF Next, Mechanism

(***************************************************************************)
(* Everything the safety theorems rest on holds of every simulation.       *)
(***************************************************************************)
THEOREM EngineInvariant == Spec => []EngineInv
BY EngineInit, EngineStep, PTL DEF Spec

(***************************************************************************)
(* Every state is well formed: no index or counter leaves its range, no    *)
(* work becomes negative.                                                  *)
(***************************************************************************)
THEOREM TypeCorrect == Spec => []TypeOK
<1>1. EngineInv => TypeOK
  BY DEF EngineInv
<1> QED
  BY <1>1, EngineInvariant, PTL

(***************************************************************************)
(* The process states agree with running_process: the CPU has one process. *)
(***************************************************************************)
THEOREM OneProcessRuns == Spec => []OneRunning
<1>1. EngineInv => OneRunning
  BY DEF EngineInv
<1> QED
  BY <1>1, EngineInvariant, PTL

(***************************************************************************)
(* Looking only at the next element of the sorted array misses no arrival. *)
(***************************************************************************)
THEOREM ArrivalsOnTime == Spec => []NoLateArrival
<1>1. EngineInv => NoLateArrival
  BY DEF EngineInv
<1> QED
  BY <1>1, EngineInvariant, PTL

(***************************************************************************)
(* The counter that ends the loop counts the FINISHED processes.           *)
(***************************************************************************)
THEOREM CompletedIsExact == Spec => []CompletedCountsFinished
<1>1. EngineInv => CompletedCountsFinished
  BY DEF EngineInv
<1> QED
  BY <1>1, EngineInvariant, PTL
-----------------------------------------------------------------------------
(***************************************************************************)
(* Every behaviour of the engine is a schedule of Uniprocessor.tla.  (That *)
(* the schedule goes on, the fairness of Uniprocessor, is checked on the   *)
(* small instances only.)                                                  *)
(***************************************************************************)
\* What a stage between two executions leaves alone, seen from the schedule.
LEMMA StutterStep ==
  ASSUME procs \in [Procs -> Process], procs' \in [Procs -> Process],
         current_time' = current_time,
         \A p \in Procs : /\ SameJob(procs[p], procs'[p])
                          /\ procs'[p].remaining_time = procs[p].remaining_time
                          /\ FinishOf(p)' = FinishOf(p)
  PROVE  UNCHANGED Schedule!vars
BY DEF Schedule!vars, SameJob

\* No stage but the completion stage and the executions ends a process.
LEMMA FinishUnchanged ==
  ASSUME current_time' = current_time, NEW p \in Procs,
         SameJob(procs[p], procs'[p]),
         procs'[p].remaining_time = procs[p].remaining_time,
         procs'[p].finish_time = procs[p].finish_time,
         procs'[p].state = "FINISHED" <=> procs[p].state = "FINISHED"
  PROVE  FinishOf(p)' = FinishOf(p)
BY DEF FinishOf, Exhausted, Finished, SameJob

\* Before anything happens there is a clock at 0, and nobody has been served.
LEMMA ScheduleInit == Init => Schedule!Init
<1> SUFFICES ASSUME Init PROVE Schedule!Init
  OBVIOUS
<1>1. \A p \in Procs : /\ procs[p] \in Process
                       /\ procs[p].remaining_time = procs[p].burst_time
                       /\ procs[p].state = "NOT_ARRIVED"
  BY ParsedProcess DEF Init, Workloads
<1>2. \A p \in Procs : /\ procs[p].arrival_time \in Nat
                       /\ procs[p].burst_time \in Nat
                       /\ procs[p].burst_time - procs[p].remaining_time = 0
                       /\ FinishOf(p) = -1
  BY <1>1, ProcessFields DEF FinishOf, Exhausted, Finished
<1> QED
  BY <1>2 DEF Init, Schedule!Init

\* Stage 1: the process that ended in the last time unit is recorded as of now.
LEMMA CompletionStutters == EngineInv /\ handle_completions => UNCHANGED Schedule!vars
<1> SUFFICES ASSUME EngineInv, handle_completions PROVE UNCHANGED Schedule!vars
  OBVIOUS
<1> DEFINE r == running_process
<1>1. /\ pc = "completion" /\ current_time' = current_time /\ current_time \in Nat
      /\ procs \in [Procs -> Process]
  BY DEF handle_completions, EngineInv, TypeOK
<1>2. CASE r # NULL /\ procs[r].remaining_time = 0
  <2>1. /\ r \in Procs /\ procs[r] \in Process /\ procs[r].state = "RUNNING"
        /\ procs[r].burst_time > 0
    BY <1>1, <1>2 DEF EngineInv, TypeOK, OneRunning, CPUWellUsed
  <2>2. PICK q \in Process : /\ procs' = [procs EXCEPT ![r] = q]
                             /\ SameJob(procs[r], q)
                             /\ q.remaining_time = procs[r].remaining_time
                             /\ q.finish_time = current_time
                             /\ q.state = "FINISHED"
    BY <1>1, <1>2, <2>1, FinishProcess DEF handle_completions
  <2>3. /\ procs' \in [Procs -> Process]
        /\ \A p \in Procs : /\ SameJob(procs[p], procs'[p])
                            /\ procs'[p].remaining_time = procs[p].remaining_time
    BY <1>1, <2>1, <2>2 DEF SameJob
  <2>4. ASSUME NEW p \in Procs PROVE FinishOf(p)' = FinishOf(p)
    <3>1. CASE p = r
      BY <1>1, <1>2, <2>1, <2>2, <3>1 DEF FinishOf, Exhausted, Finished
    <3>2. CASE p # r
      BY <1>1, <2>2, <2>3, <3>2, FinishUnchanged
    <3> QED
      BY <3>1, <3>2
  <2> QED
    BY <1>1, <2>3, <2>4, StutterStep
<1>3. CASE ~(r # NULL /\ procs[r].remaining_time = 0)
  BY <1>1, <1>3 DEF handle_completions, Schedule!vars, FinishOf, Exhausted, Finished
<1> QED
  BY <1>2, <1>3

LEMMA ArrivalStutters ==
  EngineInv /\ (\E request \in BOOLEAN : arrive(request)) => UNCHANGED Schedule!vars
<1> SUFFICES ASSUME EngineInv, NEW request \in BOOLEAN, arrive(request)
             PROVE  UNCHANGED Schedule!vars
  OBVIOUS
<1> DEFINE a == next_arrival_idx + 1
<1>1. /\ a \in Procs /\ procs[a] \in Process /\ procs[a].state = "NOT_ARRIVED"
      /\ procs' = [procs EXCEPT ![a] = process_ready(procs[a])]
      /\ current_time' = current_time /\ procs \in [Procs -> Process]
  BY NumProcsAssumption DEF arrive, ArrivalDue, EngineInv, TypeOK
<1>2. /\ procs' \in [Procs -> Process]
      /\ \A p \in Procs : /\ SameJob(procs[p], procs'[p])
                          /\ procs'[p].remaining_time = procs[p].remaining_time
                          /\ procs'[p].finish_time = procs[p].finish_time
                          /\ procs'[p].state = "FINISHED" <=> procs[p].state = "FINISHED"
  BY <1>1, ReadyProcess DEF SameJob
<1> QED
  BY <1>1, <1>2, FinishUnchanged, StutterStep

LEMMA DispatchStutters ==
  EngineInv /\ (\E next \in Procs \cup {NULL} : MayReturn(next) /\ handle_dispatch(next))
    => UNCHANGED Schedule!vars
<1> SUFFICES ASSUME EngineInv, NEW next \in Procs \cup {NULL}, MayReturn(next),
                    handle_dispatch(next)
             PROVE  UNCHANGED Schedule!vars
  OBVIOUS
<1>1. /\ procs' = Dispatched(next) /\ current_time' = current_time
      /\ procs \in [Procs -> Process] /\ TypeOK /\ OneRunning
  BY DEF handle_dispatch, EngineInv, TypeOK
<1>2. \A p \in Procs : p = next \/ p = running_process => procs[p].state # "FINISHED"
  BY <1>1 DEF MayReturn, Candidates, OneRunning
<1>3. /\ procs' \in [Procs -> Process]
      /\ \A p \in Procs : /\ SameJob(procs[p], procs'[p])
                          /\ procs'[p].remaining_time = procs[p].remaining_time
                          /\ procs'[p].finish_time = procs[p].finish_time
                          /\ procs'[p].state = "FINISHED" <=> procs[p].state = "FINISHED"
  BY <1>1, <1>2, DispatchedProcess
<1> QED
  BY <1>1, <1>3, FinishUnchanged, StutterStep

\* The stages that touch neither the processes nor the clock.
LEMMA OtherStutters ==
  ASSUME UNCHANGED << procs, current_time >>
  PROVE  UNCHANGED Schedule!vars
BY DEF Schedule!vars, FinishOf, Exhausted, Finished

\* Stage 4b is a Pass of the process on the CPU.
LEMMA FinishInstantlyPasses ==
  EngineInv /\ finish_instantly => \E p \in Procs : p = running_process /\ Schedule!Pass(p)
<1> SUFFICES ASSUME EngineInv, finish_instantly
             PROVE  \E p \in Procs : p = running_process /\ Schedule!Pass(p)
  OBVIOUS
<1>0. PICK r \in Procs : r = running_process
  BY DEF finish_instantly, EngineInv, TypeOK
<1>1. /\ pc = "execute" /\ current_time' = current_time + 1 /\ current_time \in Nat
      /\ procs[r] \in Process /\ procs[r].state = "RUNNING"
      /\ procs[r].remaining_time = 0 /\ procs \in [Procs -> Process]
  BY <1>0 DEF finish_instantly, EngineInv, TypeOK, OneRunning
<1>2. \A p \in Procs : ~Exhausted(p)
  BY <1>1 DEF EngineInv, WorkAccounted
<1>3. procs[r].burst_time = 0 /\ procs[r].arrival_time <= current_time
  BY <1>1, <1>2, ProcessFields DEF Exhausted, Finished, EngineInv, WorkAccounted
<1>4. PICK q \in Process : /\ procs' = [procs EXCEPT ![r] = q]
                           /\ SameJob(procs[r], q)
                           /\ q.remaining_time = procs[r].remaining_time
                           /\ q.finish_time = current_time
                           /\ q.state = "FINISHED"
  BY <1>0, <1>1, FinishProcess DEF finish_instantly
<1>5. \A p \in Procs : /\ SameJob(procs[p], procs'[p])
                       /\ procs'[p].remaining_time = procs[p].remaining_time
  BY <1>1, <1>4 DEF SameJob
<1>6. \A p \in Procs : FinishOf(p)' = IF p = r THEN current_time ELSE FinishOf(p)
  BY <1>1, <1>2, <1>4 DEF FinishOf, Exhausted, Finished
<1>7. FinishOf(r) = -1
  BY <1>1, <1>2 DEF FinishOf, Finished
<1>8. r \in Schedule!Waiting
  BY <1>1, <1>3, <1>7 DEF Schedule!Waiting
<1>9. Schedule!Pass(r)
  BY <1>1, <1>3, <1>5, <1>6, <1>8 DEF Schedule!Pass, SameJob
<1> QED
  BY <1>0, <1>9

\* Stages 5 and 6 serve the process on the CPU.
LEMMA ExecuteServes ==
  EngineInv /\ execute => \E p \in Procs : p = running_process /\ Schedule!Serve(p)
<1> SUFFICES ASSUME EngineInv, execute
             PROVE  \E p \in Procs : p = running_process /\ Schedule!Serve(p)
  OBVIOUS
<1>0. PICK r \in Procs : r = running_process
  BY DEF execute, EngineInv, TypeOK
<1> DEFINE served(p) == procs[p].burst_time - procs[p].remaining_time
<1>1. /\ pc = "execute" /\ current_time' = current_time + 1 /\ current_time \in Nat
      /\ procs[r] \in Process /\ procs[r].state = "RUNNING"
      /\ procs[r].remaining_time # 0 /\ procs \in [Procs -> Process]
      /\ procs' = [procs EXCEPT ![r] = process_tick(procs[r])]
  BY <1>0 DEF execute, EngineInv, TypeOK, OneRunning
<1>2. \A p \in Procs : ~Exhausted(p)
  BY <1>1 DEF EngineInv, WorkAccounted
<1>3. /\ procs[r].burst_time \in Nat /\ procs[r].remaining_time \in Nat
      /\ procs[r].remaining_time <= procs[r].burst_time
      /\ procs[r].arrival_time <= current_time
  BY <1>1, ProcessFields DEF EngineInv, WorkAccounted
<1>4. \A p \in Procs :
        /\ SameJob(procs[p], procs'[p])
        /\ procs'[p].remaining_time = IF p = r THEN procs[p].remaining_time - 1
                                      ELSE procs[p].remaining_time
        /\ p # r => procs'[p] = procs[p]
        /\ procs'[p].state = procs[p].state
  BY <1>1, TickProcess DEF SameJob
<1>5. \A p \in Procs : FinishOf(p)' = IF p = r /\ served(r) + 1 = procs[r].burst_time
                                        THEN current_time + 1 ELSE FinishOf(p)
  <2>1. ASSUME NEW p \in Procs, p # r PROVE FinishOf(p)' = FinishOf(p)
    BY <1>1, <1>2, <1>4, <2>1 DEF FinishOf, Exhausted, Finished
  <2>2. FinishOf(r)' = IF served(r) + 1 = procs[r].burst_time THEN current_time + 1 ELSE FinishOf(r)
    BY <1>1, <1>2, <1>3, <1>4 DEF FinishOf, Exhausted, Finished, SameJob
  <2> QED
    BY <2>1, <2>2
<1>6. r \in Schedule!Waiting
  BY <1>1, <1>2, <1>3 DEF Schedule!Waiting, FinishOf, Finished
<1>7. \A p \in Procs : served(p)' = IF p = r THEN served(p) + 1 ELSE served(p)
  BY <1>1, <1>3, <1>4 DEF SameJob
<1>8. served(r) < procs[r].burst_time
  BY <1>1, <1>3
<1>9. Schedule!Serve(r)
  BY <1>1, <1>4, <1>5, <1>6, <1>7, <1>8 DEF Schedule!Serve, SameJob
<1> QED
  BY <1>0, <1>9

\* When the CPU is idle nobody waits, and somebody is still to come.
LEMMA IdleIdles == EngineInv /\ idle => Schedule!Idle
<1> SUFFICES ASSUME EngineInv, idle PROVE Schedule!Idle
  OBVIOUS
<1>1. /\ pc = "execute" /\ running_process = NULL /\ procs' = procs
      /\ current_time' = current_time + 1 /\ current_time \in Nat
      /\ procs \in [Procs -> Process]
  BY DEF idle, EngineInv, TypeOK
<1>2. \A p \in Procs : ~Exhausted(p)
  BY <1>1 DEF EngineInv, WorkAccounted
<1>3. \A p \in Procs : procs[p].state \in {"NOT_ARRIVED", "FINISHED"}
  BY <1>1 DEF EngineInv, CPUWellUsed, OneRunning, Process, ProcessState
<1>4. Schedule!Waiting = {}
  <2>1. ASSUME NEW p \in Procs, procs[p].arrival_time <= current_time
        PROVE  FinishOf(p) # -1
    <3>1. procs[p].arrival_time \in Nat /\ procs[p].finish_time \in Nat
      BY <1>1, ProcessFields
    <3>2. procs[p].state = "FINISHED"
      BY <1>1, <1>3, <2>1, <3>1 DEF EngineInv, NoLateArrival
    <3> QED
      BY <3>1, <3>2 DEF FinishOf, Finished
  <2> QED
    BY <2>1 DEF Schedule!Waiting
<1>5. \E p \in Procs : FinishOf(p) = -1
  <2>1. completed < NumProcs /\ completed = Cardinality(Finished)
    BY <1>1 DEF EngineInv, StepInLoop, InStep, CompletedCountsFinished
  <2>2. PICK p \in Procs : p \notin Finished
    <3>1. Cardinality(Procs) = NumProcs /\ Finished \subseteq Procs
      BY FS_Interval, NumProcsAssumption DEF Finished
    <3>2. Finished # Procs
      BY <2>1, <3>1, NumProcsAssumption
    <3> QED
      BY <3>1, <3>2
  <2> QED
    BY <1>2, <2>2 DEF FinishOf
<1>6. \A p \in Procs : FinishOf(p)' = FinishOf(p)
  BY <1>1, <1>2 DEF FinishOf, Exhausted, Finished
<1> QED
  BY <1>1, <1>4, <1>5, <1>6 DEF Schedule!Idle

LEMMA ScheduleStep == EngineInv /\ [Next]_vars => [Schedule!Next]_Schedule!vars
<1> SUFFICES ASSUME EngineInv, [Next]_vars PROVE [Schedule!Next]_Schedule!vars
  OBVIOUS
<1>1. CASE finish_instantly \/ execute
  BY <1>1, FinishInstantlyPasses, ExecuteServes DEF Schedule!Next
<1>2. CASE idle
  BY <1>2, IdleIdles DEF Schedule!Next
<1>3. CASE handle_completions \/ (\E request \in BOOLEAN : arrive(request))
           \/ (\E next \in Procs \cup {NULL} : MayReturn(next) /\ handle_dispatch(next))
  BY <1>3, CompletionStutters, ArrivalStutters, DispatchStutters
<1>4. CASE UNCHANGED << procs, current_time >>
  BY <1>4, OtherStutters
<1> QED
  BY <1>1, <1>2, <1>3, <1>4 DEF Next, Mechanism, returned, vars, on_init, on_finish,
     arrivals_done, no_tick, keep_running, policy_tick

(***************************************************************************)
(* The stages of step_simulation make up the time units of a uniprocessor: *)
(* each serves the one process on the CPU, lets a process with no work     *)
(* pass, or idles, which it does only when nobody waits; and finish_time   *)
(* is the end of the last unit served.                                     *)
(***************************************************************************)
THEOREM EngineIsUniprocessor == Spec => Schedule!SafetySpec
BY ScheduleInit, EngineInvariant, ScheduleStep, PTL DEF Spec, Schedule!SafetySpec
-----------------------------------------------------------------------------
(***************************************************************************)
(* What the steps of the engine do to the record of one process.           *)
(***************************************************************************)
\* q is p but for its state.
SameRecord(p, q) ==
  /\ SameJob(p, q)
  /\ q.remaining_time = p.remaining_time
  /\ q.start_time = p.start_time
  /\ q.finish_time = p.finish_time
  /\ q.turnaround_time = p.turnaround_time
  /\ q.waiting_time = p.waiting_time
  /\ q.response_time = p.response_time

\* q is p after its first dispatch, at time t.
Started(p, q, t) ==
  /\ SameJob(p, q)
  /\ q.remaining_time = p.remaining_time
  /\ q.start_time = t
  /\ q.response_time = t - p.arrival_time
  /\ q.finish_time = p.finish_time
  /\ q.turnaround_time = p.turnaround_time
  /\ q.waiting_time = p.waiting_time

\* q is p after it has finished at time t.
Ended(p, q, t) ==
  /\ SameJob(p, q)
  /\ q.state = "FINISHED"
  /\ q.remaining_time = p.remaining_time
  /\ q.start_time = p.start_time
  /\ q.response_time = p.response_time
  /\ q.finish_time = t
  /\ q.turnaround_time = t - p.arrival_time
  /\ q.waiting_time = (t - p.arrival_time) - p.burst_time

LEMMA RecordFields ==
  ASSUME NEW p \in Process
  PROVE  /\ p.start_time \in Nat \cup {-1}
         /\ p.turnaround_time \in Int
         /\ p.waiting_time \in Int
         /\ p.response_time \in Int
BY DEF Process

LEMMA ReadyRecord ==
  ASSUME NEW p \in Process
  PROVE  SameRecord(p, process_ready(p))
BY DEF Process, process_ready, SameRecord, SameJob

LEMMA ResumeRecord ==
  ASSUME NEW p \in Process
  PROVE  SameRecord(p, process_resume(p))
BY DEF Process, process_resume, SameRecord, SameJob

LEMMA StartRecord ==
  ASSUME NEW p \in Process, NEW t \in Nat
  PROVE  IF p.start_time = -1 THEN Started(p, process_start(p, t), t)
         ELSE SameRecord(p, process_start(p, t))
<1>1. CASE p.start_time = -1
  <2> DEFINE response == calculate_response_time(t, p.arrival_time)
  <2>1. process_start(p, t) = [p EXCEPT !.start_time = t, !.response_time = response,
                                       !.state = "RUNNING"]
    BY <1>1 DEF process_start
  <2>2. response = t - p.arrival_time
    BY DEF calculate_response_time
  <2> HIDE DEF response
  <2> QED
    BY <1>1, <2>1, <2>2 DEF Process, Started, SameJob
<1>2. CASE p.start_time # -1
  BY <1>2 DEF Process, process_start, SameRecord, SameJob
<1> QED
  BY <1>1, <1>2

LEMMA FinishRecord ==
  ASSUME NEW p \in Process, NEW t \in Nat
  PROVE  Ended(p, process_finish(p, t), t)
<1> DEFINE turnaround == calculate_turnaround_time(t, p.arrival_time)
           waiting == calculate_waiting_time(turnaround, p.burst_time)
<1>1. process_finish(p, t) = [p EXCEPT !.state = "FINISHED", !.finish_time = t,
                                     !.turnaround_time = turnaround, !.waiting_time = waiting]
  BY DEF process_finish
<1>2. turnaround = t - p.arrival_time /\ waiting = (t - p.arrival_time) - p.burst_time
  BY DEF calculate_turnaround_time, calculate_waiting_time
<1> HIDE DEF turnaround, waiting
<1> QED
  BY <1>1, <1>2 DEF Process, Ended, SameJob

LEMMA TickRecord ==
  ASSUME NEW p \in Process, p.remaining_time # 0
  PROVE  process_tick(p) = [p EXCEPT !.remaining_time = p.remaining_time - 1]
BY DEF Process, process_tick
-----------------------------------------------------------------------------
(***************************************************************************)
(* The steps of the engine, by what they do to the records and the log.    *)
(***************************************************************************)
\* Process r, which has no work left, finishes now.
FinishNow(r) ==
  /\ r \in Procs /\ r = running_process /\ running_process' = NULL
  /\ procs[r].state = "RUNNING" /\ procs[r].remaining_time = 0
  /\ Ended(procs[r], procs'[r], current_time)
  /\ \A p \in Procs \ {r} : procs'[p] = procs[p]

LEMMA CompletionEffect ==
  ASSUME EngineInv, handle_completions
  PROVE  /\ UNCHANGED << current_time, gantt_log, context_switches >>
         /\ pc = "completion" /\ pc' # "execute"
         /\ (UNCHANGED << procs, running_process >>) \/ FinishNow(running_process)
<1> USE DEF EngineInv
<1> DEFINE r == running_process
<1>1. UNCHANGED << current_time, gantt_log, context_switches >> /\ pc = "completion" /\ pc' # "execute"
  BY DEF handle_completions, LoopHead
<1>2. CASE r # NULL /\ procs[r].remaining_time = 0
  <2>1. r \in Procs /\ procs[r] \in Process /\ procs[r].state = "RUNNING" /\ current_time \in Nat
    BY <1>2 DEF TypeOK, OneRunning
  <2>2. procs' = [procs EXCEPT ![r] = process_finish(procs[r], current_time)] /\ running_process' = NULL
    BY <1>2 DEF handle_completions
  <2>3. procs'[r] = process_finish(procs[r], current_time) /\ \A p \in Procs \ {r} : procs'[p] = procs[p]
    BY <2>1, <2>2 DEF TypeOK
  <2> QED
    BY <1>1, <1>2, <2>1, <2>2, <2>3, FinishRecord DEF FinishNow
<1>3. CASE ~(r # NULL /\ procs[r].remaining_time = 0)
  BY <1>1, <1>3 DEF handle_completions
<1> QED
  BY <1>2, <1>3

LEMMA FinishInstantlyEffect ==
  ASSUME EngineInv, finish_instantly
  PROVE  /\ FinishNow(running_process)
         /\ pc = "execute" /\ pc' # "execute"
         /\ current_time' = current_time + 1
         /\ gantt_log' = Append(gantt_log, Idle)
         /\ context_switches' = context_switches
<1> USE DEF EngineInv
<1> DEFINE r == running_process
<1>1. r \in Procs /\ procs[r] \in Process /\ procs[r].state = "RUNNING" /\ current_time \in Nat
  BY DEF finish_instantly, TypeOK, OneRunning
<1>2. /\ procs' = [procs EXCEPT ![r] = process_finish(procs[r], current_time)]
      /\ running_process' = NULL /\ procs[r].remaining_time = 0
      /\ pc = "execute" /\ pc' # "execute"
      /\ current_time' = current_time + 1
      /\ gantt_log' = Append(gantt_log, Idle)
      /\ context_switches' = context_switches
  BY DEF finish_instantly, append_gantt_entry, LoopHead
<1>3. procs'[r] = process_finish(procs[r], current_time) /\ \A p \in Procs \ {r} : procs'[p] = procs[p]
  BY <1>1, <1>2 DEF TypeOK
<1> QED
  BY <1>1, <1>2, <1>3, FinishRecord DEF FinishNow

LEMMA ExecuteEffect ==
  ASSUME EngineInv, execute
  PROVE  /\ running_process \in Procs /\ running_process' = running_process
         /\ procs[running_process].state = "RUNNING"
         /\ procs[running_process].remaining_time # 0
         /\ procs' = [procs EXCEPT ![running_process].remaining_time =
                        procs[running_process].remaining_time - 1]
         /\ pc = "execute" /\ pc' # "execute"
         /\ current_time' = current_time + 1
         /\ gantt_log' = Append(gantt_log, running_process)
         /\ context_switches' = context_switches
<1> USE DEF EngineInv
<1> DEFINE r == running_process
<1>1. r \in Procs /\ procs[r] \in Process /\ procs[r].state = "RUNNING" /\ procs[r].remaining_time # 0
  BY DEF execute, TypeOK, OneRunning
<1>2. /\ procs' = [procs EXCEPT ![r] = process_tick(procs[r])]
      /\ running_process' = r
      /\ pc = "execute" /\ pc' # "execute"
      /\ current_time' = current_time + 1
      /\ gantt_log' = Append(gantt_log, r)
      /\ context_switches' = context_switches
  BY DEF execute, append_gantt_entry, LoopHead
<1>3. process_tick(procs[r]) = [procs[r] EXCEPT !.remaining_time = procs[r].remaining_time - 1]
  BY <1>1, TickRecord
<1> QED
  BY <1>1, <1>2, <1>3

LEMMA IdleEffect ==
  ASSUME EngineInv, idle
  PROVE  /\ running_process = NULL
         /\ UNCHANGED << procs, running_process, context_switches >>
         /\ pc = "execute" /\ pc' # "execute"
         /\ current_time' = current_time + 1
         /\ gantt_log' = Append(gantt_log, Idle)
BY DEF idle, append_gantt_entry, LoopHead

LEMMA ArrivalEffect ==
  ASSUME EngineInv, NEW request \in BOOLEAN, arrive(request)
  PROVE  /\ next_arrival_idx + 1 \in Procs
         /\ next_arrival_idx' = next_arrival_idx + 1
         /\ procs[next_arrival_idx + 1].state = "NOT_ARRIVED"
         /\ procs'[next_arrival_idx + 1].state = "READY"
         /\ \A p \in Procs : SameRecord(procs[p], procs'[p])
         /\ \A p \in Procs \ {next_arrival_idx + 1} : procs'[p] = procs[p]
         /\ procs[next_arrival_idx + 1].arrival_time <= current_time
         /\ pc = "arrival" /\ pc' = "arrival"
         /\ UNCHANGED << current_time, gantt_log, context_switches, running_process >>
<1> USE DEF EngineInv
<1> DEFINE p == next_arrival_idx + 1
<1>1. /\ next_arrival_idx < NumProcs
      /\ next_arrival_idx' = p
      /\ procs[p].state = "NOT_ARRIVED" /\ procs[p].arrival_time <= current_time
      /\ procs' = [procs EXCEPT ![p] = process_ready(procs[p])]
      /\ pc = "arrival" /\ pc' = "arrival"
      /\ UNCHANGED << current_time, gantt_log, context_switches, running_process >>
  BY DEF arrive, ArrivalDue
<1>2. p \in Procs /\ procs \in [Procs -> Process]
  BY <1>1, NumProcsAssumption DEF TypeOK
<1> HIDE DEF p
<1>3. procs'[p] = process_ready(procs[p]) /\ \A q \in Procs \ {p} : procs'[q] = procs[q]
  BY <1>1, <1>2
<1>4. procs'[p].state = "READY" /\ SameRecord(procs[p], procs'[p])
  BY <1>2, <1>3, ReadyProcess, ReadyRecord
<1>5. \A q \in Procs : SameRecord(procs[q], procs'[q])
  BY <1>3, <1>4 DEF SameRecord, SameJob
<1> QED
  BY <1>1, <1>2, <1>3, <1>4, <1>5 DEF p

LEMMA DispatchEffect ==
  ASSUME EngineInv, NEW next \in Procs \cup {NULL}, MayReturn(next), handle_dispatch(next)
  PROVE  /\ \A p \in Procs :
              IF p = next /\ procs[p].start_time = -1 /\ p # running_process
                THEN Started(procs[p], procs'[p], current_time)
                ELSE SameRecord(procs[p], procs'[p])
         /\ \A p \in Procs : procs'[p].state = IF p = next THEN "RUNNING"
                                               ELSE IF p = running_process THEN "READY"
                                               ELSE procs[p].state
         /\ next # NULL => procs[next].state \in {"READY", "RUNNING"}
         /\ running_process' = next
         /\ pc = "dispatch" /\ pc' = "execute"
         /\ context_switches' = IF Switched(next) THEN context_switches + 1 ELSE context_switches
         /\ UNCHANGED << current_time, gantt_log >>
<1> USE DEF EngineInv
<1>1. /\ procs' = Dispatched(next) /\ running_process' = next
      /\ pc = "dispatch" /\ pc' = "execute"
      /\ context_switches' = IF Switched(next) THEN context_switches + 1 ELSE context_switches
      /\ UNCHANGED << current_time, gantt_log >>
  BY DEF handle_dispatch
<1>2. \A p \in Procs : procs'[p].state = IF p = next THEN "RUNNING"
                                         ELSE IF p = running_process THEN "READY"
                                         ELSE procs[p].state
  BY <1>1, DispatchedProcess
<1>3. next # NULL => procs[next].state \in {"READY", "RUNNING"}
  BY DEF MayReturn, Candidates, OneRunning
<1>4. /\ Readied \in [Procs -> Process]
      /\ \A p \in Procs : SameRecord(procs[p], Readied[p])
      /\ \A p \in Procs \ {running_process} : Readied[p] = procs[p]
  <2>1. CASE running_process = NULL
    BY <2>1, ReadiedProcess DEF Readied, SameRecord, SameJob
  <2>2. CASE running_process # NULL
    <3>1. running_process \in Procs /\ procs \in [Procs -> Process]
      BY <2>2 DEF TypeOK
    <3>2. Readied[running_process] = process_ready(procs[running_process])
      BY <2>2, <3>1 DEF Readied
    <3>3. \A p \in Procs \ {running_process} : Readied[p] = procs[p]
      BY <2>2, <3>1 DEF Readied
    <3>4. \A p \in Procs : SameRecord(procs[p], Readied[p])
      BY <3>1, <3>2, <3>3, ReadyRecord DEF SameRecord, SameJob
    <3> QED
      BY <3>3, <3>4, ReadiedProcess
  <2> QED
    BY <2>1, <2>2
<1>5. ASSUME NEW p \in Procs
      PROVE  IF p = next /\ procs[p].start_time = -1 /\ p # running_process
               THEN Started(procs[p], procs'[p], current_time)
               ELSE SameRecord(procs[p], procs'[p])
  <2>1. CASE p # next
    <3>1. procs'[p] = Readied[p]
      BY <1>1, <1>4, <2>1 DEF Dispatched
    <3> QED
      BY <1>4, <2>1, <3>1
  <2>2. CASE p = next /\ p = running_process
    <3>1. procs'[p] = process_resume(Readied[p])
      BY <1>1, <1>4, <2>2 DEF Dispatched
    <3>2. SameRecord(Readied[p], procs'[p])
      BY <1>4, <3>1, ResumeRecord
    <3> QED
      BY <1>4, <2>2, <3>2 DEF SameRecord, SameJob
  <2>3. CASE p = next /\ p # running_process
    <3>1. procs'[p] = process_start(procs[p], current_time)
      BY <1>1, <1>4, <2>3 DEF Dispatched
    <3>2. procs[p] \in Process /\ current_time \in Nat
      BY DEF TypeOK
    <3> QED
      BY <2>3, <3>1, <3>2, StartRecord
  <2> QED
    BY <2>1, <2>2, <2>3
<1> QED
  BY <1>1, <1>2, <1>3, <1>5

\* The other steps touch neither a record nor the log.
Silent == \/ arrivals_done \/ no_tick \/ keep_running \/ on_init \/ on_finish
          \/ (\E request \in BOOLEAN : policy_tick(request))
          \/ UNCHANGED vars

LEMMA SilentEffect ==
  ASSUME EngineInv, Silent
  PROVE  /\ UNCHANGED << procs, current_time, gantt_log, context_switches, running_process,
                         next_arrival_idx, completed >>
         /\ pc = "execute" => pc' = "execute"
BY DEF EngineInv, CPUWellUsed, Silent, arrivals_done, no_tick, keep_running, on_init, on_finish,
       policy_tick, vars

\* The stages that call no hook leave the READY processes and the request alone.
LEMMA MechanismKeepsReady ==
  ASSUME EngineInv, Mechanism
  PROVE  /\ preempt_requested' = preempt_requested
         /\ \A p \in Procs : procs[p]'.state = "READY" <=> procs[p].state = "READY"
<1>1. CASE handle_completions \/ finish_instantly
  <2>1. (UNCHANGED procs) \/ FinishNow(running_process)
    BY <1>1, CompletionEffect, FinishInstantlyEffect
  <2>2. preempt_requested' = preempt_requested
    BY <1>1 DEF handle_completions, finish_instantly
  <2>3. CASE UNCHANGED procs
    BY <2>2, <2>3
  <2>4. CASE FinishNow(running_process)
    <3>1. procs[running_process].state = "RUNNING" /\ procs'[running_process].state = "FINISHED"
      BY <2>4 DEF FinishNow, Ended
    <3> QED
      BY <2>2, <2>4, <3>1 DEF FinishNow
  <2> QED
    BY <2>1, <2>3, <2>4
<1>2. CASE execute
  <2>1. procs \in [Procs -> Process]
    BY DEF EngineInv, TypeOK
  <2>2. /\ procs' = [procs EXCEPT ![running_process] = process_tick(procs[running_process])]
        /\ preempt_requested' = preempt_requested
    BY <1>2 DEF execute
  <2> QED
    BY <2>1, <2>2, TickProcess
<1>3. CASE arrivals_done \/ no_tick \/ keep_running \/ idle \/ returned
  BY <1>3 DEF arrivals_done, no_tick, keep_running, idle, returned, vars
<1> QED
  BY <1>1, <1>2, <1>3 DEF Mechanism

LEMMA StepCases ==
  ASSUME [Next]_vars
  PROVE  \/ handle_completions
         \/ finish_instantly
         \/ execute
         \/ idle
         \/ \E request \in BOOLEAN : arrive(request)
         \/ \E next \in Procs \cup {NULL} : MayReturn(next) /\ handle_dispatch(next)
         \/ Silent
BY DEF Next, Mechanism, returned, Silent
-----------------------------------------------------------------------------
(***************************************************************************)
(* LogAccountsForCPU is inductive together with EngineInv.                 *)
(***************************************************************************)
LEMMA TicksFinite ==
  ASSUME TypeOK, NEW p \in Procs
  PROVE  IsFiniteSet(Ticks(p)) /\ Ticks(p) \subseteq 1 .. Len(gantt_log) /\ Len(gantt_log) \in Nat
<1>1. Len(gantt_log) \in Nat
  BY LenProperties DEF TypeOK
<1>2. IsFiniteSet(1 .. Len(gantt_log)) /\ Ticks(p) \subseteq 1 .. Len(gantt_log)
  BY <1>1, FS_Interval DEF Ticks
<1> QED
  BY <1>1, <1>2, FS_Subset

\* One more entry in the log is one more time unit for the process it names.
LEMMA NewEntry ==
  ASSUME TypeOK, NEW entry \in Procs \cup {Idle}, gantt_log' = Append(gantt_log, entry)
  PROVE  /\ Len(gantt_log)' = Len(gantt_log) + 1
         /\ \A t \in 1 .. Len(gantt_log) : gantt_log'[t] = gantt_log[t]
         /\ gantt_log'[Len(gantt_log) + 1] = entry
         /\ \A p \in Procs :
              Ticks(p)' = IF p = entry THEN Ticks(p) \cup {Len(gantt_log) + 1} ELSE Ticks(p)
<1>1. /\ Len(gantt_log)' = Len(gantt_log) + 1
      /\ \A t \in 1 .. Len(gantt_log) : gantt_log'[t] = gantt_log[t]
      /\ gantt_log'[Len(gantt_log) + 1] = entry
      /\ Len(gantt_log) \in Nat
  BY AppendProperties, LenProperties DEF TypeOK
<1>2. ASSUME NEW p \in Procs
      PROVE  Ticks(p)' = IF p = entry THEN Ticks(p) \cup {Len(gantt_log) + 1} ELSE Ticks(p)
  <2>1. \A t \in 1 .. Len(gantt_log)' : t \in 1 .. Len(gantt_log) \/ t = Len(gantt_log) + 1
    BY <1>1
  <2>2. /\ \A t \in 1 .. Len(gantt_log) : t \in 1 .. Len(gantt_log)'
        /\ Len(gantt_log) + 1 \in 1 .. Len(gantt_log)'
    BY <1>1
  <2> QED
    BY <1>1, <2>1, <2>2 DEF Ticks
<1> QED
  BY <1>1, <1>2

\* The part of LogAccountsForCPU that speaks of process p.
CPUOf(p) ==
  /\ Cardinality(Ticks(p)) = procs[p].burst_time - procs[p].remaining_time
  /\ \A t \in Ticks(p) : procs[p].arrival_time < t
  /\ p \in Finished => \A t \in Ticks(p) : t <= procs[p].finish_time

LEMMA LogByProcess ==
  LogAccountsForCPU <=> Len(gantt_log) = current_time /\ \A p \in Procs : CPUOf(p)
BY DEF LogAccountsForCPU, CPUOf

LEMMA LogByProcessNext ==
  ASSUME Len(gantt_log)' = current_time', \A p \in Procs : CPUOf(p)'
  PROVE  LogAccountsForCPU'
BY DEF LogAccountsForCPU, CPUOf

\* The record is the same as far as CPUOf goes, and so is the log.
LEMMA CPUUnchanged ==
  ASSUME NEW p \in Procs, CPUOf(p), SameJob(procs[p], procs'[p]),
         procs'[p].remaining_time = procs[p].remaining_time,
         procs'[p].finish_time = procs[p].finish_time,
         procs'[p].state = "FINISHED" => procs[p].state = "FINISHED",
         Ticks(p)' = Ticks(p)
  PROVE  CPUOf(p)'
BY DEF CPUOf, Finished, SameJob

\* A process that finishes has all its time units behind it.
LEMMA CPUFinished ==
  ASSUME TypeOK, Len(gantt_log) = current_time, NEW p \in Procs, CPUOf(p),
         Ended(procs[p], procs'[p], current_time), Ticks(p)' = Ticks(p)
  PROVE  CPUOf(p)'
<1>1. \A t \in Ticks(p) : t <= current_time
  BY TicksFinite
<1> QED
  BY <1>1 DEF CPUOf, Ended, SameJob

LEMMA LogInit == Init => LogAccountsForCPU
<1> SUFFICES ASSUME Init PROVE LogAccountsForCPU
  OBVIOUS
<1>1. Len(gantt_log) = 0 /\ current_time = 0
  BY DEF Init
<1>2. ASSUME NEW p \in Procs PROVE CPUOf(p)
  <2>1. Ticks(p) = {}
    BY <1>1 DEF Ticks
  <2>2. procs[p].remaining_time = procs[p].burst_time /\ procs[p] \in Process
    BY ParsedProcess DEF Init, Workloads
  <2>3. procs[p].burst_time - procs[p].remaining_time = 0
    BY <2>2, ProcessFields
  <2> QED
    BY <2>1, <2>3, FS_EmptySet DEF CPUOf
<1> QED
  BY <1>1, <1>2, LogByProcess

LEMMA LogStep == EngineInv /\ LogAccountsForCPU /\ [Next]_vars => LogAccountsForCPU'
<1> SUFFICES ASSUME EngineInv, LogAccountsForCPU, [Next]_vars PROVE LogAccountsForCPU'
  OBVIOUS
<1> USE DEF EngineInv
<1>0. /\ Len(gantt_log) = current_time /\ current_time \in Nat
      /\ \A p \in Procs : CPUOf(p) /\ procs[p] \in Process
  BY LogByProcess DEF TypeOK
<1>1. CASE handle_completions
  <2>1. /\ UNCHANGED << gantt_log, current_time >>
        /\ (UNCHANGED procs) \/ FinishNow(running_process)
    BY <1>1, CompletionEffect
  <2>2. \A p \in Procs : Ticks(p)' = Ticks(p)
    BY <2>1 DEF Ticks
  <2>3. ASSUME NEW p \in Procs PROVE CPUOf(p)'
    <3>1. CASE procs'[p] = procs[p]
      BY <1>0, <2>2, <3>1, CPUUnchanged DEF SameJob
    <3>2. CASE Ended(procs[p], procs'[p], current_time)
      BY <1>0, <2>2, <3>2, CPUFinished
    <3> QED
      BY <2>1, <3>1, <3>2 DEF FinishNow
  <2> QED
    BY <1>0, <2>1, <2>3, LogByProcessNext
<1>2. CASE finish_instantly
  <2>1. /\ FinishNow(running_process) /\ current_time' = current_time + 1
        /\ gantt_log' = Append(gantt_log, Idle)
    BY <1>2, FinishInstantlyEffect
  <2>2. Len(gantt_log)' = current_time' /\ \A p \in Procs : Ticks(p)' = Ticks(p)
    BY <1>0, <2>1, NewEntry
  <2>3. ASSUME NEW p \in Procs PROVE CPUOf(p)'
    <3>1. CASE procs'[p] = procs[p]
      BY <1>0, <2>2, <3>1, CPUUnchanged DEF SameJob
    <3>2. CASE Ended(procs[p], procs'[p], current_time)
      BY <1>0, <2>2, <3>2, CPUFinished
    <3> QED
      BY <2>1, <3>1, <3>2 DEF FinishNow
  <2> QED
    BY <2>2, <2>3, LogByProcessNext
<1>3. CASE execute
  <2>0. PICK r \in Procs : r = running_process
    BY <1>3, ExecuteEffect
  <2>1. /\ procs[r].state = "RUNNING"
        /\ procs' = [procs EXCEPT ![r].remaining_time = procs[r].remaining_time - 1]
        /\ current_time' = current_time + 1
        /\ gantt_log' = Append(gantt_log, r)
    BY <1>3, <2>0, ExecuteEffect
  <2>2. /\ Len(gantt_log)' = current_time'
        /\ \A p \in Procs : Ticks(p)' = IF p = r THEN Ticks(p) \cup {current_time + 1} ELSE Ticks(p)
    BY <1>0, <2>1, NewEntry
  <2>3. /\ SameJob(procs[r], procs'[r]) /\ procs'[r].state = "RUNNING"
        /\ procs'[r].remaining_time = procs[r].remaining_time - 1
        /\ \A p \in Procs \ {r} : procs'[p] = procs[p]
    BY <1>0, <2>1 DEF TypeOK, Process, SameJob
  <2>4. ASSUME NEW p \in Procs \ {r} PROVE CPUOf(p)'
    BY <1>0, <2>2, <2>3, CPUUnchanged DEF SameJob
  <2>5. CPUOf(r)'
    <3>1. Cardinality(Ticks(r)') = Cardinality(Ticks(r)) + 1
      <4>1. current_time + 1 \notin Ticks(r) /\ IsFiniteSet(Ticks(r))
        BY <1>0, <2>1, TicksFinite
      <4>2. Cardinality(Ticks(r) \cup {current_time + 1}) = Cardinality(Ticks(r)) + 1
        BY <4>1, FS_AddElement
      <4> QED
        BY <2>2, <4>2
    <3>2. /\ procs[r].burst_time \in Nat /\ procs[r].remaining_time \in Nat
          /\ procs[r].arrival_time \in Nat /\ procs[r].arrival_time <= current_time
      BY <1>0, <2>1, ProcessFields DEF WorkAccounted
    <3>3. r \notin Finished'
      BY <2>3 DEF Finished
    <3> QED
      BY <1>0, <2>1, <2>2, <2>3, <3>1, <3>2, <3>3 DEF CPUOf, SameJob
  <2> QED
    BY <2>2, <2>4, <2>5, LogByProcessNext
<1>4. CASE idle
  <2>1. /\ UNCHANGED procs /\ current_time' = current_time + 1
        /\ gantt_log' = Append(gantt_log, Idle)
    BY <1>4, IdleEffect
  <2>2. Len(gantt_log)' = current_time' /\ \A p \in Procs : Ticks(p)' = Ticks(p)
    BY <1>0, <2>1, NewEntry
  <2>3. \A p \in Procs : CPUOf(p)'
    BY <1>0, <2>1, <2>2, CPUUnchanged DEF SameJob
  <2> QED
    BY <2>2, <2>3, LogByProcessNext
<1>5. ASSUME NEW request \in BOOLEAN, arrive(request) PROVE LogAccountsForCPU'
  <2>1. /\ UNCHANGED << gantt_log, current_time >>
        /\ \A p \in Procs : SameRecord(procs[p], procs'[p])
        /\ \A p \in Procs : procs'[p].state = procs[p].state \/ procs'[p].state = "READY"
    BY <1>5, ArrivalEffect
  <2>2. \A p \in Procs : Ticks(p)' = Ticks(p)
    BY <2>1 DEF Ticks
  <2>3. \A p \in Procs : CPUOf(p)'
    BY <1>0, <2>1, <2>2, CPUUnchanged DEF SameRecord
  <2> QED
    BY <1>0, <2>1, <2>3, LogByProcessNext
<1>6. ASSUME NEW next \in Procs \cup {NULL}, MayReturn(next), handle_dispatch(next)
      PROVE  LogAccountsForCPU'
  <2>1. /\ UNCHANGED << gantt_log, current_time >>
        /\ \A p \in Procs : SameRecord(procs[p], procs'[p]) \/ Started(procs[p], procs'[p], current_time)
        /\ \A p \in Procs : procs'[p].state \in {"RUNNING", "READY", procs[p].state}
    BY <1>6, DispatchEffect
  <2>2. \A p \in Procs : Ticks(p)' = Ticks(p)
    BY <2>1 DEF Ticks
  <2>3. \A p \in Procs : CPUOf(p)'
    BY <1>0, <2>1, <2>2, CPUUnchanged DEF SameRecord, Started
  <2> QED
    BY <1>0, <2>1, <2>3, LogByProcessNext
<1>7. CASE Silent
  <2>1. UNCHANGED << procs, gantt_log, current_time >>
    BY <1>7, SilentEffect
  <2> QED
    BY <2>1 DEF LogAccountsForCPU, Ticks, Finished
<1> QED
  BY <1>1, <1>2, <1>3, <1>4, <1>5, <1>6, <1>7, StepCases

(***************************************************************************)
(* The log has one entry per time unit, and every process has exactly the  *)
(* time units it has used, all between its arrival and its finish.         *)
(***************************************************************************)
THEOREM LogIsComplete == Spec => []LogAccountsForCPU
BY EngineInit, EngineStep, LogInit, LogStep, PTL DEF Spec
-----------------------------------------------------------------------------
(***************************************************************************)
(* The metrics.  A process runs in the time unit that follows its first    *)
(* dispatch, unless it has nothing to do, so its response time is settled  *)
(* there; its turnaround and waiting time are settled when it finishes.    *)
(***************************************************************************)
StartOf(p) ==
  /\ procs[p].start_time = -1 => procs[p].state \in {"NOT_ARRIVED", "READY"} /\ Ticks(p) = {}
  /\ procs[p].start_time # -1 =>
       /\ procs[p].state # "NOT_ARRIVED"
       /\ procs[p].arrival_time <= procs[p].start_time /\ procs[p].start_time <= current_time
       /\ procs[p].response_time = procs[p].start_time - procs[p].arrival_time
       /\ \A t \in Ticks(p) : procs[p].start_time < t
       /\ \/ procs[p].start_time + 1 \in Ticks(p)
          \/ pc = "execute" /\ p = running_process /\ procs[p].start_time = current_time
          \/ p \in Finished /\ procs[p].burst_time = 0 /\ procs[p].finish_time = procs[p].start_time

EndOf(p) ==
  p \in Finished =>
    /\ procs[p].remaining_time = 0
    /\ procs[p].arrival_time <= procs[p].finish_time /\ procs[p].finish_time <= current_time
    /\ procs[p].turnaround_time = procs[p].finish_time - procs[p].arrival_time
    /\ procs[p].waiting_time = procs[p].turnaround_time - procs[p].burst_time

MetricsKept == \A p \in Procs : StartOf(p) /\ EndOf(p)

\* Nothing about p has changed; time may have passed.
LEMMA MetricsUnchanged ==
  ASSUME EngineInv, NEW p \in Procs, StartOf(p), EndOf(p), SameRecord(procs[p], procs'[p]),
         procs'[p].state = procs[p].state \/ (procs[p].state # "FINISHED" /\ procs'[p].state = "READY"),
         Ticks(p)' = Ticks(p), current_time' \in {current_time, current_time + 1},
         p = running_process /\ pc = "execute" =>
           pc' = "execute" /\ p = running_process' /\ current_time' = current_time
  PROVE  StartOf(p)' /\ EndOf(p)'
<1>1. /\ current_time \in Nat /\ procs[p].finish_time \in Nat
      /\ procs[p].start_time \in Nat \cup {-1}
  BY ProcessFields, RecordFields DEF EngineInv, TypeOK
<1>2. procs[p].state = "RUNNING" <=> p = running_process
  BY DEF EngineInv, OneRunning
<1> QED
  BY <1>1, <1>2 DEF StartOf, EndOf, Finished, SameRecord, SameJob

LEMMA MetricsFinished ==
  ASSUME EngineInv, NEW p \in Procs, StartOf(p), FinishNow(running_process), p = running_process,
         procs[p].burst_time > 0 => pc # "execute",
         Ticks(p)' = Ticks(p), current_time' \in {current_time, current_time + 1}
  PROVE  StartOf(p)' /\ EndOf(p)'
<1>1. /\ current_time \in Nat /\ procs[p].start_time \in Nat \cup {-1}
      /\ procs[p].arrival_time \in Nat /\ procs[p].burst_time \in Nat
  BY ProcessFields, RecordFields DEF EngineInv, TypeOK
<1>2. procs[p].state = "RUNNING" /\ procs[p].remaining_time = 0 /\ Ended(procs[p], procs'[p], current_time)
  BY DEF FinishNow
<1>3. procs[p].arrival_time <= current_time
  BY <1>2 DEF EngineInv, WorkAccounted
<1>4. p \in Finished' /\ p \notin Finished
  BY <1>2 DEF Finished, Ended
<1> QED
  BY <1>1, <1>2, <1>3, <1>4 DEF StartOf, EndOf, Ended, SameJob

LEMMA MetricsInit == Init => MetricsKept
<1> SUFFICES ASSUME Init, NEW p \in Procs PROVE StartOf(p) /\ EndOf(p)
  BY DEF MetricsKept
<1>1. PICK q \in Parsed : procs[p] = q
  BY DEF Init, Workloads
<1>2. procs[p].start_time = -1 /\ procs[p].state = "NOT_ARRIVED"
  BY <1>1 DEF Parsed, init_process
<1>3. Ticks(p) = {}
  BY DEF Init, Ticks
<1> QED
  BY <1>2, <1>3 DEF StartOf, EndOf, Finished

LEMMA MetricsStep ==
  EngineInv /\ LogAccountsForCPU /\ MetricsKept /\ [Next]_vars => MetricsKept'
<1> SUFFICES ASSUME EngineInv, LogAccountsForCPU, MetricsKept, [Next]_vars, NEW p \in Procs
             PROVE  StartOf(p)' /\ EndOf(p)'
  BY DEF MetricsKept
<1>0. /\ Len(gantt_log) = current_time /\ current_time \in Nat
      /\ StartOf(p) /\ EndOf(p) /\ procs[p] \in Process
      /\ procs[p].state = "RUNNING" <=> p = running_process
      /\ TypeOK
  BY DEF LogAccountsForCPU, EngineInv, OneRunning, TypeOK, MetricsKept
<1>1. CASE handle_completions
  <2>1. /\ UNCHANGED << gantt_log, current_time >> /\ pc = "completion"
        /\ (UNCHANGED procs) \/ FinishNow(running_process)
    BY <1>1, CompletionEffect
  <2>2. Ticks(p)' = Ticks(p)
    BY <2>1 DEF Ticks
  <2>3. CASE procs'[p] = procs[p]
    BY <1>0, <2>1, <2>2, <2>3, MetricsUnchanged DEF SameRecord, SameJob
  <2>4. CASE FinishNow(running_process) /\ p = running_process
    BY <1>0, <2>1, <2>2, <2>4, MetricsFinished
  <2> QED
    BY <2>1, <2>3, <2>4 DEF FinishNow
<1>2. CASE finish_instantly
  <2>1. /\ FinishNow(running_process) /\ current_time' = current_time + 1
        /\ gantt_log' = Append(gantt_log, Idle) /\ pc = "execute"
    BY <1>2, FinishInstantlyEffect
  <2>2. Ticks(p)' = Ticks(p)
    BY <1>0, <2>1, NewEntry
  <2>3. CASE p # running_process
    BY <1>0, <2>1, <2>2, <2>3, MetricsUnchanged DEF SameRecord, SameJob, FinishNow
  <2>4. CASE p = running_process
    <3>1. ~(procs[p].burst_time > 0)
      BY <2>1, <2>4 DEF FinishNow, EngineInv, WorkAccounted, Exhausted, Finished
    <3> QED
      BY <1>0, <2>1, <2>2, <2>4, <3>1, MetricsFinished
  <2> QED
    BY <2>3, <2>4
<1>3. CASE execute
  <2>0. PICK r \in Procs : r = running_process
    BY <1>3, ExecuteEffect
  <2>1. /\ procs' = [procs EXCEPT ![r].remaining_time = procs[r].remaining_time - 1]
        /\ current_time' = current_time + 1 /\ running_process' = r /\ pc' # "execute"
        /\ gantt_log' = Append(gantt_log, r)
    BY <1>3, <2>0, ExecuteEffect
  <2>2. Ticks(p)' = IF p = r THEN Ticks(p) \cup {current_time + 1} ELSE Ticks(p)
    BY <1>0, <2>1, NewEntry
  <2>3. CASE p # r
    <3>1. procs'[p] = procs[p]
      BY <1>0, <2>1, <2>3 DEF TypeOK
    <3> QED
      BY <1>0, <2>0, <2>1, <2>2, <2>3, <3>1, MetricsUnchanged DEF SameRecord, SameJob
  <2>4. CASE p = r
    <3>1. /\ procs'[p].state = "RUNNING" /\ procs[p].state = "RUNNING"
          /\ procs'[p].arrival_time = procs[p].arrival_time
          /\ procs'[p].start_time = procs[p].start_time
          /\ procs'[p].response_time = procs[p].response_time
      BY <1>0, <2>0, <2>1, <2>4 DEF TypeOK, Process
    <3>2. procs[p].start_time \in Nat \cup {-1}
      BY <1>0, RecordFields
    <3> QED
      BY <1>0, <2>1, <2>2, <2>4, <3>1, <3>2 DEF StartOf, EndOf, Finished
  <2> QED
    BY <2>3, <2>4
<1>4. CASE idle
  <2>1. /\ UNCHANGED << procs, running_process >> /\ current_time' = current_time + 1
        /\ gantt_log' = Append(gantt_log, Idle) /\ running_process = NULL
    BY <1>4, IdleEffect
  <2>2. Ticks(p)' = Ticks(p)
    BY <1>0, <2>1, NewEntry
  <2> QED
    BY <1>0, <2>1, <2>2, MetricsUnchanged DEF SameRecord, SameJob
<1>5. ASSUME NEW request \in BOOLEAN, arrive(request) PROVE StartOf(p)' /\ EndOf(p)'
  <2>1. /\ UNCHANGED << gantt_log, current_time >> /\ pc = "arrival"
        /\ SameRecord(procs[p], procs'[p])
        /\ procs'[p].state = procs[p].state
             \/ (procs[p].state = "NOT_ARRIVED" /\ procs'[p].state = "READY")
    BY <1>5, ArrivalEffect
  <2>2. Ticks(p)' = Ticks(p)
    BY <2>1 DEF Ticks
  <2> QED
    BY <1>0, <2>1, <2>2, MetricsUnchanged
<1>6. ASSUME NEW next \in Procs \cup {NULL}, MayReturn(next), handle_dispatch(next)
      PROVE  StartOf(p)' /\ EndOf(p)'
  <2>1. /\ UNCHANGED << gantt_log, current_time >> /\ pc = "dispatch" /\ pc' = "execute"
        /\ IF p = next /\ procs[p].start_time = -1 /\ p # running_process
             THEN Started(procs[p], procs'[p], current_time)
             ELSE SameRecord(procs[p], procs'[p])
        /\ procs'[p].state = IF p = next THEN "RUNNING"
                             ELSE IF p = running_process THEN "READY"
                             ELSE procs[p].state
        /\ p = next => procs[p].state \in {"READY", "RUNNING"}
        /\ running_process' = next
    BY <1>6, DispatchEffect
  <2>2. Ticks(p)' = Ticks(p)
    BY <2>1 DEF Ticks
  <2>3. CASE p # next
    BY <1>0, <2>1, <2>2, <2>3, MetricsUnchanged
  <2>4. CASE p = next
    <3>1. procs[p].state \in {"READY", "RUNNING"} /\ procs'[p].state = "RUNNING" /\ p \notin Finished'
      BY <2>1, <2>4 DEF Finished
    <3>2. procs[p].arrival_time <= current_time /\ procs[p].arrival_time \in Nat
      BY <1>0, <3>1, ProcessFields DEF EngineInv, WorkAccounted
    <3>3. CASE procs[p].start_time = -1
      <4>1. Started(procs[p], procs'[p], current_time)
        BY <1>0, <2>1, <2>4, <3>3 DEF StartOf
      <4> QED
        BY <1>0, <2>1, <2>2, <2>4, <3>1, <3>2, <3>3, <4>1 DEF StartOf, EndOf, Started, SameJob
    <3>4. CASE procs[p].start_time # -1
      <4>1. SameRecord(procs[p], procs'[p])
        BY <2>1, <3>4
      <4>2. p \notin Finished
        BY <3>1 DEF Finished
      <4> QED
        BY <1>0, <2>1, <2>2, <3>1, <3>4, <4>1, <4>2 DEF StartOf, EndOf, SameRecord, SameJob
    <3> QED
      BY <3>3, <3>4
  <2> QED
    BY <2>3, <2>4
<1>7. CASE Silent
  <2>1. /\ UNCHANGED << procs, gantt_log, current_time, running_process >>
        /\ pc = "execute" => pc' = "execute"
    BY <1>7, SilentEffect
  <2>2. Ticks(p)' = Ticks(p)
    BY <2>1 DEF Ticks
  <2> QED
    BY <1>0, <2>1, <2>2, MetricsUnchanged DEF SameRecord, SameJob
<1> QED
  BY <1>1, <1>2, <1>3, <1>4, <1>5, <1>6, <1>7, StepCases

LEMMA IntervalCard ==
  ASSUME NEW a \in Int, NEW b \in Int, a <= b
  PROVE  IsFiniteSet(a + 1 .. b) /\ Cardinality(a + 1 .. b) = b - a
<1>1. PICK c \in Int : c = a + 1
  OBVIOUS
<1>2. IsFiniteSet(c .. b) /\ Cardinality(c .. b) = IF c > b THEN 0 ELSE b - c + 1
  BY FS_Interval
<1> QED
  BY <1>1, <1>2

\* The definitions of the metrics and their counts in the log agree.
LEMMA MetricsAreCounts ==
  EngineInv /\ LogAccountsForCPU /\ MetricsKept => MetricsMatchLog
<1> SUFFICES ASSUME EngineInv, LogAccountsForCPU, MetricsKept, NEW p \in Finished
             PROVE  /\ procs[p].turnaround_time = Cardinality(Life(p))
                    /\ procs[p].waiting_time = Cardinality(Waiting(p))
                    /\ procs[p].response_time =
                         Cardinality({t \in Life(p) : \A u \in Ticks(p) : t < u})
  BY DEF MetricsMatchLog
<1> DEFINE arrived == procs[p].arrival_time
           ended == procs[p].finish_time
           started == procs[p].start_time
<1>0. /\ p \in Procs /\ p # running_process /\ TypeOK /\ CPUOf(p) /\ StartOf(p) /\ EndOf(p)
      /\ Len(gantt_log) = current_time /\ current_time \in Nat
  BY LogByProcess DEF Finished, EngineInv, OneRunning, TypeOK, MetricsKept
<1>1. /\ arrived \in Nat /\ ended \in Nat /\ started \in Nat \cup {-1}
      /\ procs[p].burst_time \in Nat
  BY <1>0, ProcessFields, RecordFields DEF TypeOK
<1>2. arrived <= ended /\ ended <= current_time /\ started # -1
  BY <1>0 DEF EndOf, StartOf, Finished
<1>3. Ticks(p) \subseteq Life(p) /\ Life(p) \subseteq 1 .. Len(gantt_log)
  BY <1>0, <1>1, <1>2, TicksFinite DEF CPUOf, Life
<1>4. IsFiniteSet(Life(p)) /\ Cardinality(Life(p)) = ended - arrived
  <2>1. arrived \in Int /\ ended \in Int
    BY <1>1
  <2> QED
    BY <1>2, <2>1, IntervalCard DEF Life
<1>5. procs[p].turnaround_time = Cardinality(Life(p))
  BY <1>0, <1>4 DEF EndOf
<1>6. procs[p].waiting_time = Cardinality(Waiting(p))
  <2>1. Waiting(p) = Life(p) \ Ticks(p)
    BY <1>3 DEF Waiting, Ticks
  <2>2. Life(p) \cap Ticks(p) = Ticks(p)
    BY <1>3
  <2>3. Cardinality(Life(p) \ Ticks(p)) = Cardinality(Life(p)) - Cardinality(Life(p) \cap Ticks(p))
    BY <1>4, FS_Difference, Zenon
  <2>4. Cardinality(Ticks(p)) = procs[p].burst_time
    BY <1>0, <1>1 DEF CPUOf, EndOf
  <2> QED
    BY <1>0, <1>4, <2>1, <2>2, <2>3, <2>4 DEF EndOf
<1>7. procs[p].response_time = Cardinality({t \in Life(p) : \A u \in Ticks(p) : t < u})
  <2> DEFINE early == {t \in Life(p) : \A u \in Ticks(p) : t < u}
  <2>1. \A u \in Ticks(p) : started < u
    BY <1>0, <1>2 DEF StartOf
  <2>2. early = arrived + 1 .. started
    <3>1. CASE started + 1 \in Ticks(p)
      <4>1. started + 1 <= ended
        BY <1>0, <3>1 DEF CPUOf
      <4>2. \A t \in Life(p) : (\A u \in Ticks(p) : t < u) <=> t <= started
        BY <1>0, <1>1, <1>2, <2>1, <3>1, TicksFinite DEF Life
      <4> QED
        BY <1>1, <1>2, <4>1, <4>2 DEF Life
    <3>2. CASE procs[p].burst_time = 0 /\ ended = started
      <4>1. Cardinality(Ticks(p)) = 0
        BY <1>0, <3>2 DEF CPUOf, EndOf
      <4>2. Ticks(p) = {}
        BY <1>0, <4>1, TicksFinite, FS_EmptySet
      <4> QED
        BY <3>2, <4>2 DEF Life
    <3> QED
      BY <1>0, <1>2, <3>1, <3>2 DEF StartOf
  <2>3. arrived <= started /\ procs[p].response_time = started - arrived
    BY <1>0, <1>2 DEF StartOf
  <2>4. arrived \in Int /\ started \in Int
    BY <1>1
  <2>5. Cardinality(arrived + 1 .. started) = started - arrived
    BY <2>3, <2>4, IntervalCard
  <2> HIDE DEF early, started
  <2> QED
    BY <2>2, <2>3, <2>5 DEF early
<1> QED
  BY <1>5, <1>6, <1>7

(***************************************************************************)
(* MetricsMatchLog: the turnaround, waiting and response time of a process *)
(* that has finished are what one counts in the log.                       *)
(***************************************************************************)
THEOREM MetricsAreRight == Spec => []MetricsMatchLog
BY EngineInit, EngineStep, LogInit, LogStep, MetricsInit, MetricsStep, MetricsAreCounts,
   PTL DEF Spec
-----------------------------------------------------------------------------
(***************************************************************************)
(* The context switches.  Outside the stage that executes, the process on  *)
(* the CPU is the last one logged, unless that has finished; a dispatch    *)
(* counts the switch whose second half the next entry of the log records.  *)
(***************************************************************************)
LastRun ==
  LET last == gantt_log[Len(gantt_log)]
  IN  IF Len(gantt_log) = 0 \/ last \in Finished THEN NULL ELSE last

Switches == {t \in 1 .. Len(gantt_log) - 1 : SwitchedAway(t)}

Pending == IF LastRun # NULL /\ LastRun # running_process THEN 1 ELSE 0

SwitchesKept ==
  /\ pc # "execute" => running_process = LastRun
  /\ context_switches = Cardinality(Switches) + Pending

LEMMA SwitchesFinite ==
  ASSUME TypeOK
  PROVE  IsFiniteSet(Switches) /\ Cardinality(Switches) \in Nat /\ Len(gantt_log) \in Nat
<1>1. Len(gantt_log) \in Nat
  BY LenProperties DEF TypeOK
<1>2. Switches \subseteq 1 .. Len(gantt_log) - 1 /\ IsFiniteSet(1 .. Len(gantt_log) - 1)
  BY <1>1, FS_Interval DEF Switches
<1> QED
  BY <1>1, <1>2, FS_Subset, FS_CardinalityType

LEMMA SwitchesInit == Init => SwitchesKept
<1> SUFFICES ASSUME Init PROVE SwitchesKept
  OBVIOUS
<1>1. Len(gantt_log) = 0 /\ running_process = NULL /\ context_switches = 0
  BY DEF Init
<1>2. Switches = {}
  BY <1>1 DEF Switches
<1> QED
  BY <1>1, <1>2, FS_EmptySet DEF SwitchesKept, LastRun, Pending

\* Nobody finishes and nothing is logged.
LEMMA SwitchesSame ==
  ASSUME UNCHANGED gantt_log, Finished' = Finished,
         \A p \in Finished : procs[p]'.finish_time = procs[p].finish_time
  PROVE  Switches' = Switches /\ LastRun' = LastRun
BY DEF Switches, SwitchedAway, LastRun

\* The log grows by one entry, and whoever finishes does so no earlier than now: the
\* earlier switches stay, and the last entry becomes one if the CPU now leaves it.
LEMMA SwitchesGrow ==
  ASSUME TypeOK, NEW entry \in Procs \cup {Idle}, gantt_log' = Append(gantt_log, entry),
         NEW n \in Nat, n = Len(gantt_log),
         \A p \in Procs : \A t \in 1 .. n - 1 :
           (p \in Finished' /\ procs[p]'.finish_time <= t)
             <=> (p \in Finished /\ procs[p].finish_time <= t)
  PROVE  /\ Cardinality(Switches)' =
              IF n > 0 /\ SwitchedAway(n)' THEN Cardinality(Switches) + 1
              ELSE Cardinality(Switches)
         /\ \A t \in 1 .. Len(gantt_log) : gantt_log[t] \in Procs \cup {Idle}
<1>0. /\ \A t \in 1 .. Len(gantt_log) : gantt_log[t] \in Procs \cup {Idle}
      /\ IsFiniteSet(Switches)
  BY ElementOfSeq, SwitchesFinite DEF TypeOK
<1>2. /\ Len(gantt_log)' = n + 1
      /\ \A t \in 1 .. n : gantt_log'[t] = gantt_log[t]
  BY NewEntry
<1>3. \A t \in 1 .. n - 1 : SwitchedAway(t)' <=> SwitchedAway(t)
  BY <1>0, <1>2 DEF SwitchedAway
<1>4. Switches = {t \in 1 .. n - 1 : SwitchedAway(t)} /\ n \notin Switches
  BY DEF Switches
<1>5. Switches' = {t \in 1 .. n : SwitchedAway(t)'}
  BY <1>2 DEF Switches
<1>6. CASE n > 0 /\ SwitchedAway(n)'
  <2>1. Switches' = Switches \cup {n}
    BY <1>3, <1>4, <1>5, <1>6
  <2>2. Cardinality(Switches \cup {n}) = Cardinality(Switches) + 1
    BY <1>0, <1>4, FS_AddElement
  <2> QED
    BY <1>0, <1>6, <2>1, <2>2
<1>7. CASE ~(n > 0 /\ SwitchedAway(n)')
  <2>1. Switches' = Switches
    BY <1>3, <1>4, <1>5, <1>7
  <2> QED
    BY <1>0, <1>7, <2>1
<1> QED
  BY <1>6, <1>7

LEMMA SwitchesStep ==
  EngineInv /\ LogAccountsForCPU /\ MetricsKept /\ SwitchesKept /\ [Next]_vars => SwitchesKept'
<1> SUFFICES ASSUME EngineInv, LogAccountsForCPU, MetricsKept, SwitchesKept, [Next]_vars
             PROVE  SwitchesKept'
  OBVIOUS
<1>0. /\ Len(gantt_log) = current_time /\ current_time \in Nat /\ TypeOK
      /\ running_process \in Procs \cup {NULL}
      /\ running_process \notin Finished
      /\ Cardinality(Switches) \in Nat
      /\ \A p \in Finished : p \in Procs /\ procs[p].finish_time <= current_time
      /\ \A p \in Finished : procs[p].finish_time \in Nat
  BY SwitchesFinite, ProcessFields
     DEF LogAccountsForCPU, EngineInv, OneRunning, TypeOK, MetricsKept, EndOf, Finished
<1> PICK n \in Nat : n = Len(gantt_log)
  BY <1>0
<1>1. CASE handle_completions
  <2>1. /\ UNCHANGED << gantt_log, current_time, context_switches >> /\ pc = "completion"
        /\ pc' # "execute"
        /\ (UNCHANGED << procs, running_process >>) \/ FinishNow(running_process)
    BY <1>1, CompletionEffect
  <2>2. CASE UNCHANGED << procs, running_process >>
    <3>1. Switches' = Switches /\ LastRun' = LastRun
      BY <2>1, <2>2, SwitchesSame DEF Finished
    <3> QED
      BY <2>1, <2>2, <3>1 DEF SwitchesKept, Pending
  <2>3. CASE FinishNow(running_process)
    <3>1. PICK r \in Procs : r = running_process /\ FinishNow(r)
      BY <2>3 DEF FinishNow
    <3>2. /\ Finished' = Finished \cup {r} /\ procs'[r].finish_time = current_time
          /\ \A p \in Procs \ {r} : procs'[p] = procs[p]
          /\ running_process' = NULL
      BY <3>1 DEF FinishNow, Finished, Ended
    <3>3. LastRun = r /\ Len(gantt_log) # 0 /\ gantt_log[Len(gantt_log)] = r
      BY <2>1, <3>1 DEF SwitchesKept, LastRun
    <3>4. Switches' = Switches
      <4> SUFFICES ASSUME NEW t \in 1 .. Len(gantt_log) - 1
                   PROVE  SwitchedAway(t)' <=> SwitchedAway(t)
        BY <2>1 DEF Switches
      <4>1. \A p : (p \in Finished' /\ procs'[p].finish_time <= t)
                     <=> (p \in Finished /\ procs[p].finish_time <= t)
        BY <1>0, <3>1, <3>2
      <4> QED
        BY <2>1, <4>1 DEF SwitchedAway
    <3>5. LastRun' = NULL
      BY <2>1, <3>2, <3>3 DEF LastRun
    <3> QED
      BY <2>1, <3>1, <3>2, <3>3, <3>4, <3>5 DEF SwitchesKept, Pending
  <2> QED
    BY <2>1, <2>2, <2>3
<1>2. CASE finish_instantly
  <2>1. /\ FinishNow(running_process) /\ gantt_log' = Append(gantt_log, Idle)
        /\ pc = "execute" /\ pc' # "execute" /\ context_switches' = context_switches
    BY <1>2, FinishInstantlyEffect
  <2>2. PICK r \in Procs : r = running_process /\ FinishNow(r)
    BY <2>1 DEF FinishNow
  <2>3. /\ Finished' = Finished \cup {r} /\ procs'[r].finish_time = current_time
        /\ \A p \in Procs \ {r} : procs'[p] = procs[p]
        /\ running_process' = NULL
    BY <2>2 DEF FinishNow, Finished, Ended
  <2>4. \A p \in Procs : \A t \in 1 .. n - 1 :
          (p \in Finished' /\ procs'[p].finish_time <= t)
            <=> (p \in Finished /\ procs[p].finish_time <= t)
    BY <1>0, <2>2, <2>3
  <2>5. /\ Cardinality(Switches)' =
             IF n > 0 /\ SwitchedAway(n)' THEN Cardinality(Switches) + 1
             ELSE Cardinality(Switches)
        /\ \A t \in 1 .. Len(gantt_log) : gantt_log[t] \in Procs \cup {Idle}
    BY <1>0, <2>1, <2>4, SwitchesGrow
  <2>6. /\ Len(gantt_log)' = Len(gantt_log) + 1 /\ gantt_log'[Len(gantt_log) + 1] = Idle
        /\ \A t \in 1 .. Len(gantt_log) : gantt_log'[t] = gantt_log[t]
    BY <1>0, <2>1, NewEntry
  <2>7. LastRun' = NULL
    BY <1>0, <2>6 DEF LastRun
  <2>8. n > 0 => (SwitchedAway(n)' <=> LastRun # NULL /\ LastRun # r)
    <3> SUFFICES ASSUME n > 0 PROVE SwitchedAway(n)' <=> LastRun # NULL /\ LastRun # r
      OBVIOUS
    <3>1. PICK p \in Procs \cup {Idle} : p = gantt_log[n] /\ p = gantt_log'[n]
      BY <1>0, <2>5, <2>6
    <3>3. SwitchedAway(n)' <=> p # Idle /\ ~(p \in Finished' /\ procs'[p].finish_time <= n)
      BY <2>6, <3>1 DEF SwitchedAway
    <3>4. (p \in Finished' /\ procs'[p].finish_time <= n) <=> p \in Finished \/ p = r
      BY <1>0, <2>3
    <3> QED
      BY <1>0, <2>2, <3>1, <3>3, <3>4 DEF LastRun
  <2> QED
    BY <1>0, <2>1, <2>2, <2>3, <2>5, <2>7, <2>8 DEF SwitchesKept, Pending, LastRun
<1>3. CASE execute \/ idle
  <2>1. PICK r \in Procs \cup {Idle} :
          /\ r = running_process /\ r = running_process'
          /\ gantt_log' = Append(gantt_log, r)
          /\ pc = "execute" /\ pc' # "execute" /\ context_switches' = context_switches
    BY <1>3, ExecuteEffect, IdleEffect
  <2>2. /\ Finished' = Finished
        /\ \A p \in Finished : procs[p]'.finish_time = procs[p].finish_time
    BY <1>0, <1>3, ExecuteEffect, IdleEffect DEF Finished, TypeOK, Process
  <2>3. /\ Cardinality(Switches)' =
             IF n > 0 /\ SwitchedAway(n)' THEN Cardinality(Switches) + 1
             ELSE Cardinality(Switches)
        /\ \A t \in 1 .. Len(gantt_log) : gantt_log[t] \in Procs \cup {Idle}
    BY <1>0, <2>1, <2>2, SwitchesGrow
  <2>4. /\ Len(gantt_log)' = Len(gantt_log) + 1 /\ gantt_log'[Len(gantt_log) + 1] = r
        /\ \A t \in 1 .. Len(gantt_log) : gantt_log'[t] = gantt_log[t]
    BY <1>0, <2>1, NewEntry
  <2>5. LastRun' = r
    BY <1>0, <2>1, <2>2, <2>4 DEF LastRun
  <2>6. n > 0 => (SwitchedAway(n)' <=> LastRun # NULL /\ LastRun # r)
    <3> SUFFICES ASSUME n > 0 PROVE SwitchedAway(n)' <=> LastRun # NULL /\ LastRun # r
      OBVIOUS
    <3>1. PICK p \in Procs \cup {Idle} : p = gantt_log[n] /\ p = gantt_log'[n]
      BY <1>0, <2>3, <2>4
    <3>3. SwitchedAway(n)' <=>
            p # Idle /\ r # p /\ ~(p \in Finished' /\ procs[p]'.finish_time <= n)
      BY <2>4, <3>1 DEF SwitchedAway
    <3>4. (p \in Finished' /\ procs[p]'.finish_time <= n) <=> p \in Finished
      BY <1>0, <2>2
    <3> QED
      BY <1>0, <2>1, <3>1, <3>3, <3>4 DEF LastRun
  <2>7. n = 0 => LastRun = NULL
    BY DEF LastRun
  <2>8. Pending = (IF n > 0 /\ SwitchedAway(n)' THEN 1 ELSE 0) /\ Pending' = 0
    BY <2>1, <2>5, <2>6, <2>7 DEF Pending
  <2> QED
    BY <1>0, <2>1, <2>3, <2>5, <2>8 DEF SwitchesKept
<1>4. ASSUME NEW request \in BOOLEAN, arrive(request) PROVE SwitchesKept'
  <2>1. /\ UNCHANGED << gantt_log, context_switches, running_process >> /\ pc = "arrival"
        /\ \A p \in Procs : SameRecord(procs[p], procs'[p])
        /\ \A p \in Procs : procs'[p].state = "FINISHED" <=> procs[p].state = "FINISHED"
    BY <1>4, ArrivalEffect
  <2>2. Finished' = Finished
    BY <2>1, NoneFinished
  <2>3. Switches' = Switches /\ LastRun' = LastRun
    BY <1>0, <2>1, <2>2, SwitchesSame DEF SameRecord
  <2> QED
    BY <2>1, <2>3 DEF SwitchesKept, Pending
<1>5. ASSUME NEW next \in Procs \cup {NULL}, MayReturn(next), handle_dispatch(next)
      PROVE  SwitchesKept'
  <2>1. /\ UNCHANGED gantt_log /\ pc = "dispatch" /\ pc' = "execute" /\ running_process' = next
        /\ context_switches' = IF Switched(next) THEN context_switches + 1 ELSE context_switches
        /\ \A p \in Procs : procs'[p].finish_time = procs[p].finish_time
    BY <1>5, DispatchEffect DEF SameRecord, Started
  <2>2. \A p \in Procs : procs'[p].state = "FINISHED" <=> procs[p].state = "FINISHED"
    BY <1>5, DispatchEffect DEF EngineInv, OneRunning
  <2>3. Finished' = Finished
    BY <2>2, NoneFinished
  <2>4. Switches' = Switches /\ LastRun' = LastRun
    BY <1>0, <2>1, <2>3, SwitchesSame
  <2> QED
    BY <1>0, <2>1, <2>4 DEF SwitchesKept, Pending, Switched
<1>6. CASE Silent
  <2>1. /\ UNCHANGED << procs, gantt_log, context_switches, running_process >>
        /\ pc = "execute" => pc' = "execute"
    BY <1>6, SilentEffect
  <2>2. Switches' = Switches /\ LastRun' = LastRun
    BY <2>1, SwitchesSame DEF Finished
  <2> QED
    BY <2>1, <2>2 DEF SwitchesKept, Pending
<1> QED
  BY <1>1, <1>2, <1>3, <1>4, <1>5, <1>6, StepCases

(***************************************************************************)
(* ContextSwitchesMatchLog: metrics.context_switches is the number of      *)
(* times the log passes from a process that has not finished to something  *)
(* else, though the engine counts at dispatch and logs at execution.       *)
(***************************************************************************)
THEOREM SwitchesAreCounted == Spec => []ContextSwitchesMatchLog
<1>1. EngineInv /\ SwitchesKept => ContextSwitchesMatchLog
  <2> SUFFICES ASSUME EngineInv, SwitchesKept, pc # "execute"
               PROVE  context_switches = Cardinality(Switches)
    BY DEF ContextSwitchesMatchLog, Switches
  <2>1. Cardinality(Switches) \in Nat
    BY SwitchesFinite DEF EngineInv
  <2> QED
    BY <2>1 DEF SwitchesKept, Pending
<1> QED
  BY <1>1, EngineInit, EngineStep, LogInit, LogStep, MetricsInit, MetricsStep, SwitchesInit,
     SwitchesStep, PTL DEF Spec
-----------------------------------------------------------------------------
(***************************************************************************)
(* What the rules of the policies rest on: all of the above, and that a    *)
(* process arrives in the very time unit of its arrival time.              *)
(***************************************************************************)
NotYetDue ==
  \A p \in Procs : procs[p].state = "NOT_ARRIVED" => procs[p].arrival_time >= current_time

History == EngineInv /\ LogAccountsForCPU /\ MetricsKept /\ SwitchesKept /\ NotYetDue

LEMMA HistoryInit == Init => History
<1> SUFFICES ASSUME Init PROVE NotYetDue
  BY EngineInit, LogInit, MetricsInit, SwitchesInit DEF History
<1>1. EngineInv /\ current_time = 0
  BY EngineInit DEF Init
<1> QED
  BY <1>1, ProcessFields DEF EngineInv, TypeOK, NotYetDue

\* Time passes only in a stage before which every arrival that was due has happened.
LEMMA HistoryStep == History /\ [Next]_vars => History'
<1> SUFFICES ASSUME History, [Next]_vars PROVE NotYetDue'
  BY EngineStep, LogStep, MetricsStep, SwitchesStep DEF History
<1> USE DEF History
<1>0. /\ current_time \in Nat
      /\ \A p \in Procs : procs[p].arrival_time \in Nat
  BY ProcessFields DEF EngineInv, TypeOK
<1>1. CASE handle_completions
  <2>1. /\ current_time' = current_time
        /\ (UNCHANGED procs) \/ FinishNow(running_process)
    BY <1>1, CompletionEffect
  <2> QED
    BY <2>1 DEF NotYetDue, FinishNow, Ended
<1>2. CASE finish_instantly
  <2>1. /\ FinishNow(running_process) /\ pc = "execute" /\ current_time' = current_time + 1
    BY <1>2, FinishInstantlyEffect
  <2>2. \A p \in Procs : procs[p].state = "NOT_ARRIVED" => procs[p].arrival_time > current_time
    BY <2>1 DEF EngineInv, NoLateArrival
  <2>3. \A p \in Procs : procs'[p].state = "NOT_ARRIVED" => procs'[p] = procs[p]
    BY <2>1 DEF FinishNow, Ended
  <2> QED
    BY <1>0, <2>1, <2>2, <2>3 DEF NotYetDue
<1>3. CASE execute \/ idle
  <2>1. pc = "execute" /\ current_time' = current_time + 1
    BY <1>3, ExecuteEffect, IdleEffect
  <2>2. \A p \in Procs : procs[p].state = "NOT_ARRIVED" => procs[p].arrival_time > current_time
    BY <2>1 DEF EngineInv, NoLateArrival
  <2>3. \A p \in Procs : /\ procs'[p].state = procs[p].state
                         /\ procs'[p].arrival_time = procs[p].arrival_time
    <3>1. CASE idle
      BY <3>1, IdleEffect
    <3>2. CASE execute
      <4>1. procs \in [Procs -> Process]
        BY DEF EngineInv, TypeOK
      <4>2. procs' = [procs EXCEPT ![running_process] = process_tick(procs[running_process])]
        BY <3>2 DEF execute
      <4> QED
        BY <4>1, <4>2, TickProcess DEF SameJob
    <3> QED
      BY <1>3, <3>1, <3>2
  <2> QED
    BY <1>0, <2>1, <2>2, <2>3 DEF NotYetDue
<1>4. ASSUME NEW request \in BOOLEAN, arrive(request) PROVE NotYetDue'
  <2>1. /\ current_time' = current_time
        /\ \A p \in Procs : procs'[p].state = "NOT_ARRIVED" => procs[p].state = "NOT_ARRIVED"
        /\ \A p \in Procs : procs'[p].arrival_time = procs[p].arrival_time
    BY <1>4, ArrivalEffect DEF SameRecord, SameJob
  <2> QED
    BY <2>1 DEF NotYetDue
<1>5. ASSUME NEW next \in Procs \cup {NULL}, MayReturn(next), handle_dispatch(next)
      PROVE  NotYetDue'
  <2>1. /\ current_time' = current_time
        /\ \A p \in Procs : procs'[p].state = "NOT_ARRIVED" => procs[p].state = "NOT_ARRIVED"
        /\ \A p \in Procs : procs'[p].arrival_time = procs[p].arrival_time
    BY <1>5, DispatchEffect DEF SameRecord, Started, SameJob
  <2> QED
    BY <2>1 DEF NotYetDue
<1>6. CASE Silent
  BY <1>6, SilentEffect DEF NotYetDue
<1> QED
  BY <1>1, <1>2, <1>3, <1>4, <1>5, <1>6, StepCases

(***************************************************************************)
(* Up to the dispatch, the last time unit was that of the process on the   *)
(* CPU, if there is one, and that of no process that waits.                *)
(***************************************************************************)
LEMMA LastUnit ==
  ASSUME History, pc # "execute"
  PROVE  /\ running_process # NULL =>
              current_time \in Ticks(running_process) /\ running_process \in Procs
         /\ \A p \in Procs : procs[p].state = "READY" => current_time \notin Ticks(p)
<1> USE DEF History
<1>1. running_process = LastRun /\ Len(gantt_log) = current_time /\ current_time \in Nat
  BY DEF SwitchesKept, LogAccountsForCPU, EngineInv, TypeOK
<1>2. ASSUME running_process # NULL
      PROVE  current_time \in Ticks(running_process) /\ running_process \in Procs
  BY <1>1, <1>2 DEF LastRun, Ticks, EngineInv, TypeOK
<1>3. ASSUME NEW p \in Procs, procs[p].state = "READY", current_time \in Ticks(p) PROVE FALSE
  <2>1. Len(gantt_log) # 0 /\ gantt_log[Len(gantt_log)] = p /\ p \notin Finished
    BY <1>1, <1>3 DEF Ticks, Finished
  <2>2. running_process = p
    BY <1>1, <2>1 DEF LastRun
  <2> QED
    BY <1>3, <2>2 DEF EngineInv, OneRunning
<1> QED
  BY <1>2, <1>3
-----------------------------------------------------------------------------
(***************************************************************************)
(* The makespan.  end[i] is the time at which the first i processes would  *)
(* end, one after the other; it depends only on the jobs.  The work of the *)
(* processes that have arrived, one pair for each time unit they will      *)
(* still be charged, brings the clock to end[next_arrival_idx].            *)
(***************************************************************************)
Longer(a, b) == IF a > b THEN a ELSE b

Charge(p) == IF procs[p].burst_time = 0 THEN 1 ELSE procs[p].burst_time

OneAfterTheOther(end) ==
  /\ end \in [0 .. NumProcs -> Nat]
  /\ end[0] = 0
  /\ \A i \in Procs : end[i] = Longer(end[i - 1], procs[i].arrival_time) + Charge(i)

WorkOf(p) ==
  IF procs[p].state \in {"NOT_ARRIVED", "FINISHED"} THEN 0
  ELSE IF procs[p].burst_time = 0 THEN 1
  ELSE procs[p].remaining_time

Work == {w \in Procs \X Nat : w[2] \in 1 .. WorkOf(w[1])}

OnSchedule(end) ==
  IF Work = {}
    THEN /\ current_time >= end[next_arrival_idx]
         /\ running_process # NULL \/ completed = NumProcs =>
              current_time = end[next_arrival_idx]
    ELSE current_time + Cardinality(Work) = end[next_arrival_idx]

WorkKept ==
  /\ IsFiniteSet(Work)
  /\ \A p \in Procs : procs[p].state = "NOT_ARRIVED" => procs[p].arrival_time >= current_time
  /\ pc \in {"finish", "done"} => completed = NumProcs
  /\ \A end : OneAfterTheOther(end) => OnSchedule(end)

\* Makespan is the value of such a function at NumProcs.
LEMMA MakespanSteps ==
  ASSUME TypeOK
  PROVE  \E end : OneAfterTheOther(end) /\ Makespan = end[NumProcs]
<1> DEFINE Ends(i, v) ==
             LET p     == procs[i]
                 begin == IF v > p.arrival_time THEN v ELSE p.arrival_time
             IN  begin + (IF p.burst_time = 0 THEN 1 ELSE p.burst_time)
           step == [i \in 1 .. NumProcs |-> [v \in Nat |-> Ends(i, v)]]
           Loop(f) == [i \in 0 .. NumProcs |-> IF i = 0 THEN 0 ELSE Ends(i, f[i - 1])]
           end == CHOOSE f : f = Loop(f)
<1>0. \A i \in Procs : procs[i].arrival_time \in Nat /\ procs[i].burst_time \in Nat
  BY ProcessFields DEF TypeOK
<1>1. NumProcs \in Nat /\ step \in [1 .. NumProcs -> [Nat -> Nat]]
  BY <1>0, NumProcsAssumption
<1>2. PICK f \in [0 .. NumProcs -> Nat] : Follows(f, NumProcs, 0, step)
  <2> HIDE DEF step
  <2> QED
    BY <1>1, RecursiveFunction
<1>3. ASSUME NEW i \in 1 .. NumProcs
      PROVE  f[i - 1] \in Nat /\ step[i][f[i - 1]] = Ends(i, f[i - 1])
  <2>1. f[i - 1] \in Nat
    BY NumProcsAssumption
  <2> HIDE DEF Ends
  <2> QED
    BY <2>1
<1>4. f = Loop(f)
  <2> HIDE DEF step, Ends
  <2> QED
    BY <1>2, <1>3 DEF Follows
<1>5. end = Loop(end)
  <2> HIDE DEF Loop
  <2> QED
    BY <1>4, Zenon
<1>6. Makespan = end[NumProcs]
  BY DEF Makespan
<1> HIDE DEF end
<1>7. \A g : /\ DOMAIN Loop(g) = 0 .. NumProcs /\ Loop(g)[0] = 0
             /\ \A i \in Procs : Loop(g)[i] = Ends(i, g[i - 1])
             /\ Loop(g) = [i \in 0 .. NumProcs |-> Loop(g)[i]]
  <2> HIDE DEF Ends
  <2> QED
    BY NumProcsAssumption
<1>8. /\ end = [i \in 0 .. NumProcs |-> end[i]] /\ end[0] = 0
      /\ \A i \in Procs : end[i] = Ends(i, end[i - 1])
  <2> HIDE DEF Loop, Ends
  <2> QED
    BY <1>5, <1>7
<1>9. \A i \in 0 .. NumProcs : end[i] \in Nat
  <2> DEFINE S == {i \in Nat : end[i] \in Nat}
  <2>1. 0 \in S
    BY <1>8
  <2>2. \A i \in 0 .. NumProcs - 1 : i \in S => i + 1 \in S
    <3> SUFFICES ASSUME NEW i \in 0 .. NumProcs - 1, i \in S PROVE i + 1 \in S
      OBVIOUS
    <3>1. i + 1 \in Procs /\ (i + 1) - 1 = i /\ i \in Nat
      BY <1>1
    <3>2. end[i + 1] = Ends(i + 1, end[i])
      BY <1>8, <3>1
    <3>3. Ends(i + 1, end[i]) \in Nat
      BY <1>0, <3>1
    <3> QED
      BY <3>1, <3>2, <3>3
  <2> HIDE DEF S
  <2>3. \A i \in 0 .. NumProcs : i \in S
    BY <1>1, <2>1, <2>2, UpTo
  <2> QED
    BY <2>3 DEF S
<1>10. OneAfterTheOther(end)
  <2>1. end \in [0 .. NumProcs -> Nat]
    BY <1>8, <1>9
  <2> QED
    BY <1>8, <2>1 DEF OneAfterTheOther, Longer, Charge
<1> QED
  BY <1>6, <1>10

\* No step changes a job, so the schedule they would make does not change.
LEMMA JobsStay ==
  ASSUME EngineInv, [Next]_vars
  PROVE  \A p \in Procs : SameJob(procs[p], procs'[p])
<1> USE DEF SameJob
<1>1. CASE handle_completions
  BY <1>1, CompletionEffect DEF FinishNow, Ended
<1>2. CASE finish_instantly
  BY <1>2, FinishInstantlyEffect DEF FinishNow, Ended
<1>3. CASE execute
  <2>1. /\ procs \in [Procs -> Process] /\ running_process \in Procs
        /\ procs' = [procs EXCEPT ![running_process].remaining_time =
                       procs[running_process].remaining_time - 1]
    BY <1>3, ExecuteEffect DEF EngineInv, TypeOK
  <2> QED
    BY <2>1 DEF Process
<1>4. CASE idle
  BY <1>4, IdleEffect
<1>5. CASE \E request \in BOOLEAN : arrive(request)
  BY <1>5, ArrivalEffect DEF SameRecord
<1>6. CASE \E next \in Procs \cup {NULL} : MayReturn(next) /\ handle_dispatch(next)
  BY <1>6, DispatchEffect DEF SameRecord, Started
<1>7. CASE Silent
  BY <1>7, SilentEffect
<1> QED
  BY <1>1, <1>2, <1>3, <1>4, <1>5, <1>6, <1>7, StepCases

LEMMA EndsStay ==
  ASSUME \A p \in Procs : SameJob(procs[p], procs'[p])
  PROVE  \A end : OneAfterTheOther(end)' <=> OneAfterTheOther(end)
BY DEF SameJob, OneAfterTheOther, Charge

LEMMA WorkSame ==
  ASSUME \A p \in Procs : WorkOf(p)' = WorkOf(p)
  PROVE  Work' = Work
BY DEF Work

\* A time unit of the work is done.
LEMMA WorkLess ==
  ASSUME IsFiniteSet(Work), NEW r \in Procs, NEW m \in Nat, m # 0,
         WorkOf(r) = m, WorkOf(r)' = m - 1, \A p \in Procs \ {r} : WorkOf(p)' = WorkOf(p)
  PROVE  /\ Work # {} /\ IsFiniteSet(Work)'
         /\ Cardinality(Work) \in Nat
         /\ Cardinality(Work)' = Cardinality(Work) - 1
         /\ Work' = {} <=> Cardinality(Work) = 1
<1>1. << r, m >> \in Work
  BY DEF Work
<1>2. Work' = Work \ {<< r, m >>}
  <2> SUFFICES ASSUME NEW p \in Procs, NEW j \in Nat
               PROVE  j \in 1 .. WorkOf(p)' <=> j \in 1 .. WorkOf(p) /\ ~(p = r /\ j = m)
    BY DEF Work
  <2> QED
    OBVIOUS
<1>3. /\ IsFiniteSet(Work \ {<< r, m >>})
      /\ Cardinality(Work \ {<< r, m >>}) = Cardinality(Work) - 1
  BY <1>1, FS_RemoveElement
<1>4. Cardinality(Work) \in Nat
  BY FS_CardinalityType
<1>5. Work' = {} <=> Cardinality(Work') = 0
  BY <1>2, <1>3, FS_EmptySet
<1> QED
  BY <1>1, <1>2, <1>3, <1>4, <1>5

\* A process brings m time units of work.
LEMMA WorkMore ==
  ASSUME IsFiniteSet(Work), NEW r \in Procs, NEW m \in Nat, m # 0,
         WorkOf(r) = 0, WorkOf(r)' = m, \A p \in Procs \ {r} : WorkOf(p)' = WorkOf(p)
  PROVE  /\ Work' # {} /\ IsFiniteSet(Work)'
         /\ Cardinality(Work) \in Nat
         /\ Cardinality(Work)' = Cardinality(Work) + m
<1> DEFINE new == {r} \X (1 .. m)
<1>1. /\ Work' = Work \cup new /\ Work \cap new = {}
      /\ << r, m >> \in Work'
  <2>1. \A p \in Procs, j \in Nat :
          /\ j \in 1 .. WorkOf(p)' <=> j \in 1 .. WorkOf(p) \/ (p = r /\ j \in 1 .. m)
          /\ ~(j \in 1 .. WorkOf(p) /\ p = r /\ j \in 1 .. m)
    OBVIOUS
  <2> QED
    BY <2>1 DEF Work
<1>2. IsFiniteSet(new) /\ Cardinality(new) = m
  <2>1. IsFiniteSet({r}) /\ Cardinality({r}) = 1
    BY FS_Singleton
  <2>2. IsFiniteSet(1 .. m) /\ Cardinality(1 .. m) = m
    BY FS_Interval
  <2>3. IsFiniteSet(new) /\ Cardinality(new) = Cardinality({r}) * Cardinality(1 .. m)
    BY <2>1, <2>2, FS_Product
  <2> QED
    BY <2>1, <2>2, <2>3
<1> HIDE DEF new
<1>3. /\ IsFiniteSet(Work \cup new)
      /\ Cardinality(Work \cup new) = Cardinality(Work) + Cardinality(new) - Cardinality(Work \cap new)
  BY <1>2, FS_Union
<1>4. Cardinality(Work) \in Nat /\ Cardinality({}) = 0
  BY FS_CardinalityType, FS_EmptySet
<1>5. Cardinality(Work \cup new) = Cardinality(Work) + m
  <2>1. Cardinality(Work \cap new) = 0
    BY <1>1, <1>4
  <2> QED
    BY <1>2, <1>3, <1>4, <2>1
<1>6. Work' # {} /\ IsFiniteSet(Work)'
  BY <1>1, <1>3
<1>7. Cardinality(Work)' = Cardinality(Work) + m
  BY <1>1, <1>5
<1> QED
  BY <1>4, <1>6, <1>7

LEMMA WorkInit == Init => WorkKept
<1> SUFFICES ASSUME Init PROVE WorkKept
  OBVIOUS
<1>1. \A p \in Procs : procs[p] \in Process /\ procs[p].state = "NOT_ARRIVED"
  BY ParsedProcess DEF Init, Workloads
<1>2. Work = {}
  BY <1>1 DEF Work, WorkOf
<1>3. \A p \in Procs : procs[p].arrival_time \in Nat
  BY <1>1, ProcessFields
<1> QED
  BY <1>2, <1>3, FS_EmptySet DEF WorkKept, OnSchedule, Init, OneAfterTheOther

LEMMA WorkStep ==
  EngineInv /\ EngineInv' /\ LogAccountsForCPU /\ MetricsKept /\ WorkKept /\ [Next]_vars => WorkKept'
<1> SUFFICES ASSUME EngineInv, EngineInv', LogAccountsForCPU, MetricsKept, WorkKept, [Next]_vars
             PROVE  WorkKept'
  OBVIOUS
<1>0. /\ current_time \in Nat /\ completed \in Nat /\ completed <= NumProcs /\ completed' <= NumProcs
      /\ next_arrival_idx \in 0 .. NumProcs /\ NumProcs \in Nat
      /\ \A p \in Procs : procs[p].state = "RUNNING" <=> p = running_process
      /\ IsFiniteSet(Work) /\ Cardinality(Work) \in Nat
      /\ \A p \in Procs : /\ procs[p].burst_time \in Nat /\ procs[p].remaining_time \in Nat
                          /\ procs[p].arrival_time \in Nat
  <2>1. TypeOK /\ OneRunning /\ IsFiniteSet(Work) /\ completed' \in 0 .. NumProcs
    BY DEF EngineInv, TypeOK, WorkKept
  <2>2. Cardinality(Work) \in Nat
    BY <2>1, FS_CardinalityType
  <2>3. \A p \in Procs : procs[p] \in Process
    BY <2>1 DEF TypeOK
  <2>4. \A p \in Procs : procs[p].state = "RUNNING" <=> p = running_process
    BY <2>1 DEF OneRunning
  <2>5. \A p \in Procs : /\ procs[p].burst_time \in Nat /\ procs[p].remaining_time \in Nat
                          /\ procs[p].arrival_time \in Nat
    BY <2>3, ProcessFields
  <2> QED
    BY <2>1, <2>2, <2>4, <2>5, NumProcsAssumption DEF TypeOK
<1>00. /\ \A p \in Procs : SameJob(procs[p], procs'[p])
       /\ \A end : OneAfterTheOther(end)' <=> OneAfterTheOther(end)
       /\ \A end : OneAfterTheOther(end) => \A i \in 0 .. NumProcs : end[i] \in Nat
  BY JobsStay, EndsStay DEF OneAfterTheOther
<1>1. CASE handle_completions
  <2>1. /\ UNCHANGED << current_time, next_arrival_idx >> /\ pc = "completion"
        /\ pc' \in {"finish", "done"} => completed' = NumProcs
        /\ (UNCHANGED << procs, running_process >>) \/ FinishNow(running_process)
    BY <1>1, CompletionEffect DEF handle_completions, LoopHead
  <2>2. CASE UNCHANGED << procs, running_process >>
    <3>1. Work' = Work
      BY <2>2 DEF Work, WorkOf
    <3>2. completed' = NumProcs => completed = NumProcs \/ running_process # NULL
      BY <1>1 DEF handle_completions
    <3> QED
      BY <1>0, <1>00, <2>1, <2>2, <3>1, <3>2 DEF WorkKept, OnSchedule
  <2>3. CASE FinishNow(running_process)
    <3>1. PICK r \in Procs : r = running_process /\ FinishNow(r)
      BY <2>3 DEF FinishNow
    <3>2. procs[r].burst_time > 0 /\ procs'[r].state = "FINISHED" /\ procs[r].remaining_time = 0
          /\ procs[r].state = "RUNNING"
      BY <2>1, <3>1 DEF FinishNow, Ended, EngineInv, CPUWellUsed
    <3>3. Work' = Work
      <4> SUFFICES ASSUME NEW p \in Procs PROVE WorkOf(p)' = WorkOf(p)
        BY WorkSame
      <4> QED
        BY <3>1, <3>2 DEF WorkOf, FinishNow
    <3>4. \A p \in Procs : procs'[p].state = "NOT_ARRIVED" => procs[p].state = "NOT_ARRIVED"
      BY <3>1, <3>2 DEF FinishNow
    <3> QED
      BY <1>0, <1>00, <2>1, <3>1, <3>3, <3>4 DEF WorkKept, OnSchedule, FinishNow, SameJob
  <2> QED
    BY <2>1, <2>2, <2>3
<1>2. CASE finish_instantly \/ execute
  <2>1. /\ UNCHANGED next_arrival_idx /\ current_time' = current_time + 1 /\ pc = "execute"
        /\ pc' \in {"finish", "done"} => completed' = NumProcs
    BY <1>0, <1>2 DEF finish_instantly, execute, LoopHead
  <2>2. PICK r \in Procs : r = running_process
    BY <1>2, FinishInstantlyEffect, ExecuteEffect DEF FinishNow
  <2>3. procs[r].state = "RUNNING" /\ procs'[r].state # "NOT_ARRIVED"
        /\ \A p \in Procs \ {r} : procs'[p] = procs[p]
    BY <1>2, <2>2, FinishInstantlyEffect, ExecuteEffect DEF FinishNow, Ended, EngineInv, TypeOK, Process
  <2>4. \E m \in Nat : m # 0 /\ WorkOf(r) = m /\ WorkOf(r)' = m - 1
    <3>1. CASE finish_instantly
      <4>1. procs[r].remaining_time = 0 /\ procs'[r].state = "FINISHED"
        BY <2>2, <3>1, FinishInstantlyEffect DEF FinishNow, Ended
      <4>2. procs[r].burst_time = 0
        BY <1>0, <2>1, <2>3, <4>1 DEF EngineInv, WorkAccounted, Exhausted, Finished
      <4> QED
        BY <2>3, <4>1, <4>2 DEF WorkOf
    <3>2. CASE execute
      <4>1. /\ procs[r].remaining_time # 0
            /\ procs' = [procs EXCEPT ![r].remaining_time = procs[r].remaining_time - 1]
        BY <2>2, <3>2, ExecuteEffect
      <4>2. /\ procs'[r].remaining_time = procs[r].remaining_time - 1
            /\ procs'[r].state = "RUNNING"
            /\ procs'[r].burst_time = procs[r].burst_time
        BY <2>3, <4>1 DEF EngineInv, TypeOK, Process
      <4>3. procs[r].burst_time # 0
        BY <1>0, <4>1 DEF EngineInv, WorkAccounted
      <4> QED
        BY <1>0, <2>3, <4>1, <4>2, <4>3 DEF WorkOf
    <3> QED
      BY <1>2, <3>1, <3>2
  <2>5. \A p \in Procs \ {r} : WorkOf(p)' = WorkOf(p)
    BY <2>3 DEF WorkOf
  <2>6. /\ Work # {} /\ IsFiniteSet(Work)'
        /\ Cardinality(Work)' = Cardinality(Work) - 1
        /\ Work' = {} <=> Cardinality(Work) = 1
    BY <1>0, <2>4, <2>5, WorkLess
  <2>7. ASSUME NEW p \in Procs, procs'[p].state = "NOT_ARRIVED"
        PROVE  procs'[p].arrival_time >= current_time'
    <3>1. procs[p].arrival_time > current_time /\ procs'[p] = procs[p]
      BY <2>1, <2>3, <2>7 DEF EngineInv, NoLateArrival
    <3> QED
      BY <1>0, <2>1, <3>1
  <2>8. ASSUME NEW end, OneAfterTheOther(end) PROVE OnSchedule(end)'
    <3>1. current_time + Cardinality(Work) = end[next_arrival_idx]
      BY <2>6, <2>8 DEF WorkKept, OnSchedule
    <3> QED
      BY <1>0, <1>00, <2>1, <2>6, <2>8, <3>1 DEF OnSchedule
  <2> QED
    BY <1>00, <2>1, <2>6, <2>7, <2>8 DEF WorkKept
<1>3. CASE idle
  <2>1. /\ UNCHANGED << next_arrival_idx, completed, procs, running_process >>
        /\ current_time' = current_time + 1 /\ pc = "execute" /\ running_process = NULL
        /\ pc' \in {"finish", "done"} => completed' = NumProcs
    BY <1>0, <1>3 DEF idle, LoopHead
  <2>2. Work = {} /\ Work' = {}
    <3>1. \A p \in Procs : procs[p].state \notin {"READY", "RUNNING"}
      BY <1>0, <2>1 DEF EngineInv, CPUWellUsed
    <3>2. \A p \in Procs : procs[p].state \in ProcessState
      BY DEF EngineInv, TypeOK, Process
    <3>3. \A p \in Procs : WorkOf(p) = 0 /\ WorkOf(p)' = 0
      BY <2>1, <3>1, <3>2 DEF WorkOf, ProcessState
    <3> QED
      BY <3>3 DEF Work
  <2>3. completed < NumProcs
    BY <2>1 DEF EngineInv, StepInLoop, InStep
  <2>4. ASSUME NEW p \in Procs, procs'[p].state = "NOT_ARRIVED"
        PROVE  procs'[p].arrival_time >= current_time'
    <3>1. procs[p].arrival_time > current_time
      BY <2>1, <2>4 DEF EngineInv, NoLateArrival
    <3> QED
      BY <1>0, <2>1, <3>1
  <2>5. ASSUME NEW end, OneAfterTheOther(end) PROVE OnSchedule(end)'
    <3>1. current_time >= end[next_arrival_idx] /\ end[next_arrival_idx] \in Nat
      BY <1>0, <1>00, <2>2, <2>5 DEF WorkKept, OnSchedule
    <3> QED
      BY <1>0, <2>1, <2>2, <2>3, <3>1 DEF OnSchedule
  <2> QED
    BY <1>0, <1>00, <2>1, <2>2, <2>4, <2>5 DEF WorkKept
<1>4. ASSUME NEW request \in BOOLEAN, arrive(request) PROVE WorkKept'
  <2>1. PICK a \in Procs : a = next_arrival_idx + 1
    BY <1>4, ArrivalEffect
  <2>2. /\ next_arrival_idx' = a /\ pc = "arrival" /\ pc' = "arrival"
        /\ UNCHANGED << current_time, running_process, completed >>
        /\ procs[a].arrival_time <= current_time
    BY <1>4, <2>1 DEF arrive, ArrivalDue
  <2>3. /\ procs[a].state = "NOT_ARRIVED" /\ procs'[a].state = "READY"
        /\ \A p \in Procs \ {a} : procs'[p] = procs[p]
        /\ procs'[a].remaining_time = procs[a].remaining_time
        /\ procs'[a].burst_time = procs[a].burst_time
    BY <1>4, <2>1, ArrivalEffect DEF SameRecord, SameJob
  <2>4. procs[a].remaining_time = procs[a].burst_time
    <3>1. Ticks(a) = {}
      BY <2>3 DEF MetricsKept, StartOf
    <3>2. Cardinality(Ticks(a)) = procs[a].burst_time - procs[a].remaining_time
      BY DEF LogAccountsForCPU
    <3>3. Cardinality({}) = 0
      BY FS_EmptySet
    <3> QED
      BY <1>0, <3>1, <3>2, <3>3
  <2>5. /\ WorkOf(a) = 0 /\ WorkOf(a)' = Charge(a) /\ Charge(a) \in Nat /\ Charge(a) # 0
        /\ \A p \in Procs \ {a} : WorkOf(p)' = WorkOf(p)
    BY <1>0, <2>3, <2>4 DEF WorkOf, Charge
  <2>6. /\ Work' # {} /\ IsFiniteSet(Work)'
        /\ Cardinality(Work)' = Cardinality(Work) + Charge(a)
    BY <1>0, <2>5, WorkMore
  <2>7. procs[a].arrival_time = current_time
    BY <1>0, <2>2, <2>3 DEF WorkKept
  <2>8. Work = {} => running_process = NULL
    <3> SUFFICES ASSUME running_process # NULL PROVE Work # {}
      OBVIOUS
    <3>1. PICK r \in Procs : r = running_process
      BY DEF EngineInv, TypeOK
    <3>2. procs[r].state = "RUNNING" /\ procs[r].burst_time > 0 /\ procs[r].remaining_time # 0
      BY <1>0, <2>2, <3>1 DEF EngineInv, CPUWellUsed, WorkAccounted, Exhausted, Finished
    <3>3. << r, 1 >> \in Work
      BY <1>0, <3>2 DEF Work, WorkOf
    <3> QED
      BY <3>3
  <2>9. ASSUME NEW end, OneAfterTheOther(end) PROVE OnSchedule(end)'
    <3>1. end[a] = Longer(end[a - 1], current_time) + Charge(a) /\ a - 1 = next_arrival_idx
      BY <1>0, <2>1, <2>7, <2>9 DEF OneAfterTheOther
    <3>2. end[next_arrival_idx] \in Nat
      BY <1>0, <1>00, <2>9
    <3>3. current_time + Cardinality(Work) = Longer(end[next_arrival_idx], current_time)
      <4>1. CASE Work = {}
        <5>1. Cardinality(Work) = 0 /\ current_time >= end[next_arrival_idx]
          BY <2>9, <4>1, FS_EmptySet DEF WorkKept, OnSchedule
        <5> QED
          BY <1>0, <3>2, <5>1 DEF Longer
      <4>2. CASE Work # {}
        <5>1. current_time + Cardinality(Work) = end[next_arrival_idx] /\ Cardinality(Work) # 0
          BY <1>0, <2>9, <4>2, FS_EmptySet DEF WorkKept, OnSchedule
        <5> QED
          BY <1>0, <3>2, <5>1 DEF Longer
      <4> QED
        BY <4>1, <4>2
    <3> QED
      BY <1>0, <2>2, <2>5, <2>6, <3>1, <3>2, <3>3 DEF OnSchedule, Longer
  <2>10. \A p \in Procs : procs'[p].state = "NOT_ARRIVED" => procs'[p].arrival_time >= current_time'
    BY <2>2, <2>3 DEF WorkKept
  <2> QED
    BY <1>00, <2>2, <2>6, <2>9, <2>10 DEF WorkKept
<1>5. ASSUME NEW next \in Procs \cup {NULL}, MayReturn(next), handle_dispatch(next)
      PROVE  WorkKept'
  <2>1. /\ UNCHANGED << current_time, next_arrival_idx, completed >>
        /\ pc = "dispatch" /\ pc' = "execute" /\ running_process' = next
        /\ \A p \in Procs : procs'[p].remaining_time = procs[p].remaining_time
    BY <1>5, DispatchEffect DEF handle_dispatch, SameRecord, Started
  <2>2. /\ \A p \in Procs : procs'[p].state = IF p = next THEN "RUNNING"
                                              ELSE IF p = running_process THEN "READY"
                                              ELSE procs[p].state
        /\ next # NULL => procs[next].state \in {"READY", "RUNNING"}
    BY <1>5, DispatchEffect
  <2>3. Work' = Work
    <3> SUFFICES ASSUME NEW p \in Procs PROVE WorkOf(p)' = WorkOf(p)
      BY WorkSame
    <3>1. procs'[p].state \in {"NOT_ARRIVED", "FINISHED"} <=> procs[p].state \in {"NOT_ARRIVED", "FINISHED"}
      BY <1>0, <2>2
    <3> QED
      BY <1>00, <2>1, <3>1 DEF WorkOf, SameJob
  <2>4. next # NULL => Work # {}
    <3> SUFFICES ASSUME next \in Procs PROVE Work # {}
      OBVIOUS
    <3>1. procs[next].burst_time > 0 => procs[next].remaining_time # 0
      BY <2>1, <2>2 DEF EngineInv, WorkAccounted, Exhausted, Finished
    <3>2. << next, 1 >> \in Work
      BY <1>0, <2>2, <3>1 DEF Work, WorkOf
    <3> QED
      BY <3>2
  <2>5. \A p \in Procs : procs'[p].state = "NOT_ARRIVED" => procs'[p].arrival_time >= current_time'
    BY <1>0, <1>00, <2>1, <2>2 DEF WorkKept, SameJob
  <2>6. ASSUME NEW end, OneAfterTheOther(end) PROVE OnSchedule(end)'
    BY <2>1, <2>3, <2>4, <2>6 DEF WorkKept, OnSchedule
  <2> QED
    BY <1>00, <2>1, <2>3, <2>5, <2>6 DEF WorkKept
<1>6. CASE Silent
  <2>1. UNCHANGED << procs, current_time, running_process, next_arrival_idx, completed >>
    BY <1>6, SilentEffect
  <2>2. pc' \in {"finish", "done"} => completed = NumProcs
    BY <1>0, <1>6 DEF Silent, arrivals_done, no_tick, keep_running, on_init, on_finish,
       policy_tick, vars, LoopHead, WorkKept
  <2>3. Work' = Work
    BY <2>1 DEF Work, WorkOf
  <2> QED
    BY <1>00, <2>1, <2>2, <2>3 DEF WorkKept, OnSchedule
<1> QED
  BY <1>1, <1>2, <1>3, <1>4, <1>5, <1>6, StepCases

\* When the loop is over no work is left.
LEMMA MakespanReached ==
  ASSUME EngineInv, WorkKept, pc = "done"
  PROVE  Finished = Procs /\ current_time = Makespan
<1>1. Finished = Procs
  BY AllFinished DEF WorkKept, EngineInv
<1>2. Work = {}
  BY <1>1 DEF Work, WorkOf, Finished
<1>3. next_arrival_idx = NumProcs
  <2>1. \A p \in Procs : ~(next_arrival_idx < p)
    BY <1>1 DEF EngineInv, ArrivedInOrder, Finished
  <2>2. next_arrival_idx \in 0 .. NumProcs
    BY DEF EngineInv, TypeOK
  <2> QED
    BY <2>1, <2>2, NumProcsAssumption
<1>4. PICK end : OneAfterTheOther(end) /\ Makespan = end[NumProcs]
  BY MakespanSteps DEF EngineInv
<1> QED
  BY <1>1, <1>2, <1>3, <1>4 DEF WorkKept, OnSchedule

(***************************************************************************)
(* MakespanIsPolicyIndependent: every policy ends the simulation at the    *)
(* time at which the processes end when run one after the other in order   *)
(* of arrival.                                                             *)
(***************************************************************************)
THEOREM MakespanIsFixed == Spec => []MakespanIsPolicyIndependent
<1>1. EngineInv /\ WorkKept => MakespanIsPolicyIndependent
  BY MakespanReached DEF MakespanIsPolicyIndependent
<1> QED
  BY <1>1, EngineInit, EngineStep, LogInit, LogStep, MetricsInit, MetricsStep, WorkInit, WorkStep,
     PTL DEF Spec
-----------------------------------------------------------------------------
(***************************************************************************)
(* The report.  When it is printed every process has finished, so its sums *)
(* are those of the counts of the log.                                     *)
(***************************************************************************)
\* The metrics of a process, as counts of its life, its ticks and the time it waited.
LEMMA ReportOfProcess ==
  ASSUME EngineInv, LogAccountsForCPU, MetricsKept, NEW p \in Finished
  PROVE  /\ IsFiniteSet(Life(p)) /\ IsFiniteSet(Waiting(p)) /\ IsFiniteSet(Unserved(p))
         /\ procs[p].turnaround_time = Cardinality(Life(p))
         /\ procs[p].waiting_time = Cardinality(Waiting(p))
         /\ procs[p].response_time = Cardinality(Unserved(p))
         /\ procs[p].burst_time = Cardinality(Ticks(p))
         /\ procs[p].turnaround_time = procs[p].finish_time - procs[p].arrival_time
         /\ procs[p].waiting_time = procs[p].turnaround_time - procs[p].burst_time
         /\ procs[p].response_time = procs[p].start_time - procs[p].arrival_time
<1>0. /\ p \in Procs /\ p # running_process /\ TypeOK /\ CPUOf(p) /\ StartOf(p) /\ EndOf(p)
      /\ Len(gantt_log) = current_time /\ current_time \in Nat
  BY LogByProcess DEF Finished, EngineInv, OneRunning, TypeOK, MetricsKept
<1>1. /\ procs[p].arrival_time \in Nat /\ procs[p].finish_time \in Int
      /\ procs[p].start_time \in Int /\ procs[p].burst_time \in Nat
  BY <1>0, ProcessFields, RecordFields DEF TypeOK
<1>2. /\ procs[p].turnaround_time = Cardinality(Life(p))
      /\ procs[p].waiting_time = Cardinality(Waiting(p))
      /\ procs[p].response_time = Cardinality(Unserved(p))
  BY MetricsAreCounts DEF MetricsMatchLog, Unserved
<1>3. IsFiniteSet(Life(p))
  <2>1. procs[p].arrival_time + 1 \in Int
    BY <1>1
  <2> QED
    BY <1>1, <2>1, FS_Interval DEF Life
<1>4. IsFiniteSet(Waiting(p)) /\ IsFiniteSet(Unserved(p))
  <2>1. Waiting(p) \subseteq Life(p) /\ Unserved(p) \subseteq Life(p)
    BY DEF Waiting, Unserved
  <2> QED
    BY <1>3, <2>1, FS_Subset
<1>5. procs[p].burst_time = Cardinality(Ticks(p))
  BY <1>0, <1>1 DEF CPUOf, EndOf
<1>6. procs[p].start_time # -1
  BY <1>0 DEF StartOf, Finished
<1> QED
  BY <1>0, <1>2, <1>3, <1>4, <1>5, <1>6 DEF StartOf, EndOf

LEMMA ReportIsCount ==
  EngineInv /\ LogAccountsForCPU /\ MetricsKept /\ WorkKept => ReportMatchesLog
<1> SUFFICES ASSUME EngineInv, LogAccountsForCPU, MetricsKept, WorkKept, pc = "done", NumProcs > 0
             PROVE  LET waited(p) == /\ Cardinality(Waiting(p)) > ConvoyThreshold
                                     /\ Cardinality(Waiting(p)) > Cardinality(Ticks(p))
                        report == print_metrics_table
                    IN  /\ report.avg_tt = Cardinality(Alive) \div NumProcs
                        /\ report.avg_wt = Cardinality(Delay) \div NumProcs
                        /\ report.avg_rt = Cardinality(Response) \div NumProcs
                        /\ IF report.convoy = NULL THEN \A p \in Procs : ~waited(p)
                             ELSE /\ waited(report.convoy)
                                  /\ \A p \in 1 .. report.convoy - 1 : ~waited(p)
                        /\ calculate_metrics(procs) = procs
  BY DEF ReportMatchesLog
<1> DEFINE waited(p) == /\ Cardinality(Waiting(p)) > ConvoyThreshold
                        /\ Cardinality(Waiting(p)) > Cardinality(Ticks(p))
           report == print_metrics_table
<1>1. Finished = Procs /\ NumProcs \in Nat \ {0} /\ procs \in [Procs -> Process]
  BY AllFinished, NumProcsAssumption DEF WorkKept, EngineInv, TypeOK
<1>2. \A p \in Procs :
        /\ IsFiniteSet(Life(p)) /\ IsFiniteSet(Waiting(p)) /\ IsFiniteSet(Unserved(p))
        /\ procs[p].turnaround_time = Cardinality(Life(p))
        /\ procs[p].waiting_time = Cardinality(Waiting(p))
        /\ procs[p].response_time = Cardinality(Unserved(p))
        /\ procs[p].burst_time = Cardinality(Ticks(p))
  BY <1>1, ReportOfProcess
<1>3. /\ total_tt = Cardinality(Alive) /\ total_wt = Cardinality(Delay)
      /\ total_rt = Cardinality(Response)
  <2>1. Cardinality(Alive) = Total(NumProcs, [p \in Procs |-> Cardinality(Life(p))])
    <3> DEFINE S == [p \in Procs |-> Life(p)]
    <3>1. \A p \in Procs : S[p] = Life(p) /\ IsFiniteSet(S[p])
      BY <1>2
    <3> HIDE DEF S
    <3>2. Cardinality(UNION {{p} \X S[p] : p \in Procs})
            = Total(NumProcs, [p \in Procs |-> Cardinality(S[p])])
      BY <1>1, <3>1, TotalOfSizes DEF Procs
    <3>3. UNION {{p} \X S[p] : p \in Procs} = Alive
      BY <3>1, Zenon DEF Alive
    <3>4. [p \in Procs |-> Cardinality(S[p])] = [p \in Procs |-> Cardinality(Life(p))]
      BY <3>1, Zenon
    <3> QED
      BY <3>2, <3>3, <3>4, Zenon
  <2>2. Cardinality(Delay) = Total(NumProcs, [p \in Procs |-> Cardinality(Waiting(p))])
    <3> DEFINE S == [p \in Procs |-> Waiting(p)]
    <3>1. \A p \in Procs : S[p] = Waiting(p) /\ IsFiniteSet(S[p])
      BY <1>2
    <3> HIDE DEF S
    <3>2. Cardinality(UNION {{p} \X S[p] : p \in Procs})
            = Total(NumProcs, [p \in Procs |-> Cardinality(S[p])])
      BY <1>1, <3>1, TotalOfSizes DEF Procs
    <3>3. UNION {{p} \X S[p] : p \in Procs} = Delay
      BY <3>1, Zenon DEF Delay
    <3>4. [p \in Procs |-> Cardinality(S[p])] = [p \in Procs |-> Cardinality(Waiting(p))]
      BY <3>1, Zenon
    <3> QED
      BY <3>2, <3>3, <3>4, Zenon
  <2>3. Cardinality(Response) = Total(NumProcs, [p \in Procs |-> Cardinality(Unserved(p))])
    <3> DEFINE S == [p \in Procs |-> Unserved(p)]
    <3>1. \A p \in Procs : S[p] = Unserved(p) /\ IsFiniteSet(S[p])
      BY <1>2
    <3> HIDE DEF S
    <3>2. Cardinality(UNION {{p} \X S[p] : p \in Procs})
            = Total(NumProcs, [p \in Procs |-> Cardinality(S[p])])
      BY <1>1, <3>1, TotalOfSizes DEF Procs
    <3>3. UNION {{p} \X S[p] : p \in Procs} = Response
      BY <3>1, Zenon DEF Response
    <3>4. [p \in Procs |-> Cardinality(S[p])] = [p \in Procs |-> Cardinality(Unserved(p))]
      BY <3>1, Zenon
    <3> QED
      BY <3>2, <3>3, <3>4, Zenon
  <2>4. /\ [p \in Procs |-> procs[p].turnaround_time] = [p \in Procs |-> Cardinality(Life(p))]
        /\ [p \in Procs |-> procs[p].waiting_time] = [p \in Procs |-> Cardinality(Waiting(p))]
        /\ [p \in Procs |-> procs[p].response_time] = [p \in Procs |-> Cardinality(Unserved(p))]
    BY <1>2, Zenon
  <2> QED
    BY <2>1, <2>2, <2>3, <2>4, Zenon DEF total_tt, total_wt, total_rt
<1>4. /\ report.avg_tt = total_tt \div NumProcs /\ report.avg_wt = total_wt \div NumProcs
      /\ report.avg_rt = total_rt \div NumProcs
  BY DEF print_metrics_table
<1>5. IF report.convoy = NULL THEN \A p \in Procs : ~waited(p)
      ELSE waited(report.convoy) /\ \A p \in 1 .. report.convoy - 1 : ~waited(p)
  <2>1. \A p \in Procs : p \in Convoys <=> waited(p)
    BY <1>2 DEF Convoys
  <2>2. CASE Convoys = {}
    BY <2>1, <2>2 DEF print_metrics_table
  <2>3. CASE Convoys # {}
    <3>1. Convoys \subseteq Nat
      BY DEF Convoys, Procs
    <3>2. \E p \in Convoys : \A q \in Convoys : p <= q
      BY <2>3, <3>1, LeastNatural
    <3>3. report.convoy = CHOOSE p \in Convoys : \A q \in Convoys : p <= q
      BY <2>3 DEF print_metrics_table
    <3>4. report.convoy \in Convoys /\ \A q \in Convoys : report.convoy <= q
      BY <3>2, <3>3, Zenon
    <3>5. report.convoy \in Procs /\ Convoys \subseteq Procs
      BY <3>4 DEF Convoys
    <3> HIDE DEF report, waited
    <3> QED
      BY <1>1, <2>1, <3>4, <3>5 DEF Procs, NULL
  <2> QED
    BY <2>2, <2>3
<1>6. calculate_metrics(procs) = procs
  <2>1. ASSUME NEW p \in Procs PROVE calculate_metrics(procs)[p] = procs[p]
    <3>1. /\ procs[p].turnaround_time = procs[p].finish_time - procs[p].arrival_time
          /\ procs[p].waiting_time = procs[p].turnaround_time - procs[p].burst_time
          /\ procs[p].response_time = procs[p].start_time - procs[p].arrival_time
      BY <1>1, ReportOfProcess
    <3>2. procs[p] \in Process
      BY <1>1
    <3> QED
      BY <3>1, <3>2 DEF calculate_metrics, Process
  <2>2. calculate_metrics(procs) = [p \in Procs |-> calculate_metrics(procs)[p]]
    BY DEF calculate_metrics
  <2> QED
    BY <1>1, <2>1, <2>2
<1> QED
  BY <1>3, <1>4, <1>5, <1>6

(***************************************************************************)
(* ReportMatchesLog: the averages of the table and the process of the      *)
(* convoy warning, under any policy and for any threshold, are those one   *)
(* counts in the log.                                                      *)
(***************************************************************************)
THEOREM ReportIsRight == Spec => []ReportMatchesLog
BY ReportIsCount, EngineInit, EngineStep, LogInit, LogStep, MetricsInit, MetricsStep, WorkInit,
   WorkStep, PTL DEF Spec
=============================================================================
