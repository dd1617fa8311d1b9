-------------------------- MODULE RoundRobinProofs --------------------------
(***************************************************************************)
(* Theorems about Round Robin, for every number of processes, workload and *)
(* quantum: it keeps the contract of the engine, and its queue holds the   *)
(* processes that wait, once each.                                         *)
(***************************************************************************)
EXTENDS RoundRobin, EngineProofs

USE DEF Procs, NULL

-----------------------------------------------------------------------------
(***************************************************************************)
(* The inductive invariant.  QueueHoldsReady is not inductive alone: it    *)
(* needs that a preemption is asked for only from the end of a slice to    *)
(* the dispatch of the same time unit, that the queue on_init replaces is  *)
(* empty, and that on_finish empties a queue in which nobody waits.        *)
(***************************************************************************)
ReadyProcs == {p \in Procs : procs[p].state = "READY"}

OnlyRunnerPreempted == preempt_requested => pc = "dispatch" /\ running_process # NULL

RRInductive ==
  /\ EngineInv
  /\ RRInv
  /\ OnlyRunnerPreempted
  /\ pc = "init" => ready_queue = << >>
  /\ pc \in {"finish", "done"} => completed = NumProcs

\* QueueHoldsReady in terms of Distinct and Members.
LEMMA QueueMembers ==
  QueueHoldsReady <=>
    /\ Distinct(ready_queue)
    /\ Members(ready_queue) = ReadyProcs \cup (IF preempt_requested THEN {running_process} ELSE {})
BY DEF QueueHoldsReady, Queued, Distinct, Members, ReadyProcs

\* The same of the next state; `waiting` is what its queue has to hold.
LEMMA QueueMembersNext ==
  ASSUME Distinct(ready_queue'), NEW waiting,
         waiting = ReadyProcs' \cup (IF preempt_requested' THEN {running_process'} ELSE {}),
         Members(ready_queue') = waiting
  PROVE  QueueHoldsReady'
BY DEF QueueHoldsReady, Queued, Distinct, Members, ReadyProcs

\* After the loop every process has finished, so nobody is READY.
LEMMA NobodyWaitsAtTheEnd ==
  ASSUME TypeOK, CompletedCountsFinished, completed = NumProcs
  PROVE  ReadyProcs = {}
BY AllFinished DEF Finished, ReadyProcs

\* The head of the queue is a process that may run; an empty queue means there is none.
LEMMA QueueKeepsContract ==
  ASSUME RRInductive, pc = "dispatch", DispatchDue
  PROVE  DequeuedProcess \in Procs \cup {NULL} /\ MayReturn(DequeuedProcess)
<1> USE DEF RRInductive, RRInv, RRTypeOK
<1>1. Distinct(ready_queue)
  BY QueueMembers
<1>2. Members(ready_queue) = ReadyProcs \cup (IF preempt_requested THEN {running_process} ELSE {})
  BY QueueMembers
<1>3. CASE is_empty
  <2>1. Members(ready_queue) = {}
    BY <1>3, NoMembers DEF is_empty
  <2>2. ~preempt_requested /\ ReadyProcs = {}
    BY <1>2, <2>1
  <2>3. running_process = NULL
    BY <2>2 DEF DispatchDue
  <2>4. Candidates = {}
    BY <2>2, <2>3 DEF Candidates, ReadyProcs
  <2> QED
    BY <1>3, <2>4 DEF DequeuedProcess, MayReturn
<1>4. CASE ~is_empty
  <2>1. Head(ready_queue) \in Members(ready_queue) \cap Procs
    BY <1>1, <1>4, DequeueMembers DEF is_empty
  <2>2. Head(ready_queue) \in Candidates
    BY <1>2, <2>1 DEF Candidates, ReadyProcs
  <2> QED
    BY <1>4, <2>1, <2>2 DEF DequeuedProcess, MayReturn
<1> QED
  BY <1>3, <1>4

(***************************************************************************)
(* Every step of Round Robin is a step of the engine.                      *)
(***************************************************************************)
LEMMA RRStepIsEngineStep == RRInductive /\ RRNext => Next
<1> SUFFICES ASSUME RRInductive, RRNext PROVE Next
  OBVIOUS
<1>1. CASE Mechanism
  BY <1>1 DEF Next
<1>2. CASE rr_on_init
  BY <1>2 DEF Next, rr_on_init
<1>3. CASE rr_on_arrival
  <2>1. FALSE \in BOOLEAN /\ MayRequest(FALSE) /\ arrive(FALSE)
    BY <1>3 DEF rr_on_arrival, MayRequest
  <2> QED
    BY <2>1 DEF Next
<1>4. CASE rr_on_tick
  <2>1. policy_tick(SliceOver) /\ running_process # NULL
    BY <1>4 DEF rr_on_tick, policy_tick
  <2>2. SliceOver \in BOOLEAN /\ MayRequest(SliceOver)
    BY <2>1 DEF SliceOver, MayRequest
  <2> QED
    BY <2>1, <2>2 DEF Next
<1>5. CASE rr_next_process
  <2>1. handle_dispatch(DequeuedProcess) /\ pc = "dispatch" /\ DispatchDue
    BY <1>5 DEF rr_next_process, handle_dispatch
  <2> QED
    BY <2>1, QueueKeepsContract DEF Next
<1>6. CASE rr_on_finish
  BY <1>6 DEF Next, rr_on_finish
<1> QED
  BY <1>1, <1>2, <1>3, <1>4, <1>5, <1>6 DEF RRNext
-----------------------------------------------------------------------------
(***************************************************************************)
(* The steps that leave the queue alone: no process becomes READY or stops *)
(* being READY.                                                            *)
(***************************************************************************)
LEMMA SameQueueKeepsInv ==
  ASSUME RRInductive, ~preempt_requested, ~preempt_requested',
         \A p \in Procs : procs[p]'.state = "READY" <=> procs[p].state = "READY",
         UNCHANGED rrVars
  PROVE  RRInv'
<1>1. ReadyProcs' = ReadyProcs
  BY DEF ReadyProcs
<1>2. UNCHANGED << quantum, ready_queue, current_quantum >>
  BY DEF rrVars
<1>3. RRTypeOK'
  BY <1>2 DEF RRInductive, RRInv, RRTypeOK
<1>4. Distinct(ready_queue) /\ Members(ready_queue) = ReadyProcs
  BY QueueMembers DEF RRInductive, RRInv
<1>5. QueueHoldsReady'
  BY <1>1, <1>2, <1>4, QueueMembersNext
<1> QED
  BY <1>3, <1>5 DEF RRInv

LEMMA MechanismKeepsQueue ==
  ASSUME RRInductive, Mechanism, UNCHANGED rrVars
  PROVE  RRInv' /\ OnlyRunnerPreempted'
<1> USE DEF RRInductive, EngineInv, OnlyRunnerPreempted
<1>1. /\ preempt_requested' = preempt_requested
      /\ \A p \in Procs : procs[p]'.state = "READY" <=> procs[p].state = "READY"
  BY MechanismKeepsReady
<1>2. ~preempt_requested
  BY <1>1 DEF Mechanism, handle_completions, arrivals_done, no_tick, keep_running, DispatchDue,
     finish_instantly, execute, idle, returned
<1> QED
  BY <1>1, <1>2, SameQueueKeepsInv

\* on_init: nobody has joined the queue that is replaced.
LEMMA InitKeepsQueue ==
  ASSUME RRInductive, rr_on_init
  PROVE  RRInv' /\ OnlyRunnerPreempted'
<1> USE DEF RRInductive, RRInv, OnlyRunnerPreempted
<1>1. /\ pc = "init" /\ ready_queue' = << >> /\ ready_queue = << >>
      /\ current_quantum' = quantum /\ quantum' = quantum
      /\ procs' = procs /\ preempt_requested' = preempt_requested /\ ~preempt_requested
  BY DEF rr_on_init, on_init
<1>2. RRTypeOK'
  BY <1>1, NoMembers, QuantaAssumption DEF RRTypeOK
<1>3. ReadyProcs = {}
  BY <1>1, NoMembers, QueueMembers
<1>4. ReadyProcs' = {}
  BY <1>1, <1>3 DEF ReadyProcs
<1>5. QueueHoldsReady'
  BY <1>1, <1>4, NoMembers, QueueMembersNext
<1> QED
  BY <1>1, <1>2, <1>5

\* on_arrival queues the process that has just become READY.
LEMMA ArrivalKeepsQueue ==
  ASSUME RRInductive, rr_on_arrival
  PROVE  RRInv' /\ OnlyRunnerPreempted'
<1> USE DEF RRInductive, RRInv, OnlyRunnerPreempted
<1> DEFINE p == next_arrival_idx + 1
<1>1. /\ pc = "arrival" /\ ~preempt_requested /\ ~preempt_requested'
      /\ next_arrival_idx < NumProcs
      /\ procs[p].state = "NOT_ARRIVED"
      /\ procs' = [procs EXCEPT ![p] = process_ready(@)]
      /\ ready_queue' = Append(ready_queue, p)
      /\ UNCHANGED << quantum, current_quantum >>
  BY DEF rr_on_arrival, arrive, ArrivalDue, enqueue
<1>2. p \in Procs /\ procs[p] \in Process
  BY <1>1, NumProcsAssumption DEF EngineInv, TypeOK
<1> HIDE DEF p
<1>3. process_ready(procs[p]).state = "READY"
  BY <1>2, ReadyProcess
<1>4. ReadyProcs' = ReadyProcs \cup {p} /\ p \notin ReadyProcs
  BY <1>1, <1>2, <1>3 DEF ReadyProcs, EngineInv, TypeOK
<1>5. Distinct(ready_queue) /\ Members(ready_queue) = ReadyProcs /\ ready_queue \in Seq(Procs)
  BY <1>1, QueueMembers DEF RRTypeOK
<1>6. /\ ready_queue' \in Seq(Procs)
      /\ Distinct(ready_queue')
      /\ Members(ready_queue') = ReadyProcs \cup {p}
  <2> HIDE DEF Procs
  <2> QED
    BY <1>1, <1>2, <1>4, <1>5, EnqueueMembers
<1>7. RRTypeOK'
  BY <1>1, <1>6 DEF RRTypeOK
<1>8. QueueHoldsReady'
  BY <1>1, <1>4, <1>6, QueueMembersNext
<1> QED
  BY <1>1, <1>7, <1>8

\* on_tick queues the process that runs if and only if it asks for its preemption.
LEMMA TickKeepsQueue ==
  ASSUME RRInductive, rr_on_tick
  PROVE  RRInv' /\ OnlyRunnerPreempted'
<1> USE DEF RRInductive, RRInv, OnlyRunnerPreempted
<1>1. /\ pc = "tick" /\ pc' = "dispatch" /\ ~preempt_requested
      /\ running_process \in Procs /\ running_process' = running_process
      /\ preempt_requested' <=> SliceOver
      /\ procs' = procs /\ quantum' = quantum
      /\ current_quantum' = current_quantum - 1
  BY DEF rr_on_tick, policy_tick, EngineInv, TypeOK
<1>2. running_process' # NULL
  BY <1>1
<1>3. Distinct(ready_queue) /\ Members(ready_queue) = ReadyProcs /\ ready_queue \in Seq(Procs)
  BY <1>1, QueueMembers DEF RRTypeOK
<1>4. ReadyProcs' = ReadyProcs
  BY <1>1 DEF ReadyProcs
<1>5. running_process \notin ReadyProcs
  BY <1>1 DEF ReadyProcs, EngineInv, OneRunning
<1>6. CASE SliceOver
  <2>1. ready_queue' = Append(ready_queue, running_process)
    BY <1>6 DEF rr_on_tick, requeue, enqueue
  <2>2. /\ ready_queue' \in Seq(Procs)
        /\ Distinct(ready_queue')
        /\ Members(ready_queue') = ReadyProcs \cup {running_process}
    <3> HIDE DEF Procs
    <3> QED
      BY <1>1, <1>3, <1>5, <2>1, EnqueueMembers
  <2>3. preempt_requested'
    BY <1>1, <1>6
  <2>4. QueueHoldsReady'
    BY <1>1, <1>4, <2>2, <2>3, QueueMembersNext
  <2> QED
    BY <1>1, <1>2, <2>2, <2>4 DEF RRTypeOK
<1>7. CASE ~SliceOver
  <2>1. ready_queue' = ready_queue
    BY <1>7 DEF rr_on_tick, requeue
  <2>2. ~preempt_requested'
    BY <1>1, <1>7
  <2>3. QueueHoldsReady'
    BY <1>3, <1>4, <2>1, <2>2, QueueMembersNext
  <2> QED
    BY <1>1, <1>2, <2>1, <2>3 DEF RRTypeOK
<1> QED
  BY <1>6, <1>7

(***************************************************************************)
(* next_process: the process of an ended slice is READY again by the time  *)
(* it stands in the queue alone, and the process dequeued runs.            *)
(***************************************************************************)
LEMMA DispatchKeepsQueue ==
  ASSUME RRInductive, rr_next_process
  PROVE  RRInv' /\ OnlyRunnerPreempted'
<1> USE DEF RRInductive, RRInv, OnlyRunnerPreempted
<1> DEFINE first == DequeuedProcess
<1>1. /\ pc = "dispatch" /\ DispatchDue /\ ~preempt_requested'
      /\ procs' = Dispatched(first)
      /\ ready_queue' = IF is_empty THEN ready_queue ELSE Tail(ready_queue)
      /\ current_quantum' \in {quantum, current_quantum} /\ quantum' = quantum
  BY DEF rr_next_process, handle_dispatch, dequeue
<1>2. first \in Procs \cup {NULL} /\ MayReturn(first)
  BY <1>1, QueueKeepsContract
<1>3. \A p \in Procs : procs[p]'.state = IF p = first THEN "RUNNING"
                                         ELSE IF p = running_process THEN "READY"
                                         ELSE procs[p].state
  BY <1>1, <1>2, DispatchedProcess DEF EngineInv
<1>4. Distinct(ready_queue) /\ ready_queue \in Seq(Procs)
  BY QueueMembers DEF RRTypeOK
<1>5. Members(ready_queue) = ReadyProcs \cup (IF preempt_requested THEN {running_process} ELSE {})
  BY QueueMembers
<1>6. preempt_requested <=> running_process # NULL
  BY <1>1 DEF DispatchDue
<1>7. running_process \in Procs \cup {NULL}
  BY DEF EngineInv, TypeOK
<1> HIDE DEF first
<1>8. ReadyProcs' = Members(ready_queue) \ {first}
  BY <1>3, <1>5, <1>6, <1>7 DEF ReadyProcs
<1>9. /\ ready_queue' \in Seq(Procs)
      /\ Distinct(ready_queue')
      /\ Members(ready_queue') = Members(ready_queue) \ {first}
  <2>1. CASE is_empty
    <3>1. ready_queue' = ready_queue /\ ready_queue = << >>
      BY <1>1, <2>1 DEF is_empty
    <3> QED
      BY <1>4, <3>1, NoMembers
  <2>2. CASE ~is_empty
    <3>1. ready_queue' = Tail(ready_queue) /\ first = Head(ready_queue) /\ ready_queue # << >>
      BY <1>1, <2>2 DEF is_empty, first, DequeuedProcess
    <3> QED
      BY <1>4, <3>1, DequeueMembers
  <2> QED
    BY <2>1, <2>2
<1>10. RRTypeOK'
  BY <1>1, <1>9, QuantaAssumption DEF RRTypeOK
<1>11. QueueHoldsReady'
  BY <1>1, <1>8, <1>9, QueueMembersNext
<1> QED
  BY <1>1, <1>10, <1>11

\* on_finish empties the queue, in which nobody is left.
LEMMA FinishKeepsQueue ==
  ASSUME RRInductive, rr_on_finish
  PROVE  RRInv' /\ OnlyRunnerPreempted'
<1> USE DEF RRInductive, RRInv, OnlyRunnerPreempted
<1>1. /\ pc = "finish" /\ ready_queue' = << >>
      /\ quantum' = quantum /\ current_quantum' = current_quantum
      /\ procs' = procs /\ ~preempt_requested /\ ~preempt_requested'
  BY DEF rr_on_finish, on_finish
<1>2. RRTypeOK'
  BY <1>1, NoMembers DEF RRTypeOK
<1>3. ReadyProcs = {}
  BY <1>1, NobodyWaitsAtTheEnd DEF EngineInv
<1>4. ReadyProcs' = {}
  BY <1>1, <1>3 DEF ReadyProcs
<1>5. QueueHoldsReady'
  BY <1>1, <1>4, NoMembers, QueueMembersNext
<1> QED
  BY <1>1, <1>2, <1>5
-----------------------------------------------------------------------------
LEMMA RRInitInductive == RRInit => RRInductive
<1> SUFFICES ASSUME RRInit PROVE RRInductive
  OBVIOUS
<1>1. EngineInv
  BY EngineInit DEF RRInit
<1>2. pc = "init" /\ ~preempt_requested /\ ready_queue = << >>
  BY DEF RRInit, Init
<1>3. RRTypeOK
  BY <1>2, NoMembers DEF RRInit, RRTypeOK
<1>4. \A p \in Procs : procs[p].state = "NOT_ARRIVED"
  BY ParsedProcess DEF RRInit, Init, Workloads
<1>5. ReadyProcs = {}
  BY <1>4 DEF ReadyProcs
<1>6. QueueHoldsReady
  BY <1>2, <1>5, NoMembers, QueueMembers
<1> QED
  BY <1>1, <1>2, <1>3, <1>6 DEF RRInductive, RRInv, OnlyRunnerPreempted

LEMMA RRInductiveStep == RRInductive /\ [RRNext]_<< vars, rrVars >> => RRInductive'
<1> SUFFICES ASSUME RRInductive, [RRNext]_<< vars, rrVars >> PROVE RRInductive'
  OBVIOUS
<1>1. CASE RRNext
  <2>1. Next
    BY <1>1, RRStepIsEngineStep
  <2>2. EngineInv'
    BY <2>1, EngineStep DEF RRInductive
  <2>3. RRInv' /\ OnlyRunnerPreempted'
    BY <1>1, MechanismKeepsQueue, InitKeepsQueue, ArrivalKeepsQueue, TickKeepsQueue,
       DispatchKeepsQueue, FinishKeepsQueue DEF RRNext
  <2> QED
    BY <2>1, <2>2, <2>3, AfterTheLoop DEF RRInductive
<1>2. CASE UNCHANGED << vars, rrVars >>
  <2>1. EngineInv'
    BY <1>2, EngineStep DEF RRInductive
  <2> QED
    BY <1>2, <2>1 DEF RRInductive, RRInv, RRTypeOK, QueueHoldsReady, Queued,
       OnlyRunnerPreempted, vars, rrVars
<1> QED
  BY <1>1, <1>2
-----------------------------------------------------------------------------
(***************************************************************************)
(* Round Robin keeps the policy contract: it asks for the preemption only  *)
(* of a process that runs, and dequeues NULL only if nobody can run.  So   *)
(* each of its runs is one of the engine, and what is proved of the engine *)
(* holds of it.  (The fairness of ImplementsEngine is left to TLC.)        *)
(***************************************************************************)
THEOREM RoundRobinKeepsContract == RRSpec => Init /\ [][Next]_vars
<1>1. RRInit => Init
  BY DEF RRInit
<1>2. RRInductive /\ [RRNext]_<< vars, rrVars >> => [Next]_vars
  BY RRStepIsEngineStep
<1> QED
  BY <1>1, <1>2, RRInitInductive, RRInductiveStep, PTL DEF RRSpec

(***************************************************************************)
(* RRTypeOK and QueueHoldsReady: rr.c and scheduler.c, which update the    *)
(* queue and the process states separately, lose and duplicate no process. *)
(***************************************************************************)
THEOREM QueueIsReadySet == RRSpec => []RRInv
<1>1. RRInductive => RRInv
  BY DEF RRInductive
<1> QED
  BY <1>1, RRInitInductive, RRInductiveStep, PTL DEF RRSpec

(***************************************************************************)
(* The engine's invariant, of a run under Round Robin: the CPU has one     *)
(* process, no arrival is late, the loop ends when the last process does.  *)
(***************************************************************************)
THEOREM EngineInvariantOfRoundRobin == RRSpec => []EngineInv
<1>1. RRInductive => EngineInv
  BY DEF RRInductive
<1> QED
  BY <1>1, RRInitInductive, RRInductiveStep, PTL DEF RRSpec
-----------------------------------------------------------------------------
(***************************************************************************)
(* Time.  The processes stand in the queue in the order in which they      *)
(* joined it; the slice on the CPU began Since time units ago, none of     *)
(* which could start a new one while anybody waited; and the process that  *)
(* stands i-th has waited so long only that its wait, what is left of the  *)
(* slice on the CPU, and a slice for each process ahead of it, make up no  *)
(* more than a slice for each of the others.                               *)
(***************************************************************************)
JoinTimes == [p \in Procs |-> JoinTime(p)]
HaveRun   == {p \in Procs : Ticks(p) # {}}

Since == IF pc \in {"completion", "arrival", "tick"} THEN quantum - current_quantum + 1
         ELSE quantum - current_quantum

\* What the process on the CPU may still use of its slice.
Left == IF running_process = NULL \/ preempt_requested THEN 0 ELSE Slice - Since

InOrder ==
  \A i, j \in 1 .. Len(ready_queue) : i < j =>
    \/ JoinTimes[ready_queue[i]] < JoinTimes[ready_queue[j]]
    \/ /\ JoinTimes[ready_queue[i]] = JoinTimes[ready_queue[j]]
       /\ ready_queue[i] \notin HaveRun

WithinSlice ==
  running_process # NULL =>
    /\ 0 <= Since /\ Since <= Slice
    /\ pc \in {"completion", "arrival", "tick"} => 1 <= Since
    /\ pc \in {"dispatch", "execute"} /\ ~preempt_requested => Since < Slice

NotBeforeSlice ==
  running_process # NULL /\ ~preempt_requested =>
    \A p \in ReadyProcs :
      JoinTimes[p] < current_time - Since => gantt_log[current_time - Since] # running_process

WaitIsBounded ==
  \A i \in 1 .. Len(ready_queue) :
    (current_time - JoinTimes[ready_queue[i]]) + (i - 1) * Slice + Left <= (NumProcs - 1) * Slice

RRTimed == InOrder /\ WithinSlice /\ NotBeforeSlice /\ WaitIsBounded

RRHistory == RRInductive /\ History /\ RRTimed

\* The last time unit logged for a process is the last.
LEMMA LastTickIsLast ==
  ASSUME TypeOK, NEW p \in Procs, Ticks(p) # {}
  PROVE  LastTick(p) \in Ticks(p) /\ \A u \in Ticks(p) : u <= LastTick(p)
<1>1. Ticks(p) \subseteq 0 .. Len(gantt_log) /\ Len(gantt_log) \in Nat
  BY TicksFinite
<1>2. \E m \in Ticks(p) : \A u \in Ticks(p) : u <= m
  BY <1>1, GreatestNatural
<1> QED
  BY <1>2 DEF LastTick

LEMMA JoinFacts ==
  ASSUME EngineInv, LogAccountsForCPU
  PROVE  /\ JoinTimes \in [Procs -> Nat]
         /\ \A p \in Procs :
              /\ procs[p].state # "NOT_ARRIVED" => JoinTimes[p] <= current_time
              /\ p \notin HaveRun => JoinTimes[p] = procs[p].arrival_time
              /\ \A t \in Ticks(p) : t <= JoinTimes[p] /\ p \in HaveRun
              /\ p \in HaveRun => JoinTimes[p] \in Ticks(p)
<1> SUFFICES ASSUME NEW p \in Procs
             PROVE  /\ JoinTime(p) \in Nat
                    /\ procs[p].state # "NOT_ARRIVED" => JoinTime(p) <= current_time
                    /\ p \notin HaveRun => JoinTime(p) = procs[p].arrival_time
                    /\ \A t \in Ticks(p) : t <= JoinTime(p) /\ p \in HaveRun
                    /\ p \in HaveRun => JoinTime(p) \in Ticks(p)
  BY DEF JoinTimes
<1>1. /\ procs[p].arrival_time \in Nat
      /\ procs[p].state # "NOT_ARRIVED" => procs[p].arrival_time <= current_time
      /\ Len(gantt_log) = current_time /\ current_time \in Nat /\ TypeOK
  BY ProcessFields DEF EngineInv, TypeOK, WorkAccounted, LogAccountsForCPU
<1>2. Ticks(p) \subseteq 1 .. current_time
  BY <1>1, TicksFinite
<1>3. CASE Ticks(p) = {}
  BY <1>1, <1>3 DEF JoinTime, HaveRun
<1>4. CASE Ticks(p) # {}
  <2>1. JoinTime(p) \in Ticks(p) /\ \A u \in Ticks(p) : u <= JoinTime(p)
    BY <1>1, <1>4, LastTickIsLast DEF JoinTime
  <2> QED
    BY <1>1, <1>2, <1>4, <2>1 DEF HaveRun
<1> QED
  BY <1>3, <1>4

LEMMA QueueFacts ==
  ASSUME RRInductive
  PROVE  /\ ready_queue \in Seq(Procs) /\ Len(ready_queue) \in Nat /\ Distinct(ready_queue)
         /\ Members(ready_queue) = ReadyProcs \cup (IF preempt_requested THEN {running_process} ELSE {})
         /\ \A i \in 1 .. Len(ready_queue) : ready_queue[i] \in Procs
         /\ quantum \in Nat /\ current_quantum \in Int /\ Slice \in Nat \ {0}
         /\ Since \in Int /\ current_time \in Nat
<1>1. ready_queue \in Seq(Procs) /\ Len(ready_queue) \in Nat
  BY LenProperties DEF RRInductive, RRInv, RRTypeOK
<1>2. quantum \in Nat /\ current_quantum \in Int /\ current_time \in Nat
  BY QuantaAssumption DEF RRInductive, RRInv, RRTypeOK, EngineInv, TypeOK
<1>3. Slice \in Nat \ {0} /\ Since \in Int
  BY <1>2 DEF Slice, Since
<1>4. /\ Distinct(ready_queue)
      /\ Members(ready_queue) = ReadyProcs \cup (IF preempt_requested THEN {running_process} ELSE {})
  BY QueueMembers DEF RRInductive, RRInv
<1> HIDE DEF Procs
<1>5. \A i \in 1 .. Len(ready_queue) : ready_queue[i] \in Procs
  BY <1>1
<1> QED
  BY <1>1, <1>2, <1>3, <1>4, <1>5

\* Nothing is logged, or a time unit of `entry`: the others keep their join times.
LEMMA SameJoinTimes ==
  ASSUME UNCHANGED gantt_log, \A p \in Procs : procs'[p].arrival_time = procs[p].arrival_time
  PROVE  JoinTimes' = JoinTimes /\ HaveRun' = HaveRun
BY DEF JoinTimes, JoinTime, LastTick, HaveRun, Ticks

LEMMA JoinTimesOfOthers ==
  ASSUME TypeOK, NEW entry \in Procs \cup {Idle}, gantt_log' = Append(gantt_log, entry),
         \A p \in Procs : procs'[p].arrival_time = procs[p].arrival_time
  PROVE  \A p \in Procs \ {entry} :
           JoinTimes'[p] = JoinTimes[p] /\ (p \in HaveRun' <=> p \in HaveRun)
<1>1. \A p \in Procs \ {entry} : Ticks(p)' = Ticks(p)
  BY NewEntry
<1> SUFFICES ASSUME NEW p \in Procs \ {entry}
             PROVE  JoinTime(p)' = JoinTime(p) /\ (Ticks(p)' = {} <=> Ticks(p) = {})
  BY DEF JoinTimes, HaveRun
<1>2. Ticks(p)' = Ticks(p) /\ procs'[p].arrival_time = procs[p].arrival_time
  BY <1>1
<1>3. LastTick(p)' = LastTick(p)
  BY <1>2 DEF LastTick
<1> QED
  BY <1>2, <1>3 DEF JoinTime

LEMMA LeftRange ==
  ASSUME RRInductive, WithinSlice
  PROVE  Left \in Int /\ 0 <= Left /\ Left <= Slice
BY QueueFacts DEF Left, WithinSlice

(***************************************************************************)
(* The stages in which no time passes and nobody joins or leaves.          *)
(***************************************************************************)
LEMMA QuietKeepsTime ==
  ASSUME RRHistory, UNCHANGED << gantt_log, current_time, quantum, ready_queue, preempt_requested >>,
         \A p \in Procs : procs'[p].arrival_time = procs[p].arrival_time,
         ReadyProcs' = ReadyProcs, WithinSlice',
         running_process' # NULL => running_process' = running_process /\ Since' = Since
  PROVE  RRTimed'
<1> USE DEF RRHistory, RRTimed
<1>1. JoinTimes' = JoinTimes /\ HaveRun' = HaveRun /\ Slice' = Slice
  BY SameJoinTimes DEF Slice
<1>2. InOrder'
  BY <1>1 DEF InOrder
<1>3. NotBeforeSlice'
  BY <1>1 DEF NotBeforeSlice
<1>4. Left' \in Int /\ Left' <= Left /\ Left \in Int
  <2>1. Left \in Int /\ 0 <= Left
    BY LeftRange
  <2>2. Left' = Left \/ Left' = 0
    BY <1>1 DEF Left
  <2> QED
    BY <2>1, <2>2
<1>5. WaitIsBounded'
  <2> SUFFICES ASSUME NEW i \in 1 .. Len(ready_queue)
               PROVE  (current_time - JoinTimes[ready_queue[i]]) + (i - 1) * Slice + Left'
                        <= (NumProcs - 1) * Slice
    BY <1>1 DEF WaitIsBounded
  <2>1. (current_time - JoinTimes[ready_queue[i]]) + (i - 1) * Slice + Left
          <= (NumProcs - 1) * Slice
    BY DEF WaitIsBounded
  <2>2. JoinTimes[ready_queue[i]] \in Nat /\ current_time \in Nat /\ Slice \in Nat
    BY QueueFacts, JoinFacts DEF RRInductive, History
  <2>3. (i - 1) * Slice \in Int /\ (NumProcs - 1) * Slice \in Int
    BY <2>2, NumProcsAssumption, QueueFacts
  <2> QED
    BY <1>4, <2>1, <2>2, <2>3
<1> QED
  BY <1>2, <1>3, <1>5

(***************************************************************************)
(* A time unit: everybody in the queue has waited one more, and the slice  *)
(* on the CPU is one shorter, or the CPU becomes free.                     *)
(***************************************************************************)
LEMMA UnitKeepsTime ==
  ASSUME RRHistory, execute \/ finish_instantly \/ idle, UNCHANGED rrVars
  PROVE  RRTimed'
<1> USE DEF RRHistory, RRTimed, History
<1>0. PICK entry \in {running_process, Idle} : gantt_log' = Append(gantt_log, entry)
  BY ExecuteEffect, FinishInstantlyEffect, IdleEffect
<1>1. /\ pc = "execute" /\ ~preempt_requested /\ preempt_requested' = preempt_requested
      /\ current_time' = current_time + 1
      /\ \A p \in Procs : procs[p]'.state = "READY" <=> procs[p].state = "READY"
      /\ UNCHANGED << quantum, ready_queue, current_quantum >>
  BY ExecuteEffect, FinishInstantlyEffect, IdleEffect, MechanismKeepsReady
     DEF Mechanism, RRInductive, OnlyRunnerPreempted, rrVars
<1>2. /\ Members(ready_queue) = ReadyProcs /\ ReadyProcs' = ReadyProcs
      /\ entry \in Procs \cup {Idle} /\ entry \notin ReadyProcs
  <2>1. Members(ready_queue) = ReadyProcs
    BY <1>1, QueueFacts
  <2>2. ReadyProcs' = ReadyProcs
    BY <1>1 DEF ReadyProcs
  <2>3. running_process \in Procs \cup {Idle} /\ running_process \notin ReadyProcs
    BY DEF ReadyProcs, RRInductive, EngineInv, OneRunning, TypeOK, Idle
  <2>4. Idle \notin ReadyProcs
    BY DEF ReadyProcs, Idle
  <2> QED
    BY <2>1, <2>2, <2>3, <2>4
<1>3. \A p \in Procs : procs'[p].arrival_time = procs[p].arrival_time
  <2>1. CASE execute
    <3>1. procs \in [Procs -> Process]
      BY DEF EngineInv, TypeOK
    <3>2. procs' = [procs EXCEPT ![running_process] = process_tick(procs[running_process])]
      BY <2>1 DEF execute
    <3> QED
      BY <3>1, <3>2, TickProcess DEF SameJob
  <2>2. CASE finish_instantly
    BY <2>2, FinishInstantlyEffect DEF FinishNow, Ended, SameJob
  <2>3. CASE idle
    BY <2>3, IdleEffect
  <2> QED
    BY <2>1, <2>2, <2>3
<1>4. \A p \in ReadyProcs : JoinTimes'[p] = JoinTimes[p] /\ (p \in HaveRun' <=> p \in HaveRun)
  BY <1>0, <1>2, <1>3, JoinTimesOfOthers DEF EngineInv, ReadyProcs
<1>5. \A i \in 1 .. Len(ready_queue) : ready_queue[i] \in ReadyProcs
  BY <1>2 DEF Members
<1>6. InOrder'
  BY <1>1, <1>4, <1>5 DEF InOrder
<1>7. Slice' = Slice /\ Slice \in Nat \ {0} /\ Since \in Int /\ current_time \in Nat
  BY <1>1, QueueFacts DEF Slice
<1>8. running_process' # NULL => /\ running_process' = running_process
                                 /\ Since' = Since + 1 /\ pc' = "completion"
  <2>1. CASE execute
    <3>1. running_process' = running_process /\ pc' = "completion"
      BY <1>1, <2>1 DEF execute, LoopHead, EngineInv, StepInLoop, InStep
    <3> QED
      BY <1>1, <3>1, QueueFacts DEF Since
  <2>2. CASE finish_instantly \/ idle
    BY <2>2 DEF finish_instantly, idle
  <2> QED
    BY <2>1, <2>2
<1>9. WithinSlice'
  BY <1>1, <1>7, <1>8 DEF WithinSlice
<1>10. NotBeforeSlice'
  <2> SUFFICES ASSUME running_process' # NULL, NEW p \in ReadyProcs,
                      JoinTimes[p] < (current_time + 1) - Since'
               PROVE  gantt_log'[(current_time + 1) - Since'] # running_process'
    BY <1>1, <1>2, <1>4 DEF NotBeforeSlice
  <2>1. PICK s \in Int : s = current_time - Since
    BY <1>7
  <2>2. (current_time + 1) - Since' = s
    BY <1>7, <1>8, <2>1
  <2>3. gantt_log[s] # running_process
    BY <1>1, <1>8, <2>1, <2>2 DEF NotBeforeSlice
  <2>4. s \in 1 .. Len(gantt_log)
    <3>1. JoinTimes[p] \in Nat /\ Len(gantt_log) = current_time
      BY JoinFacts DEF ReadyProcs, LogAccountsForCPU
    <3>2. JoinTimes[p] < s
      BY <2>2
    <3>3. s <= current_time
      BY <1>7, <1>8, <2>1 DEF WithinSlice
    <3> QED
      BY <1>7, <3>1, <3>2, <3>3
  <2>5. gantt_log'[s] = gantt_log[s]
    BY <1>0, <1>2, <2>4, NewEntry DEF EngineInv
  <2> QED
    BY <1>8, <2>2, <2>3, <2>5
<1>11. WaitIsBounded'
  <2> SUFFICES ASSUME NEW i \in 1 .. Len(ready_queue)
               PROVE  ((current_time + 1) - JoinTimes[ready_queue[i]]) + (i - 1) * Slice + Left'
                        <= (NumProcs - 1) * Slice
    BY <1>1, <1>4, <1>5, <1>7 DEF WaitIsBounded
  <2>1. (current_time - JoinTimes[ready_queue[i]]) + (i - 1) * Slice + Left
          <= (NumProcs - 1) * Slice
    BY DEF WaitIsBounded
  <2>2. JoinTimes[ready_queue[i]] \in Nat
    BY QueueFacts, JoinFacts DEF RRInductive
  <2>3. (i - 1) * Slice \in Int /\ (NumProcs - 1) * Slice \in Int
    BY <1>7, NumProcsAssumption, QueueFacts
  <2>4. running_process # NULL
    BY <1>1, <1>5 DEF EngineInv, CPUWellUsed, ReadyProcs
  <2>5. Left' \in Int /\ Left \in Int /\ Left' + 1 <= Left
    BY <1>1, <1>7, <1>8, <2>4 DEF Left, WithinSlice
  <2>6. ASSUME NEW joined \in Nat, NEW ahead \in Int, NEW all \in Int, NEW left \in Int,
               NEW leftNext \in Int, (current_time - joined) + ahead + left <= all,
               leftNext + 1 <= left
        PROVE  ((current_time + 1) - joined) + ahead + leftNext <= all
    BY <1>7, <2>6
  <2> QED
    BY <2>1, <2>2, <2>3, <2>5, <2>6
<1> QED
  BY <1>6, <1>9, <1>10, <1>11

(***************************************************************************)
(* Who joins the queue has waited for nothing yet, and there is room for a *)
(* slice of each process that is ahead.                                    *)
(***************************************************************************)
LEMMA MoreSlices ==
  ASSUME NEW n \in Int, NEW m \in Int, NEW s \in Nat, n <= m
  PROVE  n * s <= m * s
<1>1. PICK d \in Nat : m = n + d
  <2>1. m - n \in Nat /\ m = n + (m - n)
    OBVIOUS
  <2> QED
    BY <2>1
<1>2. (n + d) * s = n * s + d * s
  OBVIOUS
<1>3. d * s \in Nat /\ n * s \in Int
  OBVIOUS
<1> QED
  BY <1>1, <1>2, <1>3

LEMMA RoomInQueue ==
  ASSUME RRHistory, ~preempt_requested, NEW p \in Procs, p \notin ReadyProcs
  PROVE  /\ Len(ready_queue) * Slice <= (NumProcs - 1) * Slice
         /\ p # running_process => Len(ready_queue) * Slice + Left <= (NumProcs - 1) * Slice
<1> USE DEF RRHistory, RRTimed
<1>1. /\ Distinct(ready_queue) /\ ready_queue \in Seq(Procs) /\ Len(ready_queue) \in Nat
      /\ Members(ready_queue) = ReadyProcs
      /\ Slice \in Nat /\ NumProcs \in Nat
  BY QueueFacts, NumProcsAssumption
<1>2. running_process \notin ReadyProcs
  BY DEF ReadyProcs, RRInductive, EngineInv, OneRunning
<1>3. IsFiniteSet(Procs) /\ Cardinality(Procs) = NumProcs
  BY FS_Interval, NumProcsAssumption
<1>4. IsFiniteSet(Procs \ {p}) /\ Cardinality(Procs \ {p}) = NumProcs - 1
  BY <1>3, FS_RemoveElement
<1>5. Members(ready_queue) \subseteq Procs \ {p}
  BY <1>1 DEF ReadyProcs
<1>6. Len(ready_queue) <= NumProcs - 1
  <2> HIDE DEF Procs
  <2> QED
    BY <1>1, <1>4, <1>5, DistinctLength
<1>7. CASE running_process = NULL
  BY <1>1, <1>6, <1>7, MoreSlices DEF Left
<1>8. CASE running_process # NULL
  <2>1. ASSUME p # running_process
        PROVE  Len(ready_queue) <= NumProcs - 2
    <3>1. running_process \in Procs \ {p}
      BY <1>8, <2>1 DEF RRInductive, EngineInv, TypeOK
    <3>2. /\ IsFiniteSet((Procs \ {p}) \ {running_process})
          /\ Cardinality((Procs \ {p}) \ {running_process}) = (NumProcs - 1) - 1
      BY <1>4, <3>1, FS_RemoveElement
    <3>3. Members(ready_queue) \subseteq (Procs \ {p}) \ {running_process}
      BY <1>1, <1>2, <1>5
    <3>4. Len(ready_queue) <= (NumProcs - 1) - 1
      <4> HIDE DEF Procs
      <4> QED
        BY <1>1, <3>2, <3>3, DistinctLength
    <3> QED
      BY <1>1, <3>4
  <2>2. (NumProcs - 1) * Slice = (NumProcs - 2) * Slice + Slice
    BY <1>1
  <2>3. Left \in Int /\ Left <= Slice
    BY LeftRange
  <2>4. Len(ready_queue) * Slice <= (NumProcs - 1) * Slice
    BY <1>1, <1>6, MoreSlices
  <2>5. ASSUME p # running_process
        PROVE  Len(ready_queue) * Slice + Left <= (NumProcs - 1) * Slice
    <3>1. Len(ready_queue) * Slice <= (NumProcs - 2) * Slice
      BY <1>1, <2>1, <2>5, MoreSlices
    <3>2. Len(ready_queue) * Slice \in Int /\ (NumProcs - 2) * Slice \in Int
      BY <1>1
    <3> QED
      BY <1>1, <2>2, <2>3, <3>1, <3>2
  <2> QED
    BY <2>4, <2>5
<1> QED
  BY <1>7, <1>8

LEMMA EnqueueKeepsTime ==
  ASSUME RRHistory, ~preempt_requested, pc # "execute", NEW p \in Procs, p \notin ReadyProcs,
         ready_queue' = Append(ready_queue, p),
         JoinTimes' = JoinTimes, HaveRun' = HaveRun, UNCHANGED << current_time, quantum >>,
         JoinTimes[p] = current_time,
         Left' \in Int, Left' <= Left,
         Len(ready_queue) * Slice + Left' <= (NumProcs - 1) * Slice
  PROVE  InOrder' /\ WaitIsBounded'
<1> USE DEF RRHistory, RRTimed
<1> DEFINE n == Len(ready_queue)
<1>1. /\ ready_queue \in Seq(Procs) /\ n \in Nat /\ Members(ready_queue) = ReadyProcs
      /\ \A i \in 1 .. n : ready_queue[i] \in Procs
      /\ Slice \in Nat /\ Slice' = Slice /\ current_time \in Nat
  BY QueueFacts DEF Slice
<1>2. /\ Len(ready_queue') = n + 1
      /\ \A i \in 1 .. n : ready_queue'[i] = ready_queue[i]
      /\ ready_queue'[n + 1] = p
  <2> HIDE DEF Procs
  <2> QED
    BY <1>1, AppendProperties
<1>0. n \in Nat
  BY <1>1
<1> HIDE DEF n
<1>3. JoinTimes \in [Procs -> Nat]
  BY JoinFacts DEF History
<1>4. InOrder'
  <2> SUFFICES ASSUME NEW i \in 1 .. n + 1, NEW j \in 1 .. n + 1, i < j
               PROVE  \/ JoinTimes[ready_queue'[i]] < JoinTimes[ready_queue'[j]]
                      \/ /\ JoinTimes[ready_queue'[i]] = JoinTimes[ready_queue'[j]]
                         /\ ready_queue'[i] \notin HaveRun
    BY <1>2 DEF InOrder
  <2>1. CASE j <= n
    <3>1. i \in 1 .. n /\ j \in 1 .. n
      BY <1>1, <2>1
    <3> QED
      BY <1>2, <3>1 DEF InOrder, n
  <2>2. CASE j = n + 1
    <3>1. i \in 1 .. n /\ ready_queue'[j] = p /\ ready_queue'[i] = ready_queue[i]
      BY <1>1, <1>2, <2>2
    <3> DEFINE q == ready_queue[i]
    <3>2. q \in ReadyProcs
      BY <1>1, <3>1 DEF Members, n
    <3> HIDE DEF q
    <3>3. q \in Procs /\ procs[q].state = "READY"
      BY <3>2 DEF ReadyProcs
    <3>4. JoinTimes[q] <= current_time /\ JoinTimes[q] \in Nat
      BY <1>3, <3>3, JoinFacts DEF History
    <3>5. current_time \notin Ticks(q)
      BY <3>3, LastUnit
    <3>6. q \in HaveRun => JoinTimes[q] \in Ticks(q)
      BY <3>3, JoinFacts DEF History
    <3>7. JoinTimes[q] < current_time \/ (JoinTimes[q] = current_time /\ q \notin HaveRun)
      BY <1>1, <3>4, <3>5, <3>6
    <3> QED
      BY <3>1, <3>7 DEF q
  <2>3. j <= n \/ j = n + 1
    BY <1>0
  <2> QED
    BY <2>1, <2>2, <2>3
<1>5. WaitIsBounded'
  <2> SUFFICES ASSUME NEW i \in 1 .. n + 1
               PROVE  (current_time - JoinTimes[ready_queue'[i]]) + (i - 1) * Slice + Left'
                        <= (NumProcs - 1) * Slice
    BY <1>1, <1>2 DEF WaitIsBounded
  <2>1. CASE i <= n
    <3>1. i \in 1 .. n /\ ready_queue'[i] = ready_queue[i]
      BY <1>1, <1>2, <2>1
    <3>2. (current_time - JoinTimes[ready_queue[i]]) + (i - 1) * Slice + Left
            <= (NumProcs - 1) * Slice
      BY <3>1 DEF WaitIsBounded, n
    <3>0. /\ JoinTimes[ready_queue[i]] \in Nat /\ i - 1 \in Int /\ Slice \in Int
          /\ NumProcs - 1 \in Int /\ Left \in Int
      <4>1. Left \in Int
        BY LeftRange
      <4>2. ready_queue[i] \in Procs /\ Slice \in Int
        BY <1>1, <3>1
      <4>3. i - 1 \in Int /\ NumProcs - 1 \in Int
        BY <1>0, NumProcsAssumption
      <4> HIDE DEF Procs
      <4> QED
        BY <1>3, <4>1, <4>2, <4>3
    <3>3. (i - 1) * Slice \in Int /\ (NumProcs - 1) * Slice \in Int
      BY <3>0
    <3>4. ASSUME NEW joined \in Nat, NEW ahead \in Int, NEW all \in Int, NEW left \in Int,
                 NEW leftNext \in Int, (current_time - joined) + ahead + left <= all,
                 leftNext <= left
          PROVE  (current_time - joined) + ahead + leftNext <= all
      BY <1>1, <3>4
    <3> QED
      BY <3>0, <3>1, <3>2, <3>3, <3>4
  <2>2. CASE i = n + 1
    <3>1. JoinTimes[ready_queue'[i]] = current_time /\ i - 1 = n
      BY <1>1, <1>2, <2>2
    <3>2. n * Slice \in Int
      BY <1>1
    <3>3. (current_time - current_time) + n * Slice + Left' = n * Slice + Left'
      BY <1>1, <3>2
    <3> QED
      BY <3>1, <3>3 DEF n
  <2>3. i <= n \/ i = n + 1
    BY <1>0
  <2> QED
    BY <2>1, <2>2, <2>3
<1> QED
  BY <1>4, <1>5

(***************************************************************************)
(* The hooks, and the stages between them.                                 *)
(***************************************************************************)
LEMMA EmptyIsTimed ==
  ASSUME ready_queue' = << >>, running_process' = NULL
  PROVE  RRTimed'
<1>1. Len(ready_queue') = 0
  BY EmptySeq
<1> QED
  BY <1>1 DEF RRTimed, InOrder, WithinSlice, NotBeforeSlice, WaitIsBounded

LEMMA StagesKeepTime ==
  ASSUME RRHistory, Mechanism, UNCHANGED rrVars
  PROVE  RRTimed'
<1> USE DEF RRHistory, RRTimed
<1>1. /\ preempt_requested' = preempt_requested /\ ReadyProcs' = ReadyProcs
      /\ UNCHANGED << quantum, ready_queue, current_quantum >>
  BY MechanismKeepsReady DEF RRInductive, ReadyProcs, rrVars
<1>2. Slice' = Slice /\ Slice \in Nat \ {0} /\ quantum \in Nat /\ current_quantum \in Int
  BY <1>1, QueueFacts DEF Slice
<1>3. CASE handle_completions
  <2>1. /\ UNCHANGED << current_time, gantt_log >> /\ pc = "completion"
        /\ (UNCHANGED << procs, running_process >>) \/ FinishNow(running_process)
    BY <1>3, CompletionEffect DEF RRInductive
  <2>2. \A p \in Procs : procs'[p].arrival_time = procs[p].arrival_time
    BY <2>1 DEF FinishNow, Ended, SameJob
  <2>3. running_process' # NULL => running_process' = running_process /\ pc' = "arrival"
    <3> SUFFICES ASSUME running_process' # NULL
                 PROVE  running_process' = running_process /\ pc' = "arrival"
      OBVIOUS
    <3>1. running_process' = running_process
      BY <2>1 DEF FinishNow
    <3>2. completed' = completed
      BY <1>3, <3>1 DEF handle_completions
    <3>3. completed # NumProcs
      BY <2>1 DEF RRInductive, EngineInv, StepInLoop, InStep, TypeOK
    <3> QED
      BY <1>3, <3>1, <3>2, <3>3 DEF handle_completions
  <2>4. running_process' # NULL => Since' = Since
    BY <1>1, <2>1, <2>3 DEF Since
  <2>5. WithinSlice'
    BY <1>1, <1>2, <2>1, <2>3, <2>4 DEF WithinSlice
  <2> QED
    BY <1>1, <2>1, <2>2, <2>3, <2>4, <2>5, QuietKeepsTime
<1>4. CASE execute \/ finish_instantly \/ idle
  BY <1>4, UnitKeepsTime
<1>5. CASE arrivals_done \/ no_tick \/ keep_running
  <2>1. /\ UNCHANGED << procs, current_time, gantt_log, running_process >>
        /\ \/ pc = "arrival" /\ pc' = "tick"
           \/ pc = "tick" /\ pc' = "dispatch" /\ running_process = NULL
           \/ pc = "dispatch" /\ pc' = "execute" /\ ~preempt_requested
    BY <1>5 DEF arrivals_done, no_tick, keep_running, DispatchDue
  <2>2. running_process # NULL => Since' = Since
    BY <1>1, <2>1 DEF Since
  <2>3. WithinSlice'
    BY <1>1, <1>2, <2>1, <2>2 DEF WithinSlice
  <2> QED
    BY <1>1, <2>1, <2>2, <2>3, QuietKeepsTime
<1>6. CASE returned
  BY <1>1, <1>6, SameJoinTimes
     DEF returned, vars, InOrder, WithinSlice, NotBeforeSlice, WaitIsBounded, Since, Left, Slice,
         ReadyProcs
<1> QED
  BY <1>3, <1>4, <1>5, <1>6 DEF Mechanism

LEMMA ArrivalKeepsTime ==
  ASSUME RRHistory, rr_on_arrival
  PROVE  RRTimed'
<1> USE DEF RRHistory, RRTimed
<1> DEFINE p == next_arrival_idx + 1
<1>1. /\ arrive(FALSE) /\ ready_queue' = Append(ready_queue, p)
      /\ quantum' = quantum /\ current_quantum' = current_quantum
      /\ pc = "arrival" /\ preempt_requested' = (preempt_requested \/ FALSE)
  BY DEF rr_on_arrival, enqueue, arrive
<1>2. /\ p \in Procs /\ procs[p].state = "NOT_ARRIVED" /\ procs'[p].state = "READY"
      /\ \A q \in Procs : SameRecord(procs[q], procs'[q])
      /\ \A q \in Procs \ {p} : procs'[q] = procs[q]
      /\ procs[p].arrival_time <= current_time
      /\ pc = "arrival" /\ pc' = "arrival"
      /\ UNCHANGED << current_time, gantt_log, running_process >>
  BY <1>1, ArrivalEffect DEF RRInductive
<1> HIDE DEF p
<1>3. JoinTimes' = JoinTimes /\ HaveRun' = HaveRun
  BY <1>2, SameJoinTimes DEF SameRecord, SameJob
<1>4. ~preempt_requested /\ ~preempt_requested'
  BY <1>1, <1>2 DEF RRInductive, OnlyRunnerPreempted
<1>5. p \notin ReadyProcs /\ p # running_process /\ ReadyProcs' = ReadyProcs \cup {p}
  BY <1>2 DEF ReadyProcs, RRInductive, EngineInv, OneRunning
<1>6. JoinTimes[p] = current_time
  <2>1. procs[p].arrival_time = current_time
    <3>1. procs[p].arrival_time \in Nat /\ current_time \in Nat
      BY <1>2, ProcessFields DEF RRInductive, EngineInv, TypeOK
    <3>2. procs[p].arrival_time >= current_time
      BY <1>2 DEF History, NotYetDue
    <3> QED
      BY <1>2, <3>1, <3>2
  <2>2. \A t \in Ticks(p) : current_time < t /\ t <= current_time
    <3>1. Ticks(p) \subseteq 1 .. current_time
      BY <1>2, TicksFinite DEF RRInductive, EngineInv, History, LogAccountsForCPU
    <3> QED
      BY <1>2, <2>1, <3>1 DEF History, LogAccountsForCPU
  <2>3. p \notin HaveRun
    <3>1. Ticks(p) \subseteq Nat /\ current_time \in Nat
      BY <1>2, TicksFinite DEF RRInductive, EngineInv, TypeOK
    <3>2. Ticks(p) = {}
      BY <2>2, <3>1
    <3> QED
      BY <3>2 DEF HaveRun
  <2> QED
    BY <1>2, <2>1, <2>3, JoinFacts DEF History
<1>7. Since' = Since /\ Slice' = Slice
  BY <1>1, <1>2 DEF Since, Slice
<1>8. Left' = Left /\ Left \in Int
  BY <1>1, <1>2, <1>4, <1>7, LeftRange DEF Left
<1>9. Len(ready_queue) * Slice + Left' <= (NumProcs - 1) * Slice
  BY <1>2, <1>4, <1>5, <1>8, RoomInQueue
<1>10. InOrder' /\ WaitIsBounded'
  <2>1. Left' \in Int /\ Left' <= Left
    BY <1>8
  <2>2. pc # "execute"
    BY <1>2
  <2> HIDE DEF RRHistory
  <2> QED
    BY <1>1, <1>2, <1>3, <1>4, <1>5, <1>6, <1>9, <2>1, <2>2, EnqueueKeepsTime
<1>11. WithinSlice'
  BY <1>1, <1>2, <1>4, <1>7 DEF WithinSlice
<1>12. NotBeforeSlice'
  <2> SUFFICES ASSUME running_process # NULL, NEW q \in ReadyProcs',
                      JoinTimes[q] < current_time - Since
               PROVE  gantt_log[current_time - Since] # running_process
    BY <1>2, <1>3, <1>7 DEF NotBeforeSlice
  <2>1. Since \in Int /\ 0 <= Since /\ current_time \in Nat
    BY QueueFacts DEF WithinSlice
  <2>2. q # p
    BY <1>6, <2>1
  <2> QED
    BY <1>4, <1>5, <2>2 DEF NotBeforeSlice
<1> QED
  BY <1>10, <1>11, <1>12

LEMMA TickKeepsTime ==
  ASSUME RRHistory, rr_on_tick
  PROVE  RRTimed'
<1> USE DEF RRHistory, RRTimed
<1>0. /\ pc = "tick" /\ pc' = "dispatch" /\ running_process # NULL
      /\ preempt_requested' = (preempt_requested \/ SliceOver)
      /\ UNCHANGED << procs, current_time, gantt_log, running_process, quantum >>
      /\ current_quantum' = current_quantum - 1
  BY DEF rr_on_tick, policy_tick
<1>1. ~preempt_requested /\ (preempt_requested' <=> SliceOver)
  BY <1>0 DEF RRInductive, OnlyRunnerPreempted
<1>2. PICK r \in Procs : r = running_process
  BY <1>0 DEF RRInductive, EngineInv, TypeOK
<1>3. JoinTimes' = JoinTimes /\ HaveRun' = HaveRun /\ ReadyProcs' = ReadyProcs /\ Slice' = Slice
  BY <1>0, SameJoinTimes DEF ReadyProcs, Slice
<1>4. /\ quantum \in Nat /\ current_quantum \in Int /\ Slice \in Nat \ {0}
      /\ Since \in Int /\ 1 <= Since /\ Since <= Slice
  BY <1>0, QueueFacts DEF WithinSlice
<1>5. Since' = Since /\ Since = quantum - current_quantum + 1
  BY <1>0, <1>4 DEF Since
\* A process in this stage has work left, so the slice ends exactly when it is used up.
<1>6. SliceOver <=> current_quantum - 1 <= 0
  <2>1. procs[r].remaining_time \in Nat
    BY <1>2, ProcessFields DEF RRInductive, EngineInv, TypeOK
  <2>2. procs[r].burst_time > 0 /\ ~Exhausted(r)
    BY <1>0, <1>2 DEF RRInductive, EngineInv, CPUWellUsed, WorkAccounted
  <2>3. r \notin Finished
    BY <1>2 DEF RRInductive, EngineInv, OneRunning, Finished
  <2>4. procs[r].remaining_time > 0
    BY <2>1, <2>2, <2>3 DEF Exhausted
  <2> QED
    BY <1>2, <2>4 DEF SliceOver
<1>7. WithinSlice'
  <2>1. ~preempt_requested' => Since < Slice
    BY <1>1, <1>4, <1>5, <1>6 DEF Slice
  <2> QED
    BY <1>0, <1>3, <1>4, <1>5, <2>1 DEF WithinSlice
<1>8. NotBeforeSlice'
  BY <1>0, <1>1, <1>3, <1>5 DEF NotBeforeSlice
<1>9. Left \in Int /\ 0 <= Left /\ Left' \in Int /\ Left' <= Left
  BY <1>0, <1>1, <1>3, <1>4, <1>5 DEF Left
<1>10. CASE SliceOver
  <2>1. ready_queue' = Append(ready_queue, r)
    BY <1>2, <1>10 DEF rr_on_tick, requeue, enqueue
  <2>2. r \notin ReadyProcs
    BY <1>2 DEF RRInductive, EngineInv, OneRunning, ReadyProcs
  <2>3. JoinTimes[r] = current_time
    <3>1. current_time \in Ticks(r)
      BY <1>0, <1>2, LastUnit
    <3>2. current_time <= JoinTimes[r] /\ JoinTimes[r] \in Nat
      BY <1>2, <3>1, JoinFacts DEF History
    <3>3. JoinTimes[r] <= current_time
      BY <1>2, JoinFacts DEF History, EngineInv, OneRunning
    <3> QED
      BY <3>2, <3>3, QueueFacts
  <2>4. Left' = 0
    BY <1>1, <1>10 DEF Left
  <2>5. Len(ready_queue) * Slice + Left' <= (NumProcs - 1) * Slice
    <3>1. Len(ready_queue) * Slice <= (NumProcs - 1) * Slice
      BY <1>1, <1>2, <2>2, RoomInQueue
    <3>2. Len(ready_queue) \in Int /\ Slice \in Int
      BY QueueFacts
    <3>3. Len(ready_queue) * Slice \in Int
      BY <3>2
    <3> QED
      BY <2>4, <3>1, <3>3
  <2>6. InOrder' /\ WaitIsBounded'
    <3>1. pc # "execute" /\ UNCHANGED << current_time, quantum >>
      BY <1>0
    <3> HIDE DEF RRHistory
    <3> QED
      BY <1>1, <1>2, <1>3, <1>9, <2>1, <2>2, <2>3, <2>5, <3>1, EnqueueKeepsTime
  <2> QED
    BY <1>7, <1>8, <2>6
<1>11. CASE ~SliceOver
  <2>1. ready_queue' = ready_queue /\ preempt_requested' = preempt_requested
    BY <1>0, <1>11, Zenon DEF rr_on_tick, requeue, RRInductive, EngineInv, TypeOK
  <2> QED
    BY <1>0, <1>3, <1>5, <1>7, <2>1, QuietKeepsTime
<1> QED
  BY <1>10, <1>11

(***************************************************************************)
(* A dispatch frees a place in the queue and begins a slice: everybody     *)
(* left moves one place ahead and has the whole new slice to wait for.     *)
(***************************************************************************)
LEMMA DispatchKeepsTime ==
  ASSUME RRHistory, rr_next_process, RRInductive'
  PROVE  RRTimed'
<1> USE DEF RRHistory, RRTimed
<1> DEFINE next == DequeuedProcess
<1>1. /\ handle_dispatch(next) /\ pc = "dispatch" /\ pc' = "execute" /\ DispatchDue
      /\ running_process' = next /\ ~preempt_requested'
      /\ UNCHANGED << current_time, gantt_log, quantum >>
  BY DEF rr_next_process, handle_dispatch
<1>2. CASE is_empty
  <2>1. ready_queue' = << >> /\ next = NULL
    BY <1>2 DEF rr_next_process, dequeue, is_empty, DequeuedProcess
  <2> QED
    BY <1>1, <2>1, EmptyIsTimed
<1>3. CASE ~is_empty
  <2>1. /\ ready_queue # << >> /\ next = Head(ready_queue)
        /\ ready_queue' = Tail(ready_queue)
    BY <1>3 DEF rr_next_process, dequeue, is_empty, DequeuedProcess
  <2>2. /\ ready_queue \in Seq(Procs) /\ Len(ready_queue) \in Nat
        /\ \A i \in 1 .. Len(ready_queue) : ready_queue[i] \in Procs
        /\ Slice \in Nat \ {0} /\ current_time \in Nat /\ quantum \in Nat
    BY QueueFacts
  <2>3. /\ next \in Procs /\ next = ready_queue[1] /\ 1 <= Len(ready_queue)
        /\ Len(ready_queue') = Len(ready_queue) - 1
        /\ \A i \in 1 .. Len(ready_queue') : ready_queue'[i] = ready_queue[i + 1]
    <3> HIDE DEF Procs, next
    <3>1. next \in Procs /\ next = ready_queue[1] /\ Len(ready_queue) # 0
      BY <2>1, <2>2, HeadTailProperties, EmptySeq
    <3>2. /\ Len(ready_queue') = Len(ready_queue) - 1
          /\ \A i \in 1 .. Len(ready_queue') : ready_queue'[i] = ready_queue[i + 1]
      BY <2>1, <2>2, HeadTailProperties
    <3> QED
      BY <2>2, <3>1, <3>2
  <2>4. current_quantum' = quantum
    BY <2>3 DEF rr_next_process
  <2> HIDE DEF next
  <2> DEFINE n == Len(ready_queue) - 1
  <2>5. n \in Nat /\ Len(ready_queue') = n
    BY <2>2, <2>3
  <2>6. \A i \in 1 .. n : i + 1 \in 1 .. Len(ready_queue) /\ ready_queue'[i] = ready_queue[i + 1]
    BY <2>2, <2>3
  <2> HIDE DEF n
  <2>7. \A q \in Procs : SameJob(procs[q], procs'[q])
    <3>1. next \in Procs \cup {NULL} /\ MayReturn(next)
      BY <1>1, QueueKeepsContract DEF next
    <3> QED
      BY <1>1, <3>1, DispatchEffect DEF RRInductive, SameRecord, Started
  <2>8. JoinTimes' = JoinTimes /\ HaveRun' = HaveRun /\ JoinTimes \in [Procs -> Nat]
    BY <1>1, <2>7, SameJoinTimes, JoinFacts DEF SameJob, History
  <2>9. Since' = 0 /\ Slice' = Slice /\ Left' = Slice /\ Left = 0
    BY <1>1, <2>2, <2>3, <2>4 DEF Since, Slice, Left, DispatchDue
  <2>10. InOrder'
    <3> SUFFICES ASSUME NEW i \in 1 .. n, NEW j \in 1 .. n, i < j
                 PROVE  \/ JoinTimes[ready_queue'[i]] < JoinTimes[ready_queue'[j]]
                        \/ /\ JoinTimes[ready_queue'[i]] = JoinTimes[ready_queue'[j]]
                           /\ ready_queue'[i] \notin HaveRun
      BY <2>5, <2>8 DEF InOrder
    <3>1. i + 1 < j + 1
      OBVIOUS
    <3> QED
      BY <2>6, <3>1 DEF InOrder
  <2>11. WithinSlice'
    BY <1>1, <2>2, <2>9 DEF WithinSlice
  <2>12. NotBeforeSlice'
    <3> SUFFICES ASSUME NEW p \in ReadyProcs', JoinTimes[p] < current_time,
                        gantt_log[current_time] = next
                 PROVE  FALSE
      BY <1>1, <2>2, <2>8, <2>9 DEF NotBeforeSlice
    <3>1. p \in Members(ready_queue')
      BY <1>1 DEF RRInductive, RRInv, QueueHoldsReady, Queued, Members, ReadyProcs
    <3>2. PICK k \in 1 .. n : p = ready_queue[k + 1]
      BY <2>5, <2>6, <3>1 DEF Members
    <3>3. k + 1 \in 1 .. Len(ready_queue) /\ 1 \in 1 .. Len(ready_queue) /\ 1 < k + 1
      BY <2>2, <2>3, <2>6
    <3>4. p \in Procs
      BY <2>2, <3>2, <3>3
    <3>5. JoinTimes[next] <= JoinTimes[p]
      <4>1. JoinTimes[next] < JoinTimes[p] \/ JoinTimes[next] = JoinTimes[p]
        BY <2>3, <3>2, <3>3 DEF InOrder
      <4> QED
        BY <2>3, <2>8, <3>4, <4>1
    <3>6. current_time \in Ticks(next)
      <4>1. Len(gantt_log) = current_time
        BY DEF History, LogAccountsForCPU
      <4>2. current_time \in 1 .. Len(gantt_log)
        BY <2>2, <2>8, <3>4, <4>1
      <4> QED
        BY <4>2 DEF Ticks
    <3>7. current_time <= JoinTimes[next]
      BY <2>3, <3>6, JoinFacts DEF History
    <3> QED
      BY <2>2, <2>3, <2>8, <3>4, <3>5, <3>7
  <2>13. WaitIsBounded'
    <3> SUFFICES ASSUME NEW i \in 1 .. n
                 PROVE  (current_time - JoinTimes[ready_queue[i + 1]]) + (i - 1) * Slice + Slice
                          <= (NumProcs - 1) * Slice
      BY <1>1, <2>5, <2>6, <2>8, <2>9 DEF WaitIsBounded
    <3>1. i + 1 \in 1 .. Len(ready_queue) /\ i \in Int
      BY <2>6
    <3>2. (current_time - JoinTimes[ready_queue[i + 1]]) + ((i + 1) - 1) * Slice + 0
            <= (NumProcs - 1) * Slice
      BY <2>9, <3>1 DEF WaitIsBounded
    <3>3. ((i + 1) - 1) * Slice = (i - 1) * Slice + Slice /\ (i - 1) * Slice \in Int
      BY <2>2, <3>1
    <3>4. ready_queue[i + 1] \in Procs
      BY <2>2, <3>1
    <3>5. JoinTimes[ready_queue[i + 1]] \in Nat
      <4> HIDE DEF Procs
      <4> QED
        BY <2>8, <3>4
    <3>6. NumProcs - 1 \in Int
      BY NumProcsAssumption
    <3>7. (NumProcs - 1) * Slice \in Int
      BY <2>2, <3>6
    <3>8. ASSUME NEW waited \in Int, NEW ahead \in Int, NEW all \in Int, NEW slice \in Int,
                 waited + (ahead + slice) + 0 <= all
          PROVE  waited + ahead + slice <= all
      BY <3>8
    <3>9. current_time - JoinTimes[ready_queue[i + 1]] \in Int
      BY <2>2, <3>5
    <3> QED
      BY <2>2, <3>2, <3>3, <3>7, <3>8, <3>9
  <2> QED
    BY <2>10, <2>11, <2>12, <2>13
<1> QED
  BY <1>2, <1>3

LEMMA RRHistoryInit == RRInit => RRHistory
<1> SUFFICES ASSUME RRInit PROVE RRHistory
  OBVIOUS
<1>1. RRInductive /\ History
  BY RRInitInductive, HistoryInit DEF RRInit
<1>2. running_process = NULL /\ Len(ready_queue) = 0
  BY EmptySeq DEF RRInit, Init
<1>3. RRTimed
  BY <1>2 DEF RRTimed, InOrder, WithinSlice, NotBeforeSlice, WaitIsBounded
<1> QED
  BY <1>1, <1>3 DEF RRHistory

LEMMA RRHistoryStep == RRHistory /\ [RRNext]_<< vars, rrVars >> => RRHistory'
<1> SUFFICES ASSUME RRHistory, [RRNext]_<< vars, rrVars >> PROVE RRHistory'
  OBVIOUS
<1>1. RRInductive' /\ [Next]_vars
  BY RRInductiveStep, RRStepIsEngineStep DEF RRHistory
<1>2. History'
  BY <1>1, HistoryStep DEF RRHistory
<1> SUFFICES RRTimed'
  BY <1>1, <1>2 DEF RRHistory
<1>3. CASE Mechanism /\ UNCHANGED rrVars
  BY <1>3, StagesKeepTime
<1>4. CASE rr_on_init
  <2>1. ready_queue' = << >> /\ running_process' = NULL
    BY <1>4 DEF rr_on_init, on_init
  <2> QED
    BY <2>1, EmptyIsTimed
<1>5. CASE rr_on_arrival
  BY <1>5, ArrivalKeepsTime
<1>6. CASE rr_on_tick
  BY <1>6, TickKeepsTime
<1>7. CASE rr_next_process
  BY <1>1, <1>7, DispatchKeepsTime
<1>8. CASE rr_on_finish
  <2>1. ready_queue' = << >> /\ running_process' = running_process /\ completed = NumProcs
    BY <1>8 DEF rr_on_finish, on_finish, RRHistory, RRInductive
  <2>2. \A p \in Procs : procs[p].state = "FINISHED"
    BY <2>1, AllFinished DEF RRHistory, RRInductive, EngineInv, Finished
  <2>3. running_process = NULL
    BY <2>2 DEF RRHistory, RRInductive, EngineInv, OneRunning, TypeOK
  <2> QED
    BY <2>1, <2>3, EmptyIsTimed
<1>9. CASE UNCHANGED << vars, rrVars >>
  <2>1. UNCHANGED << procs, current_time, gantt_log, running_process, preempt_requested, pc,
                     quantum, ready_queue, current_quantum >>
    BY <1>9 DEF vars, rrVars
  <2>2. JoinTimes' = JoinTimes /\ HaveRun' = HaveRun /\ ReadyProcs' = ReadyProcs
    BY <2>1, SameJoinTimes DEF ReadyProcs
  <2>3. Since' = Since /\ Slice' = Slice /\ Left' = Left
    BY <2>1 DEF Since, Slice, Left
  <2> QED
    BY <2>1, <2>2, <2>3
       DEF RRHistory, RRTimed, InOrder, WithinSlice, NotBeforeSlice, WaitIsBounded
<1> QED
  BY <1>3, <1>4, <1>5, <1>6, <1>7, <1>8, <1>9 DEF RRNext
-----------------------------------------------------------------------------
(***************************************************************************)
(* ArrivalsAheadOfPreempted: the queue is in the order of joining, and who *)
(* arrives in the time unit in which a slice ends is ahead of the process  *)
(* whose slice it was.                                                     *)
(***************************************************************************)
THEOREM QueueIsInOrder == RRSpec => []ArrivalsAheadOfPreempted
<1>1. RRHistory => ArrivalsAheadOfPreempted
  <2> SUFFICES ASSUME RRHistory,
                      NEW i \in 1 .. Len(ready_queue), NEW j \in 1 .. Len(ready_queue), i < j
               PROVE  \/ JoinTime(ready_queue[i]) < JoinTime(ready_queue[j])
                      \/ /\ JoinTime(ready_queue[i]) = JoinTime(ready_queue[j])
                         /\ Ticks(ready_queue[i]) = {}
    BY DEF ArrivalsAheadOfPreempted
  <2>1. ready_queue[i] \in Procs /\ ready_queue[j] \in Procs
    BY QueueFacts DEF RRHistory
  <2>2. /\ JoinTimes[ready_queue[i]] = JoinTime(ready_queue[i])
        /\ JoinTimes[ready_queue[j]] = JoinTime(ready_queue[j])
        /\ ready_queue[i] \notin HaveRun => Ticks(ready_queue[i]) = {}
    BY <2>1 DEF JoinTimes, HaveRun
  <2>3. \/ JoinTimes[ready_queue[i]] < JoinTimes[ready_queue[j]]
        \/ /\ JoinTimes[ready_queue[i]] = JoinTimes[ready_queue[j]]
           /\ ready_queue[i] \notin HaveRun
    BY DEF RRHistory, RRTimed, InOrder
  <2> QED
    BY <2>2, <2>3
<1> QED
  BY <1>1, RRHistoryInit, RRHistoryStep, PTL DEF RRSpec

(***************************************************************************)
(* SliceRespected: as soon as a process has waited for the length of a     *)
(* slice, the process on the CPU has not had it for longer than that.      *)
(***************************************************************************)
THEOREM NobodyOverstaysTheSlice == RRSpec => []SliceRespected
<1>1. RRHistory => SliceRespected
  <2> SUFFICES ASSUME RRHistory, pc = "execute", running_process # NULL,
                      NEW p \in Procs, procs[p].state = "READY",
                      JoinTime(p) <= current_time - Slice
               PROVE  \E t \in current_time - Slice + 1 .. current_time :
                        gantt_log[t] # running_process
    BY DEF SliceRespected
  <2>1. ~preempt_requested
    BY DEF RRHistory, RRInductive, OnlyRunnerPreempted
  <2>2. p \in ReadyProcs /\ JoinTimes[p] = JoinTime(p) /\ JoinTime(p) \in Nat
    BY JoinFacts DEF ReadyProcs, JoinTimes, RRHistory, History
  <2>3. /\ Slice \in Nat /\ Since \in Int /\ current_time \in Nat
        /\ 0 <= Since /\ Since < Slice
    BY <2>1, QueueFacts DEF RRHistory, RRTimed, WithinSlice
  <2>4. JoinTimes[p] < current_time - Since
    BY <2>2, <2>3
  <2>5. gantt_log[current_time - Since] # running_process
    BY <2>1, <2>2, <2>4 DEF RRHistory, RRTimed, NotBeforeSlice
  <2>6. current_time - Since \in current_time - Slice + 1 .. current_time
    BY <2>3
  <2> QED
    BY <2>5, <2>6
<1> QED
  BY <1>1, RRHistoryInit, RRHistoryStep, PTL DEF RRSpec

(***************************************************************************)
(* BoundedWait, the fairness of Round Robin: nobody waits longer for the   *)
(* CPU than a slice of each of the other processes.                        *)
(***************************************************************************)
THEOREM NobodyWaitsLong == RRSpec => []BoundedWait
<1>1. RRHistory => BoundedWait
  <2> SUFFICES ASSUME RRHistory, NEW p \in Procs, procs[p].state = "READY"
               PROVE  current_time - JoinTime(p) <= (NumProcs - 1) * Slice
    BY DEF BoundedWait
  <2>1. p \in Members(ready_queue)
    BY QueueFacts DEF ReadyProcs, RRHistory
  <2>2. PICK i \in 1 .. Len(ready_queue) : p = ready_queue[i]
    BY <2>1 DEF Members
  <2>3. JoinTimes[p] = JoinTime(p) /\ JoinTime(p) \in Nat
    BY JoinFacts DEF JoinTimes, RRHistory, History
  <2>4. (current_time - JoinTime(p)) + (i - 1) * Slice + Left <= (NumProcs - 1) * Slice
    BY <2>2, <2>3 DEF RRHistory, RRTimed, WaitIsBounded
  <2>5. Left \in Int /\ 0 <= Left
    BY LeftRange DEF RRHistory, RRTimed
  <2>6. i - 1 \in Nat /\ Slice \in Nat /\ current_time \in Nat /\ NumProcs - 1 \in Int
    BY QueueFacts, NumProcsAssumption DEF RRHistory
  <2>7. (i - 1) * Slice \in Nat /\ (NumProcs - 1) * Slice \in Int
    BY <2>6
  <2>8. ASSUME NEW waited \in Int, NEW ahead \in Nat, NEW left \in Int, NEW all \in Int,
               0 <= left, waited + ahead + left <= all
        PROVE  waited <= all
    BY <2>8
  <2> DEFINE ahead == (i - 1) * Slice
             all   == (NumProcs - 1) * Slice
  <2>9. /\ current_time - JoinTime(p) \in Int /\ ahead \in Nat /\ all \in Int
        /\ (current_time - JoinTime(p)) + ahead + Left <= all
    BY <2>3, <2>4, <2>6, <2>7
  <2>10. current_time - JoinTime(p) <= all
    <3> HIDE DEF ahead, all
    <3> QED
      BY <2>5, <2>8, <2>9
  <2> QED
    BY <2>10
<1> QED
  BY <1>1, RRHistoryInit, RRHistoryStep, PTL DEF RRSpec
=============================================================================
