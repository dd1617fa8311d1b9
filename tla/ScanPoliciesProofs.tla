------------------------- MODULE ScanPoliciesProofs -------------------------
(***************************************************************************)
(* Theorems about FCFS, SJF and STCF, for every workload: the scan of      *)
(* next_process keeps the contract of the engine, each policy runs what it *)
(* promises to run, and serving a shortest process in every time unit      *)
(* makes the total turnaround the least there is.                          *)
(***************************************************************************)
EXTENDS ScanPolicies, EngineProofs

USE DEF Procs, NULL

-----------------------------------------------------------------------------
(***************************************************************************)
(* The scan.                                                               *)
(***************************************************************************)
\* One iteration: the process kept after element i.
Kept(i, v) ==
  IF /\ Readied[i].state = "READY"
     /\ v = NULL \/ Before(Readied[i], Readied[v])
    THEN i
    ELSE v

LEMMA ScanSteps ==
  \E kept : /\ Scan = kept[NumProcs]
            /\ kept[0] = NULL
            /\ \A i \in Procs : kept[i] = Kept(i, kept[i - 1])
<1> DEFINE V == 0 .. NumProcs
           step == [i \in 1 .. NumProcs |-> [v \in V |-> Kept(i, v)]]
           Loop(f) == [i \in 0 .. NumProcs |-> IF i = 0 THEN NULL ELSE Kept(i, f[i - 1])]
           next == CHOOSE f : f = Loop(f)
<1>1. NumProcs \in Nat /\ 0 \in V /\ step \in [1 .. NumProcs -> [V -> V]]
  BY NumProcsAssumption DEF Kept
<1>2. PICK f \in [0 .. NumProcs -> V] : Follows(f, NumProcs, NULL, step)
  <2> HIDE DEF step, V
  <2> QED
    BY <1>1, RecursiveFunction, Zenon
<1>3. ASSUME NEW i \in 1 .. NumProcs
      PROVE  f[i - 1] \in V /\ step[i][f[i - 1]] = Kept(i, f[i - 1])
  <2>1. f[i - 1] \in V
    BY NumProcsAssumption
  <2> QED
    BY <2>1
<1>4. f = Loop(f)
  <2> HIDE DEF step
  <2> QED
    BY <1>2, <1>3 DEF Follows
<1>5. next = Loop(next)
  <2> HIDE DEF Loop
  <2> QED
    BY <1>4, Zenon
<1>6. Scan = next[NumProcs]
  BY DEF Scan, Kept
<1> HIDE DEF next
<1>7. next[0] = NULL /\ \A i \in Procs : next[i] = Kept(i, next[i - 1])
  <2>1. \A g : Loop(g)[0] = NULL /\ \A i \in Procs : Loop(g)[i] = Kept(i, g[i - 1])
    BY NumProcsAssumption
  <2> HIDE DEF Loop
  <2> QED
    BY <1>5, <2>1
<1> QED
  BY <1>6, <1>7

\* What the policy compares first.
Key(p) ==
  CASE policy = "FCFS" -> p.arrival_time
    [] policy = "SJF"  -> p.burst_time
    [] policy = "STCF" -> p.remaining_time

LEMMA BeforeByKey ==
  ASSUME policy \in {"FCFS", "SJF", "STCF"}, NEW p \in Process, NEW q \in Process
  PROVE  /\ Key(p) \in Nat /\ Key(q) \in Nat
         /\ Before(p, q) => Key(p) <= Key(q)
         /\ ~Before(p, q) => Key(q) <= Key(p)
         /\ policy = "FCFS" /\ Before(p, q) => p.arrival_time < q.arrival_time
<1>1. /\ p.arrival_time \in Nat /\ p.burst_time \in Nat /\ p.remaining_time \in Nat
      /\ q.arrival_time \in Nat /\ q.burst_time \in Nat /\ q.remaining_time \in Nat
  BY ProcessFields
<1>2. CASE policy = "FCFS"
  <2>1. /\ Key(p) = p.arrival_time /\ Key(q) = q.arrival_time
        /\ Before(p, q) <=> p.arrival_time < q.arrival_time
    BY <1>2 DEF Key, Before, FCFSBefore
  <2> QED
    BY <1>1, <2>1
<1>3. CASE policy = "SJF"
  <2>1. /\ Key(p) = p.burst_time /\ Key(q) = q.burst_time
        /\ Before(p, q) <=> SJFBefore(p, q)
    BY <1>3 DEF Key, Before
  <2> QED
    BY <1>1, <1>3, <2>1 DEF SJFBefore
<1>4. CASE policy = "STCF"
  <2>1. /\ Key(p) = p.remaining_time /\ Key(q) = q.remaining_time
        /\ Before(p, q) <=> STCFBefore(p, q)
    BY <1>4 DEF Key, Before
  <2> QED
    BY <1>1, <1>4, <2>1 DEF STCFBefore
<1> QED
  BY <1>2, <1>3, <1>4

\* The scan returns a READY process with the least key, under FCFS the first in the array,
\* or NULL if none is READY.
Chosen(next, i) ==
  IF next = NULL THEN \A q \in 1 .. i : Readied[q].state # "READY"
  ELSE /\ next \in 1 .. i
       /\ Readied[next].state = "READY"
       /\ \A q \in 1 .. i : Readied[q].state = "READY" =>
            Key(Readied[next]) <= Key(Readied[q]) /\ (policy = "FCFS" => next <= q)

LEMMA ScanChooses ==
  ASSUME EngineInv, policy \in {"FCFS", "SJF", "STCF"}
  PROVE  Chosen(Scan, NumProcs)
<1>1. PICK kept : /\ Scan = kept[NumProcs]
                  /\ kept[0] = NULL
                  /\ \A i \in Procs : kept[i] = Kept(i, kept[i - 1])
  BY ScanSteps
<1>2. Readied \in [Procs -> Process] /\ NumProcs \in Nat
  BY ReadiedProcess, NumProcsAssumption DEF EngineInv
<1>3. \A p, q \in Procs : p < q => Readied[p].arrival_time <= Readied[q].arrival_time
  BY ReadiedProcess, SortedByArrival DEF EngineInv, ArrivedInOrder, SameJob
<1> DEFINE S == {i \in 0 .. NumProcs : Chosen(kept[i], i)}
<1>4. 0 \in S
  BY <1>1, <1>2 DEF Chosen
<1>5. ASSUME NEW i \in 0 .. NumProcs - 1, i \in S PROVE i + 1 \in S
  <2>1. Chosen(kept[i], i) /\ i + 1 \in Procs /\ kept[i + 1] = Kept(i + 1, kept[i])
    BY <1>1, <1>2, <1>5
  <2>2. PICK j \in Procs : j = i + 1
    BY <2>1
  <2>3. PICK k : k = kept[i]
    OBVIOUS
  <2>4. Chosen(k, i) /\ kept[j] = Kept(j, k) /\ (k # NULL => k \in 1 .. i /\ k \in Procs)
    BY <1>2, <2>1, <2>2, <2>3 DEF Chosen
  <2>5. \A q \in 1 .. j : q \in 1 .. i \/ q = j
    BY <2>2
  <2>6. CASE Readied[j].state # "READY"
    BY <2>2, <2>4, <2>5, <2>6 DEF Chosen, Kept
  <2>7. CASE Readied[j].state = "READY" /\ k = NULL
    <3>1. kept[j] = j /\ Key(Readied[j]) \in Nat
      BY <1>2, <2>4, <2>7, BeforeByKey DEF Kept
    <3> QED
      BY <2>2, <2>4, <2>5, <2>7, <3>1 DEF Chosen
  <2>8. CASE Readied[j].state = "READY" /\ k # NULL /\ ~Before(Readied[j], Readied[k])
    <3>1. kept[j] = k /\ Key(Readied[k]) <= Key(Readied[j])
      BY <1>2, <2>4, <2>8, BeforeByKey DEF Kept
    <3> QED
      BY <2>2, <2>4, <2>5, <2>8, <3>1 DEF Chosen
  <2>9. CASE Readied[j].state = "READY" /\ k # NULL /\ Before(Readied[j], Readied[k])
    <3>1. /\ kept[j] = j /\ Key(Readied[j]) <= Key(Readied[k])
          /\ \A q \in Procs : Key(Readied[q]) \in Nat
      BY <1>2, <2>4, <2>9, BeforeByKey DEF Kept
    <3>2. policy # "FCFS"
      <4>1. Readied[k].arrival_time <= Readied[j].arrival_time
        BY <1>3, <2>2, <2>4, <2>9
      <4>2. Readied[k].arrival_time \in Nat /\ Readied[j].arrival_time \in Nat
        BY <1>2, <2>4, <2>9, ProcessFields
      <4> QED
        BY <1>2, <2>4, <2>9, <4>1, <4>2, BeforeByKey
    <3>3. ASSUME NEW q \in 1 .. j, Readied[q].state = "READY"
          PROVE  Key(Readied[j]) <= Key(Readied[q])
      <4>1. CASE q = j
        BY <3>1, <4>1
      <4>2. CASE q # j
        <5>1. q \in 1 .. i /\ q \in Procs
          BY <1>2, <2>2, <4>2
        <5>2. Key(Readied[k]) <= Key(Readied[q])
          BY <2>4, <2>9, <3>3, <5>1 DEF Chosen
        <5> QED
          BY <2>4, <2>9, <3>1, <5>1, <5>2
      <4> QED
        BY <4>1, <4>2
    <3> QED
      BY <2>2, <2>9, <3>1, <3>2, <3>3 DEF Chosen
  <2> QED
    BY <2>6, <2>7, <2>8, <2>9
<1>6. NumProcs \in S
  <2> HIDE DEF S
  <2>1. \A i \in 0 .. NumProcs : i \in S
    BY <1>2, <1>4, <1>5, UpTo
  <2> QED
    BY <1>2, <2>1
<1> QED
  BY <1>1, <1>6
-----------------------------------------------------------------------------
(***************************************************************************)
(* The contract, and what the steps of the policies do to                  *)
(* preempt_requested.                                                      *)
(***************************************************************************)
LEMMA ScanIsCandidate ==
  ASSUME EngineInv, policy \in {"FCFS", "SJF", "STCF"}
  PROVE  Scan \in Procs \cup {NULL} /\ MayReturn(Scan)
<1>1. \A p \in Procs : Readied[p].state = "READY" <=> p \in Candidates
  BY ReadiedProcess DEF Candidates, EngineInv
<1>2. Chosen(Scan, NumProcs)
  BY ScanChooses
<1>3. CASE Scan = NULL
  BY <1>1, <1>2, <1>3 DEF Chosen, MayReturn, Candidates
<1>4. CASE Scan # NULL
  BY <1>1, <1>2, <1>4 DEF Chosen, MayReturn
<1> QED
  BY <1>3, <1>4

\* STCF's on_arrival
ShorterArrives ==
  /\ running_process # NULL
  /\ procs[next_arrival_idx + 1].remaining_time < procs[running_process].remaining_time

ScanStep ==
  \/ /\ handle_completions \/ finish_instantly \/ execute \/ idle \/ Silent
     /\ UNCHANGED preempt_requested
  \/ policy # "STCF" /\ arrive(FALSE)
  \/ policy = "STCF" /\ arrive(ShorterArrives)
  \/ policy \in {"FCFS", "SJF", "STCF"} /\ handle_dispatch(Scan)

LEMMA ScanStepCases ==
  ASSUME EngineInv, [ScanNext]_<< vars, policy >>
  PROVE  policy' = policy /\ ScanStep /\ [Next]_vars
<1>0. preempt_requested \in BOOLEAN
  BY DEF EngineInv, TypeOK
<1>1. CASE UNCHANGED << vars, policy >>
  BY <1>1 DEF ScanStep, Silent, vars
<1>2. CASE ScanNext /\ Mechanism
  <2>1. Mechanism /\ UNCHANGED policy
    BY <1>2 DEF ScanNext
  <2>2. (handle_completions \/ finish_instantly \/ execute \/ idle \/ Silent) /\ UNCHANGED preempt_requested
    BY <2>1 DEF Mechanism, Silent, handle_completions, finish_instantly, execute, idle,
       arrivals_done, no_tick, keep_running, returned, vars
  <2> QED
    BY <2>1, <2>2 DEF ScanStep, Next
<1>3. CASE ScanNext /\ NoHooks
  <2>1. NoHooks /\ UNCHANGED policy
    BY <1>3 DEF ScanNext
  <2>2. CASE policy_tick(FALSE)
    <3>1. preempt_requested' = (preempt_requested \/ FALSE)
      BY <2>2 DEF policy_tick
    <3>2. preempt_requested' = preempt_requested
      BY <1>0, <3>1, Zenon
    <3> QED
      BY <2>1, <2>2, <3>2 DEF ScanStep, Silent, Next, MayRequest
  <2>3. CASE on_init \/ on_finish
    BY <2>1, <2>3 DEF ScanStep, Silent, Next, on_init, on_finish
  <2> QED
    BY <2>1, <2>2, <2>3 DEF NoHooks
<1>4. CASE ScanNext /\ arrive_unnoticed
  <2>1. policy # "STCF" /\ arrive(FALSE) /\ UNCHANGED policy
    BY <1>4 DEF ScanNext, arrive_unnoticed
  <2> QED
    BY <2>1 DEF ScanStep, Next, MayRequest
<1>5. CASE ScanNext /\ stcf_on_arrival
  <2>1. policy = "STCF" /\ arrive(ShorterArrives) /\ UNCHANGED policy
    BY <1>5 DEF ScanNext, stcf_on_arrival, ShorterArrives
  <2>2. ShorterArrives \in BOOLEAN /\ MayRequest(ShorterArrives)
    BY DEF ShorterArrives, MayRequest
  <2> QED
    BY <2>1, <2>2 DEF ScanStep, Next
<1>6. CASE ScanNext /\ (fcfs_next_process \/ sjf_next_process \/ stcf_next_process)
  <2>1. policy \in {"FCFS", "SJF", "STCF"} /\ handle_dispatch(Scan) /\ UNCHANGED policy
    BY <1>6 DEF ScanNext, fcfs_next_process, sjf_next_process, stcf_next_process
  <2>2. Scan \in Procs \cup {NULL} /\ MayReturn(Scan)
    BY <2>1, ScanIsCandidate
  <2> QED
    BY <2>1, <2>2 DEF ScanStep, Next
<1> QED
  BY <1>1, <1>2, <1>3, <1>4, <1>5, <1>6 DEF ScanNext

LEMMA ScanEngineStep ==
  EngineInv /\ [ScanNext]_<< vars, policy >> => [Next]_vars
BY ScanStepCases

(***************************************************************************)
(* FCFS, SJF and STCF keep the contract: each of their behaviours is one   *)
(* of the engine, so that the theorems about the engine hold of them.      *)
(***************************************************************************)
THEOREM ScanPoliciesKeepContract == ScanSpec => Init /\ [][Next]_vars
<1>1. ScanInit => Init
  BY DEF ScanInit
<1> QED
  BY <1>1, EngineInit, EngineStep, ScanEngineStep, PTL DEF ScanSpec
-----------------------------------------------------------------------------
(***************************************************************************)
(* FCFS and SJF never preempt: a process that is READY has not run.        *)
(***************************************************************************)
NeverPreempted ==
  policy # "STCF" =>
    /\ ~preempt_requested
    /\ \A p \in Procs : procs[p].state = "READY" => procs[p].start_time = -1
    /\ running_process # NULL =>
         \A t \in procs[running_process].start_time + 1 .. Len(gantt_log) :
           gantt_log[t] = running_process

LEMMA NeverPreemptedInit == ScanInit => NeverPreempted
<1> SUFFICES ASSUME ScanInit PROVE NeverPreempted
  OBVIOUS
<1>1. \A p \in Procs : procs[p].state = "NOT_ARRIVED"
  BY ParsedProcess DEF ScanInit, Init, Workloads
<1> QED
  BY <1>1 DEF NeverPreempted, ScanInit, Init

LEMMA NeverPreemptedStep ==
  EngineInv /\ LogAccountsForCPU /\ MetricsKept /\ NeverPreempted /\ [ScanNext]_<< vars, policy >>
    => NeverPreempted'
<1> SUFFICES ASSUME EngineInv, LogAccountsForCPU, MetricsKept, NeverPreempted,
                    [ScanNext]_<< vars, policy >>, policy # "STCF"
             PROVE  /\ ~preempt_requested'
                    /\ \A p \in Procs : procs'[p].state = "READY" => procs'[p].start_time = -1
                    /\ running_process' # NULL =>
                         \A t \in procs'[running_process'].start_time + 1 .. Len(gantt_log') :
                           gantt_log'[t] = running_process'
  BY ScanStepCases DEF NeverPreempted
<1>0. /\ Len(gantt_log) = current_time /\ current_time \in Nat /\ TypeOK
      /\ \A p \in Procs : procs[p].state = "RUNNING" <=> p = running_process
      /\ \A p \in Procs : procs[p].start_time \in Nat \cup {-1}
      /\ running_process \in Procs \cup {NULL}
  BY RecordFields DEF LogAccountsForCPU, EngineInv, OneRunning, TypeOK
<1>1. CASE handle_completions /\ UNCHANGED preempt_requested
  BY <1>0, <1>1, CompletionEffect DEF NeverPreempted, FinishNow, Ended
<1>2. CASE finish_instantly /\ UNCHANGED preempt_requested
  BY <1>0, <1>2, FinishInstantlyEffect DEF NeverPreempted, FinishNow, Ended
<1>3. CASE execute /\ UNCHANGED preempt_requested
  <2>0. PICK r \in Procs : r = running_process
    BY <1>3, ExecuteEffect
  <2>1. /\ procs' = [procs EXCEPT ![r].remaining_time = procs[r].remaining_time - 1]
        /\ running_process' = r /\ gantt_log' = Append(gantt_log, r)
    BY <1>3, <2>0, ExecuteEffect
  <2>2. \A p \in Procs : procs'[p].state = procs[p].state /\ procs'[p].start_time = procs[p].start_time
    BY <1>0, <2>1 DEF TypeOK, Process
  <2>3. /\ Len(gantt_log)' = Len(gantt_log) + 1 /\ gantt_log'[Len(gantt_log) + 1] = r
        /\ \A t \in 1 .. Len(gantt_log) : gantt_log'[t] = gantt_log[t]
    BY <1>0, <2>1, NewEntry
  <2>4. ASSUME NEW t \in procs'[r].start_time + 1 .. Len(gantt_log') PROVE gantt_log'[t] = r
    <3>1. procs[r].start_time \in Nat \/ (procs[r].start_time = -1 /\ procs[r].state = "RUNNING")
      BY <1>0, <2>0
    <3>2. procs[r].start_time \in Nat
      BY <3>1 DEF MetricsKept, StartOf
    <3>3. t = Len(gantt_log) + 1 \/ t \in procs[r].start_time + 1 .. Len(gantt_log)
      BY <1>0, <2>2, <2>3, <3>2
    <3>4. t \in procs[r].start_time + 1 .. Len(gantt_log) => t \in 1 .. Len(gantt_log)
      BY <1>0, <3>2
    <3> QED
      BY <2>0, <2>3, <3>3, <3>4 DEF NeverPreempted
  <2> QED
    BY <1>3, <2>0, <2>1, <2>2, <2>4 DEF NeverPreempted
<1>4. CASE idle /\ UNCHANGED preempt_requested
  BY <1>4, IdleEffect DEF NeverPreempted
<1>5. CASE Silent /\ UNCHANGED preempt_requested
  BY <1>5, SilentEffect DEF NeverPreempted
<1>6. CASE arrive(FALSE)
  <2>1. /\ procs'[next_arrival_idx + 1].state = "READY"
        /\ procs[next_arrival_idx + 1].state = "NOT_ARRIVED" /\ next_arrival_idx + 1 \in Procs
        /\ \A p \in Procs : SameRecord(procs[p], procs'[p])
        /\ \A p \in Procs \ {next_arrival_idx + 1} : procs'[p] = procs[p]
        /\ UNCHANGED << gantt_log, running_process >>
    BY <1>6, ArrivalEffect
  <2>2. procs[next_arrival_idx + 1].start_time = -1
    BY <2>1 DEF MetricsKept, StartOf
  <2>3. ~preempt_requested'
    BY <1>6 DEF arrive, NeverPreempted
  <2> QED
    BY <1>0, <2>1, <2>2, <2>3 DEF NeverPreempted, SameRecord
<1>7. CASE policy \in {"FCFS", "SJF", "STCF"} /\ handle_dispatch(Scan)
  <2>1. PICK next \in Procs \cup {NULL} : next = Scan /\ MayReturn(next) /\ handle_dispatch(next)
    BY <1>7, ScanIsCandidate
  <2>2. running_process = NULL /\ ~preempt_requested'
    BY <2>1 DEF handle_dispatch, DispatchDue, NeverPreempted
  <2>3. /\ \A p \in Procs :
              IF p = next /\ procs[p].start_time = -1 /\ p # running_process
                THEN Started(procs[p], procs'[p], current_time)
                ELSE SameRecord(procs[p], procs'[p])
        /\ \A p \in Procs : procs'[p].state = IF p = next THEN "RUNNING"
                                              ELSE IF p = running_process THEN "READY"
                                              ELSE procs[p].state
        /\ next # NULL => procs[next].state \in {"READY", "RUNNING"}
        /\ running_process' = next /\ UNCHANGED gantt_log
    BY <2>1, DispatchEffect
  <2>4. \A p \in Procs : procs'[p].state = "READY" => procs'[p].start_time = -1
    BY <2>2, <2>3 DEF NeverPreempted, SameRecord
  <2>5. next # NULL => procs'[next].start_time = Len(gantt_log)
    BY <1>0, <2>2, <2>3 DEF NeverPreempted, Started
  <2> QED
    BY <1>0, <2>2, <2>3, <2>4, <2>5
<1> QED
  BY <1>1, <1>2, <1>3, <1>4, <1>5, <1>6, <1>7, ScanStepCases DEF ScanStep

(***************************************************************************)
(* RunsToCompletion: under SJF a process that has started runs in every    *)
(* time unit until it ends.                                                *)
(***************************************************************************)
THEOREM ShortestJobIsNotPreempted == ScanSpec => []RunsToCompletion
<1>1. EngineInv /\ MetricsKept /\ NeverPreempted => RunsToCompletion
  <2> SUFFICES ASSUME EngineInv, MetricsKept, NeverPreempted, policy = "SJF", NEW p \in Procs,
                      procs[p].start_time # -1, p \notin Finished
               PROVE  /\ p = running_process
                      /\ \A t \in procs[p].start_time + 1 .. Len(gantt_log) : gantt_log[t] = p
    BY DEF RunsToCompletion
  <2>1. procs[p].state \in ProcessState /\ procs[p].state \notin {"NOT_ARRIVED", "READY", "FINISHED"}
    BY DEF EngineInv, TypeOK, Process, MetricsKept, StartOf, NeverPreempted, Finished
  <2>2. p = running_process
    BY <2>1 DEF ProcessState, EngineInv, OneRunning
  <2> QED
    BY <2>2 DEF NeverPreempted
<1>2. ScanInit => Init
  BY DEF ScanInit
<1> QED
  BY <1>1, <1>2, EngineInit, EngineStep, LogInit, LogStep, MetricsInit, MetricsStep,
     ScanEngineStep, NeverPreemptedInit, NeverPreemptedStep, PTL DEF ScanSpec
-----------------------------------------------------------------------------
(***************************************************************************)
(* FirstComeFirstServed is inductive together with NeverPreempted: the     *)
(* first READY process of the array is dispatched to an idle CPU, so those *)
(* before it have arrived and ended.                                       *)
(***************************************************************************)
LEMMA FCFSDispatches ==
  ASSUME EngineInv, NeverPreempted, policy = "FCFS", handle_dispatch(Scan),
         NEW q \in Procs, q = Scan, NEW p \in Procs, p < q
  PROVE  p \in Finished
<1>1. running_process = NULL
  BY DEF handle_dispatch, DispatchDue, NeverPreempted
<1>2. Chosen(q, NumProcs)
  BY ScanChooses
<1>3. \A i \in Procs : Readied[i] = procs[i]
  BY <1>1 DEF Readied
<1>4. procs[q].state = "READY" /\ procs[p].state # "READY"
  BY <1>2, <1>3, NumProcsAssumption DEF Chosen
<1>5. procs[p].state # "NOT_ARRIVED"
  BY <1>4, NumProcsAssumption DEF EngineInv, ArrivedInOrder, TypeOK
<1>6. procs[p].state # "RUNNING" /\ procs[p].state \in ProcessState
  BY <1>1 DEF EngineInv, OneRunning, TypeOK, Process
<1> QED
  BY <1>4, <1>5, <1>6 DEF ProcessState, Finished

LEMMA FCFSStep ==
  EngineInv /\ MetricsKept /\ NeverPreempted /\ FirstComeFirstServed
    /\ [ScanNext]_<< vars, policy >> => FirstComeFirstServed'
<1> SUFFICES ASSUME EngineInv, MetricsKept, NeverPreempted, FirstComeFirstServed,
                    [ScanNext]_<< vars, policy >>, policy = "FCFS",
                    NEW p \in Procs, NEW q \in Procs, p < q, procs'[q].start_time # -1
             PROVE  procs'[p].state = "FINISHED" /\ procs'[p].finish_time <= procs'[q].start_time
  BY ScanStepCases DEF FirstComeFirstServed, Finished
<1>0. procs \in [Procs -> Process] /\ current_time \in Nat
  BY DEF EngineInv, TypeOK
<1>1. /\ procs[q].start_time # -1 => procs[p].state = "FINISHED"
                                     /\ procs[p].finish_time <= procs[q].start_time
      /\ procs[p].state = "FINISHED" => p # running_process
  BY DEF FirstComeFirstServed, Finished, EngineInv, OneRunning
<1>2. CASE handle_completions \/ finish_instantly
  <2>1. procs' = procs \/ FinishNow(running_process)
    BY <1>2, CompletionEffect, FinishInstantlyEffect
  <2>2. procs'[q].start_time = procs[q].start_time
        /\ (p # running_process => procs'[p] = procs[p])
    BY <2>1 DEF FinishNow, Ended
  <2> QED
    BY <1>1, <2>2
<1>3. CASE execute
  <2>1. /\ procs' = [procs EXCEPT ![running_process].remaining_time =
                       procs[running_process].remaining_time - 1]
        /\ running_process \in Procs
    BY <1>3, ExecuteEffect
  <2>2. procs'[q].start_time = procs[q].start_time
        /\ (p # running_process => procs'[p] = procs[p])
    BY <1>0, <2>1 DEF Process
  <2> QED
    BY <1>1, <2>2
<1>4. CASE idle \/ Silent
  BY <1>1, <1>4, IdleEffect, SilentEffect
<1>5. CASE arrive(FALSE)
  BY <1>1, <1>5, ArrivalEffect DEF SameRecord
<1>6. CASE policy = "FCFS" /\ handle_dispatch(Scan)
  <2>1. PICK next \in Procs \cup {NULL} : next = Scan /\ MayReturn(next) /\ handle_dispatch(next)
    BY <1>6, ScanIsCandidate
  <2>2. /\ \A i \in Procs :
              IF i = next /\ procs[i].start_time = -1 /\ i # running_process
                THEN Started(procs[i], procs'[i], current_time)
                ELSE SameRecord(procs[i], procs'[i])
        /\ \A i \in Procs : procs'[i].state = IF i = next THEN "RUNNING"
                                              ELSE IF i = running_process THEN "READY"
                                              ELSE procs[i].state
        /\ next # NULL => procs[next].state \in {"READY", "RUNNING"}
    BY <2>1, DispatchEffect
  <2>3. CASE q = next /\ procs[q].start_time = -1
    <3>1. p \in Finished
      BY <2>1, <2>3, FCFSDispatches
    <3>2. procs[p].state = "FINISHED" /\ procs[p].finish_time <= current_time /\ p # running_process
      BY <1>1, <3>1 DEF MetricsKept, EndOf, Finished
    <3>3. procs'[q].start_time = current_time
      BY <2>2, <2>3 DEF Started, SameRecord
    <3> QED
      BY <2>2, <2>3, <3>2, <3>3 DEF SameRecord
  <2>4. CASE ~(q = next /\ procs[q].start_time = -1)
    <3>1. procs[q].start_time = procs'[q].start_time
      BY <2>2, <2>4 DEF SameRecord
    <3>2. procs[p].state = "FINISHED" /\ procs[p].finish_time <= procs[q].start_time
      BY <1>1, <3>1
    <3> QED
      BY <1>1, <2>2, <3>1, <3>2 DEF SameRecord, Started
  <2> QED
    BY <2>3, <2>4
<1> QED
  BY <1>2, <1>3, <1>4, <1>5, <1>6, ScanStepCases DEF ScanStep

(***************************************************************************)
(* FirstComeFirstServed: under FCFS a process starts only when all those   *)
(* before it in the array have ended.                                      *)
(***************************************************************************)
THEOREM FCFSFollowsTheArray == ScanSpec => []FirstComeFirstServed
<1>1. ScanInit => Init
  BY DEF ScanInit
<1>2. ScanInit => FirstComeFirstServed
  <2> SUFFICES ASSUME ScanInit PROVE FirstComeFirstServed
    OBVIOUS
  <2>1. MetricsKept /\ \A p \in Procs : procs[p].state = "NOT_ARRIVED"
    BY MetricsInit, ParsedProcess DEF ScanInit, Init, Workloads
  <2> QED
    BY <2>1 DEF FirstComeFirstServed, MetricsKept, StartOf
<1> QED
  BY <1>1, <1>2, EngineInit, EngineStep, LogInit, LogStep, MetricsInit, MetricsStep,
     ScanEngineStep, NeverPreemptedInit, NeverPreemptedStep, FCFSStep, PTL DEF ScanSpec
-----------------------------------------------------------------------------
(***************************************************************************)
(* STCF.  Unless a preemption is requested, no READY process is shorter    *)
(* than the one on the CPU; and no request outlives the dispatch.          *)
(***************************************************************************)
ShortestKept ==
  policy = "STCF" =>
    /\ pc = "execute" => ~preempt_requested
    /\ running_process # NULL /\ ~preempt_requested =>
         \A p \in Procs : procs[p].state = "READY" =>
           procs[running_process].remaining_time <= procs[p].remaining_time

LEMMA STCFDispatches ==
  ASSUME EngineInv, policy = "STCF", NEW next \in Procs, next = Scan,
         NEW p \in Procs, procs[p].state \in {"READY", "RUNNING"}
  PROVE  procs[next].remaining_time <= procs[p].remaining_time
<1>1. Chosen(next, NumProcs) /\ Readied[p].state = "READY"
  BY ScanChooses, ReadiedProcess DEF EngineInv, OneRunning
<1>2. Key(Readied[next]) <= Key(Readied[p])
  BY <1>1 DEF Chosen
<1>3. \A q \in Procs : Key(Readied[q]) = procs[q].remaining_time
  BY ReadiedProcess DEF EngineInv, Key
<1> QED
  BY <1>2, <1>3

LEMMA ShortestStep ==
  EngineInv /\ ShortestKept /\ [ScanNext]_<< vars, policy >> => ShortestKept'
<1> SUFFICES ASSUME EngineInv, ShortestKept, [ScanNext]_<< vars, policy >>, policy = "STCF"
             PROVE  ShortestKept'
  BY ScanStepCases DEF ShortestKept
<1>0. /\ procs \in [Procs -> Process] /\ preempt_requested \in BOOLEAN
      /\ \A p \in Procs : procs[p].state = "RUNNING" <=> p = running_process
      /\ \A p \in Procs : procs[p].remaining_time \in Nat
  BY ProcessFields DEF EngineInv, TypeOK, OneRunning
<1>1. CASE handle_completions /\ UNCHANGED preempt_requested
  BY <1>1, CompletionEffect DEF ShortestKept, FinishNow
<1>2. CASE finish_instantly /\ UNCHANGED preempt_requested
  BY <1>2, FinishInstantlyEffect DEF ShortestKept, FinishNow
<1>3. CASE execute /\ UNCHANGED preempt_requested
  <2>1. PICK r \in Procs : r = running_process /\ r = running_process'
    BY <1>3, ExecuteEffect
  <2>2. /\ procs[r].state = "RUNNING"
        /\ procs' = [procs EXCEPT ![r].remaining_time = procs[r].remaining_time - 1]
        /\ pc = "execute" /\ pc' # "execute"
    BY <1>3, <2>1, ExecuteEffect
  <2>3. /\ \A p \in Procs : procs'[p].state = procs[p].state
        /\ procs'[r].remaining_time = procs[r].remaining_time - 1
        /\ \A p \in Procs \ {r} : procs'[p] = procs[p]
    BY <1>0, <2>2 DEF Process
  <2> QED
    BY <1>0, <1>3, <2>1, <2>2, <2>3 DEF ShortestKept
<1>4. CASE idle /\ UNCHANGED preempt_requested
  BY <1>4, IdleEffect DEF ShortestKept
<1>5. CASE Silent /\ UNCHANGED preempt_requested
  <2>1. /\ UNCHANGED << procs, running_process >>
        /\ pc = "dispatch" /\ pc' = "execute" => ~preempt_requested
        /\ pc' = "execute" => pc \in {"dispatch", "execute"}
    BY <1>5, SilentEffect DEF Silent, arrivals_done, no_tick, keep_running, on_init, on_finish,
       policy_tick, vars, LoopHead, DispatchDue
  <2> QED
    BY <1>5, <2>1 DEF ShortestKept
<1>6. CASE arrive(ShorterArrives)
  <2>1. PICK a \in Procs : a = next_arrival_idx + 1
    BY <1>6, ArrivalEffect DEF ShorterArrives
  <2>2. /\ \A p \in Procs : procs'[p].remaining_time = procs[p].remaining_time
        /\ \A p \in Procs \ {a} : procs'[p] = procs[p]
        /\ pc' # "execute" /\ UNCHANGED running_process
    BY <1>6, <2>1, ArrivalEffect DEF SameRecord, ShorterArrives
  <2>3. preempt_requested' = (preempt_requested \/ ShorterArrives)
    BY <1>6 DEF arrive
  <2>4. ASSUME running_process # NULL, ~preempt_requested', NEW p \in Procs,
               procs'[p].state = "READY"
        PROVE  procs[running_process].remaining_time <= procs[p].remaining_time
    <3>1. ~preempt_requested /\ ~ShorterArrives /\ running_process \in Procs
      BY <2>3, <2>4 DEF EngineInv, TypeOK
    <3>2. CASE p = a
      BY <1>0, <2>1, <2>4, <3>1, <3>2 DEF ShorterArrives
    <3>3. CASE p # a
      BY <2>2, <2>4, <3>1, <3>3 DEF ShortestKept
    <3> QED
      BY <3>2, <3>3
  <2>5. running_process # NULL => running_process \in Procs
    BY DEF EngineInv, TypeOK
  <2> QED
    BY <2>2, <2>4, <2>5 DEF ShortestKept
<1>7. CASE handle_dispatch(Scan)
  <2>1. PICK next \in Procs \cup {NULL} : next = Scan /\ MayReturn(next) /\ handle_dispatch(next)
    BY <1>7, ScanIsCandidate
  <2>2. /\ \A p \in Procs : procs'[p].remaining_time = procs[p].remaining_time
        /\ \A p \in Procs : procs'[p].state = IF p = next THEN "RUNNING"
                                              ELSE IF p = running_process THEN "READY"
                                              ELSE procs[p].state
        /\ running_process' = next
    BY <2>1, DispatchEffect DEF SameRecord, Started
  <2>3. ~preempt_requested'
    BY <2>1 DEF handle_dispatch
  <2>4. ASSUME next # NULL, NEW p \in Procs, procs'[p].state = "READY"
        PROVE  procs[next].remaining_time <= procs[p].remaining_time
    BY <1>0, <2>1, <2>2, <2>4, STCFDispatches
  <2> QED
    BY <2>2, <2>3, <2>4 DEF ShortestKept
<1> QED
  BY <1>1, <1>2, <1>3, <1>4, <1>5, <1>6, <1>7, ScanStepCases DEF ScanStep

(***************************************************************************)
(* ShortestRuns: whenever STCF executes a process, no READY process has    *)
(* less time remaining.                                                    *)
(***************************************************************************)
THEOREM ShortestIsServed == ScanSpec => []ShortestRuns
<1>1. ScanInit => Init
  BY DEF ScanInit
<1>2. ScanInit => ShortestKept
  BY DEF ScanInit, Init, ShortestKept
<1>3. ShortestKept => ShortestRuns
  BY DEF ShortestKept, ShortestRuns, Ready
<1> QED
  BY <1>1, <1>2, <1>3, EngineInit, EngineStep, ScanEngineStep, ShortestStep, PTL DEF ScanSpec
-----------------------------------------------------------------------------
(***************************************************************************)
(* Sums over some of the processes, and how many they are.                 *)
(***************************************************************************)
Only(S, f) == [p \in Procs |-> IF p \in S THEN f[p] ELSE 0]
Part(S, f) == Total(NumProcs, Only(S, f))
Ones       == [p \in Procs |-> 1]
Count(S)   == Part(S, Ones)

LEMMA OnlyType ==
  ASSUME NEW S, NEW f \in [Procs -> Int]
  PROVE  /\ Only(S, f) \in [1 .. NumProcs -> Int]
         /\ \A p \in Procs : Only(S, f)[p] = IF p \in S THEN f[p] ELSE 0
BY DEF Only

LEMMA OnesType == Ones \in [Procs -> Int] /\ Ones \in [Procs -> Nat] /\ \A p \in Procs : Ones[p] = 1
BY DEF Ones

LEMMA PartType ==
  ASSUME NEW S, NEW f \in [Procs -> Int]
  PROVE  Part(S, f) \in Int /\ Count(S) \in Int
<1>1. /\ NumProcs \in Nat
      /\ Only(S, f) \in [1 .. NumProcs -> Int] /\ Only(S, Ones) \in [1 .. NumProcs -> Int]
  BY NumProcsAssumption, OnlyType, OnesType
<1>2. Total(NumProcs, Only(S, f)) \in Int /\ Total(NumProcs, Only(S, Ones)) \in Int
  BY <1>1, TotalIsInt
<1> QED
  BY <1>2 DEF Part, Count

LEMMA PartIsMonotonic ==
  ASSUME NEW S, NEW T, NEW f \in [Procs -> Int], NEW g \in [Procs -> Int],
         \A p \in Procs : Only(S, f)[p] <= Only(T, g)[p]
  PROVE  Part(S, f) <= Part(T, g)
<1>1. /\ NumProcs \in Nat
      /\ Only(S, f) \in [1 .. NumProcs -> Int] /\ Only(T, g) \in [1 .. NumProcs -> Int]
  BY NumProcsAssumption, OnlyType
<1>2. Total(NumProcs, Only(S, f)) <= Total(NumProcs, Only(T, g))
  BY <1>1, TotalIsMonotonic
<1> QED
  BY <1>2 DEF Part

\* The same terms have the same sum.
LEMMA PartIsSame ==
  ASSUME NEW S, NEW T, NEW f \in [Procs -> Int], NEW g \in [Procs -> Int],
         \A p \in Procs : Only(S, f)[p] = Only(T, g)[p]
  PROVE  Part(S, f) = Part(T, g)
<1>1. Only(S, f) = Only(T, g)
  BY DEF Only
<1> QED
  BY <1>1 DEF Part

LEMMA PartOfSums ==
  ASSUME NEW S, NEW T, NEW U, NEW f \in [Procs -> Int], NEW g \in [Procs -> Int],
         NEW h \in [Procs -> Int],
         \A p \in Procs : Only(U, h)[p] = Only(S, f)[p] + Only(T, g)[p]
  PROVE  Part(U, h) = Part(S, f) + Part(T, g)
<1> DEFINE a == Only(S, f)
           b == Only(T, g)
           c == Only(U, h)
<1>1. /\ NumProcs \in Nat /\ a \in [1 .. NumProcs -> Int] /\ b \in [1 .. NumProcs -> Int]
      /\ c \in [1 .. NumProcs -> Int]
  BY NumProcsAssumption, OnlyType
<1>2. \A p \in 1 .. NumProcs : c[p] = a[p] + b[p]
  OBVIOUS
<1>3. Part(S, f) = Total(NumProcs, a) /\ Part(T, g) = Total(NumProcs, b) /\ Part(U, h) = Total(NumProcs, c)
  BY DEF Part
<1> HIDE DEF a, b, c
<1>4. Total(NumProcs, c) = Total(NumProcs, a) + Total(NumProcs, b)
  BY <1>1, <1>2, TotalOfSums
<1> QED
  BY <1>3, <1>4

LEMMA PartOfOne ==
  ASSUME NEW p \in Procs, NEW f \in [Procs -> Int]
  PROVE  Part({p}, f) = f[p] /\ Count({p}) = 1
<1>1. ASSUME NEW g \in [Procs -> Int] PROVE Part({p}, g) = g[p]
  <2> DEFINE a == Only({p}, g)
  <2>1. NumProcs \in Nat /\ a \in [1 .. NumProcs -> Int]
    BY NumProcsAssumption, OnlyType
  <2>2. a[p] = g[p] /\ \A q \in 1 .. NumProcs : q # p => a[q] = 0
    BY DEF Only
  <2>3. Part({p}, g) = Total(NumProcs, a)
    BY DEF Part
  <2> HIDE DEF a
  <2>4. Total(NumProcs, a) = a[p]
    BY <2>1, <2>2, TotalOfOne
  <2> QED
    BY <2>2, <2>3, <2>4
<1> QED
  BY <1>1, OnesType DEF Count

\* The processes of U are those of S and those of T.
Splits(U, S, T) == \A p \in Procs : (p \in U <=> p \in S \/ p \in T) /\ (p \in S => p \notin T)

LEMMA PartOfUnion ==
  ASSUME NEW S, NEW T, NEW U,
         Splits(U, S, T), NEW f \in [Procs -> Int]
  PROVE  /\ Part(U, f) = Part(S, f) + Part(T, f)
         /\ Count(U) = Count(S) + Count(T)
<1>1. ASSUME NEW g \in [Procs -> Int]
      PROVE  Part(U, g) = Part(S, g) + Part(T, g)
  <2>1. \A p \in Procs : Only(U, g)[p] = Only(S, g)[p] + Only(T, g)[p]
    BY DEF Only, Splits
  <2> QED
    BY <2>1, PartOfSums
<1> QED
  BY <1>1, OnesType DEF Count

\* What is not negative adds up to more over more processes.
LEMMA PartGrows ==
  ASSUME NEW S, NEW T, \A p \in Procs : p \in S => p \in T, NEW f \in [Procs -> Nat]
  PROVE  Part(S, f) <= Part(T, f) /\ Count(S) <= Count(T)
<1>1. ASSUME NEW g \in [Procs -> Nat]
      PROVE  Part(S, g) <= Part(T, g)
  <2>1. \A p \in Procs : Only(S, g)[p] <= Only(T, g)[p]
    BY DEF Only
  <2>2. g \in [Procs -> Int]
    OBVIOUS
  <2> QED
    BY <2>1, <2>2, PartIsMonotonic
<1> QED
  BY <1>1, OnesType DEF Count

\* A part of the CPU time left is no less than any of its terms, and 0 only if they all are.
LEMMA PartOfLeft ==
  ASSUME NEW left \in [Procs -> Nat], NEW S
  PROVE  /\ left \in [Procs -> Int] /\ Part(S, left) \in Int
         /\ \A p \in Procs : p \in S => left[p] <= Part(S, left)
         /\ (\A p \in Procs : p \in S => left[p] = 0) => Part(S, left) = 0
<1>1. left \in [Procs -> Int]
  OBVIOUS
<1>2. ASSUME NEW p \in Procs, p \in S PROVE left[p] <= Part(S, left)
  <2>1. Part({p}, left) = left[p]
    BY <1>1, PartOfOne
  <2>2. Part({p}, left) <= Part(S, left)
    BY <1>2, PartGrows
  <2> QED
    BY <2>1, <2>2
<1>3. ASSUME \A p \in Procs : p \in S => left[p] = 0 PROVE Part(S, left) = 0
  <2>1. \A p \in Procs : Only(S, left)[p] = Only(S, left)[p] + Only(S, left)[p]
    BY <1>1, <1>3 DEF Only
  <2>2. Part(S, left) = Part(S, left) + Part(S, left)
    BY <1>1, <2>1, PartOfSums
  <2>3. Part(S, left) \in Int
    BY <1>1, PartType
  <2> QED
    BY <2>2, <2>3
<1>4. Part(S, left) \in Int
  BY <1>1, PartType
<1> QED
  BY <1>1, <1>2, <1>3, <1>4

\* Serving a process takes one unit of its time.
LEMMA PartServed ==
  ASSUME NEW left \in [Procs -> Nat], NEW p \in Procs, left[p] > 0, NEW S
  PROVE  /\ Serve(left, p) \in [Procs -> Nat]
         /\ Serve(left, p)[p] = left[p] - 1
         /\ \A q \in Procs : q # p => Serve(left, p)[q] = left[q]
         /\ p \in S => Part(S, Serve(left, p)) = Part(S, left) - 1
         /\ p \notin S => Part(S, Serve(left, p)) = Part(S, left)
<1> DEFINE after == Serve(left, p)
<1>1. /\ after \in [Procs -> Nat] /\ after[p] = left[p] - 1
      /\ \A q \in Procs : q # p => after[q] = left[q]
  BY DEF Serve
<1> HIDE DEF after
<1>2. after \in [Procs -> Int] /\ left \in [Procs -> Int]
  BY <1>1
<1>3. ASSUME p \in S PROVE Part(S, after) = Part(S, left) - 1
  <2>0. PICK T : T = {p}
    OBVIOUS
  <2>1. ASSUME NEW q \in Procs
        PROVE  Only(S, left)[q] = Only(S, after)[q] + Only(T, Ones)[q]
    <3>1. after[q] \in Int /\ left[q] \in Int /\ left[p] \in Int
      BY <1>2
    <3>2. /\ Only(S, left)[q] = IF q \in S THEN left[q] ELSE 0
          /\ Only(S, after)[q] = IF q \in S THEN after[q] ELSE 0
          /\ Only(T, Ones)[q] = IF q = p THEN 1 ELSE 0
      BY <2>0, OnesType DEF Only
    <3> QED
      BY <1>1, <1>3, <3>1, <3>2
  <2>2. Part(S, left) = Part(S, after) + Part(T, Ones)
    BY <1>2, <2>1, OnesType, PartOfSums
  <2>3. Part(T, Ones) = 1 /\ Part(S, after) \in Int
    BY <1>2, <2>0, OnesType, PartOfOne, PartType
  <2> QED
    BY <2>2, <2>3
<1>4. ASSUME p \notin S PROVE Part(S, after) = Part(S, left)
  <2>1. \A q \in Procs : Only(S, after)[q] = Only(S, left)[q]
    BY <1>1, <1>4 DEF Only
  <2> QED
    BY <1>2, <2>1, PartIsSame
<1> QED
  BY <1>1, <1>3, <1>4 DEF after
-----------------------------------------------------------------------------
(***************************************************************************)
(* One schedule is ahead of another, among the processes D, if it has as   *)
(* much left to do but in fewer processes: whatever is left of some        *)
(* processes under the other, as many processes have no less left under    *)
(* this one.  Who always serves a shortest process stays ahead of all.     *)
(***************************************************************************)
Ahead(D, A, B) ==
  /\ Part(D, A) = Part(D, B)
  /\ \A p \in Procs \ D : A[p] = B[p]
  /\ \A S \in SUBSET D : \E T \in SUBSET D : Count(T) <= Count(S) /\ Part(S, B) <= Part(T, A)

Due(t) == {p \in Procs : procs[p].arrival_time <= t}

LEMMA AheadOfItself ==
  ASSUME NEW D, NEW A \in [Procs -> Nat]
  PROVE  Ahead(D, A, A)
<1>1. ASSUME NEW S \in SUBSET D
      PROVE  \E T \in SUBSET D : Count(T) <= Count(S) /\ Part(S, A) <= Part(T, A)
  <2>1. A \in [Procs -> Int]
    OBVIOUS
  <2>2. Count(S) \in Int /\ Part(S, A) \in Int
    BY <2>1, PartType
  <2>3. Count(S) <= Count(S) /\ Part(S, A) <= Part(S, A)
    BY <2>2
  <2> QED
    BY <2>3
<1> QED
  BY <1>1 DEF Ahead

\* Processes of which both have the same left make no difference.
LEMMA AheadWithMore ==
  ASSUME NEW D \in SUBSET Procs, NEW E \in SUBSET Procs, D \subseteq E,
         NEW A \in [Procs -> Nat], NEW B \in [Procs -> Nat], Ahead(D, A, B)
  PROVE  Ahead(E, A, B)
<1>1. A \in [Procs -> Int] /\ B \in [Procs -> Int]
  OBVIOUS
<1>2. ASSUME NEW N, N \cap D = {} PROVE Part(N, A) = Part(N, B)
  <2>1. \A p \in Procs : Only(N, A)[p] = Only(N, B)[p]
    BY <1>2 DEF Only, Ahead
  <2> QED
    BY <1>1, <2>1, PartIsSame
<1>3. Part(E, A) = Part(E, B)
  <2>1. PICK N : N = E \ D
    OBVIOUS
  <2>2. Splits(E, D, N) /\ N \cap D = {}
    BY <2>1 DEF Splits
  <2>3. Part(E, A) = Part(D, A) + Part(N, A) /\ Part(E, B) = Part(D, B) + Part(N, B)
    BY <1>1, <2>2, PartOfUnion
  <2> QED
    BY <1>2, <2>2, <2>3 DEF Ahead
<1>4. ASSUME NEW S \in SUBSET E
      PROVE  \E T \in SUBSET E : Count(T) <= Count(S) /\ Part(S, B) <= Part(T, A)
  <2>1. PICK N, R : N = S \ D /\ R = S \cap D
    OBVIOUS
  <2>2. Splits(S, R, N) /\ N \cap D = {} /\ R \in SUBSET D /\ N \in SUBSET E
    BY <2>1 DEF Splits
  <2>3. PICK T \in SUBSET D : Count(T) <= Count(R) /\ Part(R, B) <= Part(T, A)
    BY <2>2 DEF Ahead
  <2>4. PICK U \in SUBSET E : Splits(U, T, N)
    <3>1. T \cup N \in SUBSET E /\ \A p \in T : p \notin N
      BY <2>2
    <3> QED
      BY <3>1 DEF Splits
  <2>5. Part(S, B) = Part(R, B) + Part(N, B) /\ Count(S) = Count(R) + Count(N)
    BY <1>1, <2>2, PartOfUnion
  <2>6. Part(U, A) = Part(T, A) + Part(N, A) /\ Count(U) = Count(T) + Count(N)
    BY <1>1, <2>4, PartOfUnion
  <2>7. Part(N, A) = Part(N, B)
    BY <1>2, <2>2
  <2>8. /\ Part(R, B) \in Int /\ Part(T, A) \in Int /\ Part(N, A) \in Int
        /\ Count(R) \in Int /\ Count(T) \in Int /\ Count(N) \in Int
    BY <1>1, PartType
  <2>9. Count(U) <= Count(S) /\ Part(S, B) <= Part(U, A)
    <3>1. Count(T) + Count(N) <= Count(R) + Count(N)
      BY <2>3, <2>8
    <3>2. Part(R, B) + Part(N, B) <= Part(T, A) + Part(N, A)
      BY <2>3, <2>7, <2>8
    <3> QED
      BY <2>5, <2>6, <3>1, <3>2
  <2> QED
    BY <2>9
<1> QED
  BY <1>3, <1>4 DEF Ahead

\* Who is ahead has no more processes left, and none only if the other has none.
LEMMA AheadHasFewer ==
  ASSUME NEW D \in SUBSET Procs, NEW A \in [Procs -> Nat], NEW B \in [Procs -> Nat], Ahead(D, A, B)
  PROVE  /\ Count({p \in D : A[p] > 0}) <= Count({p \in D : B[p] > 0})
         /\ {p \in D : A[p] > 0} = {} <=> {p \in D : B[p] > 0} = {}
<1> DEFINE a == {p \in D : A[p] > 0}
           b == {p \in D : B[p] > 0}
<1>1. A \in [Procs -> Int] /\ B \in [Procs -> Int]
  OBVIOUS
<1>2. a \in SUBSET D /\ b \in SUBSET D
  OBVIOUS
<1>3. Part(b, B) = Part(D, B) /\ Part(a, A) = Part(D, A)
  <2>1. \A p \in Procs : Only(b, B)[p] = Only(D, B)[p] /\ Only(a, A)[p] = Only(D, A)[p]
    BY DEF Only
  <2> HIDE DEF a, b
  <2> QED
    BY <1>1, <2>1, PartIsSame
<1>4. \A p \in D : (p \in a <=> A[p] > 0) /\ (p \in b <=> B[p] > 0)
  OBVIOUS
<1> HIDE DEF a, b
<1>5. Part(D, A) = Part(D, B) /\ Part(D, A) \in Int /\ Part(D, B) \in Int
  BY <1>1, PartType DEF Ahead
<1>6. PICK T \in SUBSET D : Count(T) <= Count(b) /\ Part(b, B) <= Part(T, A)
  BY <1>2 DEF Ahead
<1>7. ASSUME NEW p \in Procs, p \in a PROVE p \in T
  <2> SUFFICES ASSUME p \notin T PROVE FALSE
    OBVIOUS
  <2>1. PICK U, V : U = {p} /\ V = T \cup U
    OBVIOUS
  <2>2. Splits(V, T, U) /\ \A q \in Procs : q \in V => q \in D
    BY <1>2, <1>7, <2>1 DEF Splits
  <2>3. Part(V, A) = Part(T, A) + Part(U, A)
    BY <1>1, <2>2, PartOfUnion
  <2>4. Part(U, A) = A[p]
    BY <1>1, <2>1, PartOfOne
  <2>5. Part(V, A) <= Part(D, A)
    BY <2>2, PartGrows
  <2>6. A[p] > 0 /\ A[p] \in Nat /\ Part(T, A) \in Int
    BY <1>1, <1>2, <1>4, <1>7, PartType
  <2> QED
    BY <1>3, <1>5, <1>6, <2>3, <2>4, <2>5, <2>6
<1>8. Count(a) <= Count(T)
  BY <1>7, PartGrows
<1>9. Count(a) <= Count(b)
  <2>1. Count(a) \in Int /\ Count(T) \in Int /\ Count(b) \in Int
    BY <1>1, PartType
  <2> QED
    BY <1>6, <1>8, <2>1
<1>10. ASSUME NEW f \in [Procs -> Nat], NEW g \in [Procs -> Nat], Part(D, f) = Part(D, g),
              {p \in D : f[p] > 0} = {}
       PROVE  {p \in D : g[p] > 0} = {}
  <2>1. \A p \in Procs : p \in D => f[p] = 0
    BY <1>10
  <2>2. Part(D, g) = 0
    BY <1>10, <2>1, PartOfLeft
  <2>3. \A p \in Procs : p \in D => g[p] <= 0
    BY <2>2, PartOfLeft
  <2>4. ASSUME NEW p \in D PROVE ~(g[p] > 0)
    <3>1. p \in Procs /\ g[p] \in Nat
      OBVIOUS
    <3> QED
      BY <2>3, <3>1
  <2> QED
    BY <2>4
<1>11. a = {} <=> b = {}
  BY <1>5, <1>10 DEF a, b
<1> QED
  BY <1>9, <1>11 DEF a, b

\* Who serves a shortest process stays ahead, whomever the other serves.
LEMMA AheadAfterServing ==
  ASSUME NEW D \in SUBSET Procs, NEW A \in [Procs -> Nat], NEW B \in [Procs -> Nat], Ahead(D, A, B),
         NEW r \in D, A[r] > 0, \A q \in D : A[q] > 0 => A[r] <= A[q],
         NEW p \in D, B[p] > 0
  PROVE  Ahead(D, Serve(A, r), Serve(B, p))
<1>1. PICK A1, B1 : A1 = Serve(A, r) /\ B1 = Serve(B, p)
  OBVIOUS
<1>2. r \in Procs /\ p \in Procs
  OBVIOUS
<1>3. /\ A1 \in [Procs -> Nat] /\ A1[r] = A[r] - 1
      /\ \A q \in Procs : q # r => A1[q] = A[q]
      /\ \A S : (r \in S => Part(S, A1) = Part(S, A) - 1) /\ (r \notin S => Part(S, A1) = Part(S, A))
  BY <1>1, <1>2, PartServed
<1>4. /\ B1 \in [Procs -> Nat] /\ B1[p] = B[p] - 1
      /\ \A q \in Procs : q # p => B1[q] = B[q]
      /\ \A S : (p \in S => Part(S, B1) = Part(S, B) - 1) /\ (p \notin S => Part(S, B1) = Part(S, B))
  BY <1>1, <1>2, PartServed
<1>5. /\ A \in [Procs -> Int] /\ B \in [Procs -> Int]
      /\ A1 \in [Procs -> Int] /\ B1 \in [Procs -> Int]
  BY <1>3, <1>4
<1>6. \A S : /\ Part(S, A) \in Int /\ Part(S, B) \in Int
             /\ Part(S, A1) \in Int /\ Part(S, B1) \in Int /\ Count(S) \in Int
  BY <1>5, PartType
<1>7. Part(D, A1) = Part(D, B1)
  BY <1>3, <1>4 DEF Ahead
<1>8. \A q \in Procs \ D : A1[q] = B1[q]
  BY <1>3, <1>4 DEF Ahead
<1>9. ASSUME NEW S \in SUBSET D
      PROVE  \E T \in SUBSET D : Count(T) <= Count(S) /\ Part(S, B1) <= Part(T, A1)
  <2>1. PICK T \in SUBSET D : Count(T) <= Count(S) /\ Part(S, B) <= Part(T, A)
    BY DEF Ahead
  <2>2. Part(S, B1) <= Part(S, B)
    <3>1. Part(S, B1) = Part(S, B) - 1 \/ Part(S, B1) = Part(S, B)
      BY <1>4
    <3> QED
      BY <1>6, <3>1
  <2>3. CASE r \notin T
    <3>1. Part(T, A1) = Part(T, A)
      BY <1>3, <2>3
    <3>2. Part(S, B1) <= Part(T, A1)
      BY <1>6, <2>1, <2>2, <3>1
    <3> QED
      BY <2>1, <3>2
  \* Another process that is left is no shorter: it takes the place of r.
  <2>4. CASE r \in T /\ \E q \in D \ T : A[q] > 0
    <3>1. PICK q \in D \ T : A[q] > 0
      BY <2>4
    <3>2. PICK R, U, V, W : R = T \ {r} /\ U = {r} /\ V = {q} /\ W = R \cup V
      OBVIOUS
    <3>3. Splits(T, R, U) /\ Splits(W, R, V) /\ W \in SUBSET D /\ r \notin W
      BY <2>4, <3>1, <3>2 DEF Splits
    <3>4. /\ Part(T, A) = Part(R, A) + Part(U, A) /\ Count(T) = Count(R) + Count(U)
          /\ Part(W, A) = Part(R, A) + Part(V, A) /\ Count(W) = Count(R) + Count(V)
      BY <1>5, <3>3, PartOfUnion
    <3>5. Part(U, A) = A[r] /\ Part(V, A) = A[q] /\ Count(U) = 1 /\ Count(V) = 1
      BY <1>2, <1>5, <3>1, <3>2, PartOfOne
    <3>6. A[r] <= A[q] /\ A[r] \in Int /\ A[q] \in Int
      BY <1>2, <1>5, <3>1
    <3>7. Count(W) = Count(T)
      BY <3>4, <3>5
    <3>8. Part(T, A) <= Part(W, A)
      <4>1. Part(R, A) \in Int
        BY <1>6
      <4>2. Part(R, A) + A[r] <= Part(R, A) + A[q]
        BY <3>6, <4>1
      <4> QED
        BY <3>4, <3>5, <4>2
    <3>9. Part(W, A1) = Part(W, A)
      BY <1>3, <3>3
    <3>10. Part(S, B1) <= Part(W, A1)
      BY <1>6, <2>1, <2>2, <3>8, <3>9
    <3> QED
      BY <2>1, <3>3, <3>7, <3>10
  \* Everything that is left is in T.
  <2>5. CASE r \in T /\ ~\E q \in D \ T : A[q] > 0
    <3>1. \A q \in Procs : Only(D, A)[q] = Only(T, A)[q]
      BY <1>5, <2>5 DEF Only
    <3>2. Part(D, A) = Part(T, A)
      BY <1>5, <3>1, PartIsSame
    <3>3. Part(T, A1) = Part(D, A1)
      BY <1>3, <2>5, <3>2
    <3>4. Part(S, B1) <= Part(D, B1)
      BY <1>4, PartGrows
    <3>5. Part(S, B1) <= Part(T, A1)
      BY <1>7, <3>3, <3>4
    <3> QED
      BY <2>1, <3>5
  <2> QED
    BY <2>3, <2>4, <2>5
<1>10. Ahead(D, A1, B1)
  BY <1>7, <1>8, <1>9 DEF Ahead
<1> QED
  BY <1>1, <1>10
-----------------------------------------------------------------------------
(***************************************************************************)
(* What a time unit adds to the total turnaround.  Elapsed is the part of  *)
(* it that the unfinished processes have behind them at time t: each unit  *)
(* adds the number of those that wait or run, whoever is served.           *)
(***************************************************************************)
Unfinished(left) == {p \in Procs : left[p] > 0}

Age(t) == [p \in Procs |->
  (IF procs[p].arrival_time <= t THEN t - procs[p].arrival_time ELSE 0) - Lead(p)]

Elapsed(t, left) == Part(Unfinished(left), Age(t))

\* The turnaround of the processes that have not finished.
Outstanding(left) == Part(Unfinished(left), [p \in Procs |-> procs[p].turnaround_time])

LEMMA JobTypes ==
  ASSUME procs \in [Procs -> Process], NEW p \in Procs
  PROVE  /\ procs[p].arrival_time \in Nat /\ procs[p].burst_time \in Nat
         /\ procs[p].turnaround_time \in Int
         /\ Lead(p) \in {0, 1} /\ Length(p) \in Nat \ {0}
BY ProcessFields, RecordFields DEF Lead, Length

LEMMA CostTypes ==
  ASSUME procs \in [Procs -> Process], NEW t \in Nat
  PROVE  /\ Age(t) \in [Procs -> Int]
         /\ [p \in Procs |-> procs[p].turnaround_time] \in [Procs -> Int]
         /\ \A left : Elapsed(t, left) \in Int /\ Outstanding(left) \in Int
<1>1. Age(t) \in [Procs -> Int]
  <2>1. ASSUME NEW p \in Procs
        PROVE (IF procs[p].arrival_time <= t THEN t - procs[p].arrival_time ELSE 0) - Lead(p) \in Int
    BY JobTypes
  <2> QED
    BY <2>1 DEF Age
<1>2. [p \in Procs |-> procs[p].turnaround_time] \in [Procs -> Int]
  BY JobTypes
<1> QED
  BY <1>1, <1>2, PartType DEF Elapsed, Outstanding

LEMMA ServingCosts ==
  ASSUME procs \in [Procs -> Process], NEW t \in Nat, NEW left \in [Procs -> Nat],
         NEW p \in Waiters(t, left)
  PROVE  /\ Settled(p, t, left) \in Nat
         /\ Settled(p, t, left) + Elapsed(t + 1, Serve(left, p))
              = Elapsed(t, left) + Count(Waiters(t, left))
<1>1. /\ p \in Procs /\ left[p] > 0 /\ procs[p].arrival_time <= t
      /\ procs[p].arrival_time \in Nat /\ Lead(p) \in {0, 1}
  BY JobTypes DEF Waiters
<1>2. Settled(p, t, left) \in Nat
  BY <1>1 DEF Settled
<1>3. PICK after : after = Serve(left, p)
  OBVIOUS
<1>4. /\ after[p] = left[p] - 1 /\ \A q \in Procs : q # p => after[q] = left[q]
      /\ left[p] \in Nat
  BY <1>1, <1>3, PartServed
<1>5. PICK W, U, V, T : W = Waiters(t, left) /\ U = Unfinished(left) /\ V = Unfinished(after) /\ T = {p}
  OBVIOUS
<1> DEFINE c == [q \in Procs |-> Settled(p, t, left)]
           h == [q \in Procs |-> Only(U, Age(t))[q] + Only(W, Ones)[q]]
<1>6. c \in [Procs -> Int] /\ Age(t) \in [Procs -> Int] /\ Age(t + 1) \in [Procs -> Int]
  BY <1>2, CostTypes
<1>7. ASSUME NEW q \in Procs
      PROVE  /\ Only(U, Age(t))[q] \in Int /\ Only(W, Ones)[q] \in Int
             /\ h[q] = Only(U, Age(t))[q] + Only(W, Ones)[q]
             /\ Only(Procs, h)[q] = h[q]
  BY <1>6, OnesType DEF Only
<1>8. h \in [Procs -> Int]
  <2>1. ASSUME NEW q \in Procs PROVE Only(U, Age(t))[q] + Only(W, Ones)[q] \in Int
    <3>1. PICK a, b : a = Only(U, Age(t))[q] /\ b = Only(W, Ones)[q]
      OBVIOUS
    <3>2. a \in Int /\ b \in Int
      BY <1>7, <3>1
    <3> QED
      BY <3>1, <3>2
  <2> QED
    BY <2>1
<1>9. ASSUME NEW q \in Procs
      PROVE  Only(Procs, h)[q] = Only(T, c)[q] + Only(V, Age(t + 1))[q]
  <2>1. /\ procs[q].arrival_time \in Nat /\ Lead(q) \in {0, 1} /\ left[q] \in Nat
        /\ left[q] > 0 <=> q \in U
        /\ q \in W <=> left[q] > 0 /\ procs[q].arrival_time <= t
        /\ q \in V <=> after[q] > 0
    BY <1>5, JobTypes DEF Unfinished, Waiters
  <2>2. /\ Age(t)[q] = (IF procs[q].arrival_time <= t THEN t - procs[q].arrival_time ELSE 0) - Lead(q)
        /\ Age(t + 1)[q] = (IF procs[q].arrival_time <= t + 1 THEN t + 1 - procs[q].arrival_time ELSE 0)
                             - Lead(q)
    BY <2>1 DEF Age
  <2>3. /\ Only(U, Age(t))[q] = IF q \in U THEN Age(t)[q] ELSE 0
        /\ Only(W, Ones)[q] = IF q \in W THEN 1 ELSE 0
        /\ Only(V, Age(t + 1))[q] = IF q \in V THEN Age(t + 1)[q] ELSE 0
        /\ Only(T, c)[q] = IF q = p THEN Settled(p, t, left) ELSE 0
    BY <1>5, OnesType DEF Only
  <2>4. Age(t)[q] \in Int /\ Age(t + 1)[q] \in Int
    BY <1>6
  <2>5. CASE q # p
    <3>1. q \in V <=> q \in U
      BY <1>4, <2>1, <2>5
    <3>2. q \in U => Age(t + 1)[q] = Age(t)[q] + (IF q \in W THEN 1 ELSE 0)
      BY <2>1, <2>2
    <3>3. /\ Only(T, c)[q] = 0 /\ h[q] = Only(U, Age(t))[q] + Only(W, Ones)[q]
          /\ Only(Procs, h)[q] = h[q]
      BY <1>7, <2>3, <2>5
    <3>4. q \in W => q \in U
      BY <2>1
    <3> HIDE DEF h, c
    <3>5. CASE q \in U
      BY <2>3, <2>4, <3>1, <3>2, <3>3, <3>5
    <3>6. CASE q \notin U
      BY <2>3, <2>4, <3>1, <3>3, <3>4, <3>6
    <3> QED
      BY <3>5, <3>6
  <2>6. CASE q = p
    <3>1. q \in U /\ q \in W
      BY <1>1, <2>1, <2>6
    <3>2. Age(t)[q] = t - procs[q].arrival_time - Lead(q)
      BY <1>1, <2>2, <2>6
    <3>3. Age(t + 1)[q] = t + 1 - procs[q].arrival_time - Lead(q)
      BY <1>1, <2>2, <2>6
    <3>4. h[q] = t - procs[q].arrival_time - Lead(q) + 1
      BY <1>7, <2>3, <3>1, <3>2
    <3>5. CASE left[p] = 1
      <4>1. q \notin V /\ Settled(p, t, left) = t + 1 - Lead(p) - procs[p].arrival_time
        BY <1>4, <2>1, <2>6, <3>5 DEF Settled
      <4> QED
        BY <1>7, <2>1, <2>3, <2>6, <3>4, <4>1
    <3>6. CASE left[p] # 1
      <4>1. q \in V /\ Settled(p, t, left) = 0
        BY <1>1, <1>4, <2>1, <2>6, <3>6 DEF Settled
      <4> QED
        BY <1>7, <2>1, <2>3, <2>6, <3>3, <3>4, <4>1
    <3> QED
      BY <3>5, <3>6
  <2> QED
    BY <2>5, <2>6
<1>10. \A q \in Procs : Only(Procs, h)[q] = Only(U, Age(t))[q] + Only(W, Ones)[q]
  BY <1>7
<1>11. Part(T, c) = Settled(p, t, left)
  BY <1>1, <1>5, <1>6, PartOfOne
<1> HIDE DEF c, h
<1>12. PICK D : D = Procs
  OBVIOUS
<1>13. Part(D, h) = Part(T, c) + Part(V, Age(t + 1))
  BY <1>6, <1>8, <1>9, <1>12, PartOfSums
<1>14. Part(D, h) = Part(U, Age(t)) + Part(W, Ones)
  BY <1>6, <1>8, <1>10, <1>12, OnesType, PartOfSums
<1> QED
  BY <1>2, <1>3, <1>5, <1>11, <1>13, <1>14 DEF Elapsed, Count

LEMMA IdlingCosts ==
  ASSUME procs \in [Procs -> Process], NEW t \in Nat, NEW left \in [Procs -> Nat],
         Waiters(t, left) = {}
  PROVE  Elapsed(t + 1, left) = Elapsed(t, left)
<1>1. Age(t) \in [Procs -> Int] /\ Age(t + 1) \in [Procs -> Int]
  BY CostTypes
<1>2. PICK U : U = Unfinished(left)
  OBVIOUS
<1>3. ASSUME NEW q \in Procs PROVE Only(U, Age(t + 1))[q] = Only(U, Age(t))[q]
  <2>1. procs[q].arrival_time \in Nat /\ (q \in U => ~(procs[q].arrival_time <= t))
    BY <1>2, JobTypes DEF Unfinished, Waiters
  <2>2. /\ Age(t)[q] = (IF procs[q].arrival_time <= t THEN t - procs[q].arrival_time ELSE 0) - Lead(q)
        /\ Age(t + 1)[q] = (IF procs[q].arrival_time <= t + 1 THEN t + 1 - procs[q].arrival_time ELSE 0)
                             - Lead(q)
    BY <2>1 DEF Age
  <2>3. q \in U => Age(t + 1)[q] = Age(t)[q]
    <3>1. ~(procs[q].arrival_time <= t) /\ procs[q].arrival_time <= t + 1 =>
            t + 1 - procs[q].arrival_time = 0
      BY <2>1
    <3> QED
      BY <2>1, <2>2, <3>1
  <2> QED
    BY <2>3 DEF Only
<1> QED
  BY <1>1, <1>2, <1>3, PartIsSame DEF Elapsed

\* A process that ends takes its turnaround with it.
LEMMA OutstandingServed ==
  ASSUME procs \in [Procs -> Process], NEW t \in Nat, NEW left \in [Procs -> Nat],
         NEW p \in Waiters(t, left),
         left[p] = 1 => procs[p].turnaround_time = Settled(p, t, left)
  PROVE  Outstanding(left) = Outstanding(Serve(left, p)) + Settled(p, t, left)
<1>1. p \in Procs /\ left[p] > 0 /\ left[p] \in Nat
  BY DEF Waiters
<1>2. PICK after : after = Serve(left, p)
  OBVIOUS
<1>3. after[p] = left[p] - 1 /\ \A q \in Procs : q # p => after[q] = left[q]
  BY <1>1, <1>2, PartServed
<1>4. PICK U, V, T : U = Unfinished(left) /\ V = Unfinished(after) /\ T = {p}
  OBVIOUS
<1> DEFINE c == [q \in Procs |-> Settled(p, t, left)]
           f == [q \in Procs |-> procs[q].turnaround_time]
<1>5. c \in [Procs -> Int] /\ f \in [Procs -> Int]
  <2>1. Settled(p, t, left) \in Int
    BY ServingCosts
  <2>2. f \in [Procs -> Int]
    BY CostTypes
  <2> QED
    BY <2>1, <2>2
<1>6. ASSUME NEW q \in Procs
      PROVE  Only(U, f)[q] = Only(V, f)[q] + Only(T, c)[q]
  <2>1. /\ left[q] \in Nat /\ f[q] \in Int /\ Settled(p, t, left) \in Nat
        /\ left[q] > 0 <=> q \in U
        /\ q \in V <=> after[q] > 0
        /\ f[p] = procs[p].turnaround_time
    BY <1>1, <1>4, <1>5, ServingCosts DEF Unfinished
  <2>2. c[q] = Settled(p, t, left)
    OBVIOUS
  <2> HIDE DEF f, c
  <2>3. /\ Only(U, f)[q] = IF q \in U THEN f[q] ELSE 0
        /\ Only(V, f)[q] = IF q \in V THEN f[q] ELSE 0
        /\ Only(T, c)[q] = IF q = p THEN Settled(p, t, left) ELSE 0
    BY <1>4, <2>2 DEF Only
  <2>4. CASE q # p
    BY <1>3, <2>1, <2>3, <2>4
  <2>5. CASE q = p /\ left[p] = 1
    <3>1. q \in U /\ q \notin V /\ f[q] = Settled(p, t, left)
      BY <1>3, <2>1, <2>5
    <3> QED
      BY <2>1, <2>3, <2>5, <3>1
  <2>6. CASE q = p /\ left[p] # 1
    <3>1. q \in U /\ q \in V /\ Settled(p, t, left) = 0
      BY <1>1, <1>3, <2>1, <2>6 DEF Settled
    <3> QED
      BY <2>1, <2>3, <2>6, <3>1
  <2> QED
    BY <2>4, <2>5, <2>6
<1>7. Part(T, c) = Settled(p, t, left)
  BY <1>1, <1>4, <1>5, PartOfOne
<1>8. Outstanding(left) = Part(U, f) /\ Outstanding(Serve(left, p)) = Part(V, f)
  BY <1>2, <1>4 DEF Outstanding
<1> HIDE DEF c, f
<1>9. Part(U, f) = Part(V, f) + Part(T, c)
  BY <1>5, <1>6, PartOfSums
<1> QED
  BY <1>7, <1>8, <1>9
-----------------------------------------------------------------------------
(***************************************************************************)
(* The least total, one time unit at a time: Best(t, f) is the least of    *)
(* what can be reached from time t on, f from time t + 1 on.               *)
(***************************************************************************)
Best(t, f) ==
  [left \in [Procs -> Nat] |->
    IF Waiters(t, left) = {} THEN f[left]
    ELSE Min({Settled(p, t, left) + f[Serve(left, p)] : p \in Waiters(t, left)})]

LEMMA MinOfNaturals ==
  ASSUME NEW S, S \subseteq Nat, S # {}
  PROVE  Min(S) \in S /\ \A y \in S : Min(S) <= y
<1>1. \E x \in S : \A y \in S : x <= y
  BY LeastNatural
<1>2. Min(S) = CHOOSE x \in S : \A y \in S : x <= y
  BY DEF Min
<1> QED
  BY <1>1, <1>2, Zenon

LEMMA BestIsReached ==
  ASSUME procs \in [Procs -> Process], NEW t \in Nat, NEW f \in [[Procs -> Nat] -> Nat],
         NEW left \in [Procs -> Nat]
  PROVE  /\ Best(t, f)[left] \in Nat
         /\ Waiters(t, left) = {} => Best(t, f)[left] = f[left]
         /\ Waiters(t, left) # {} =>
              \E p \in Waiters(t, left) :
                Best(t, f)[left] = Settled(p, t, left) + f[Serve(left, p)]
         /\ \A p \in Waiters(t, left) :
              Best(t, f)[left] <= Settled(p, t, left) + f[Serve(left, p)]
<1> DEFINE S == {Settled(p, t, left) + f[Serve(left, p)] : p \in Waiters(t, left)}
<1>1. ASSUME NEW p \in Waiters(t, left)
      PROVE  Settled(p, t, left) + f[Serve(left, p)] \in Nat
  <2>1. Settled(p, t, left) \in Nat
    BY ServingCosts
  <2>2. p \in Procs /\ left[p] > 0
    BY DEF Waiters
  <2>3. PICK after : after = Serve(left, p)
    OBVIOUS
  <2>4. after \in [Procs -> Nat]
    BY <2>2, <2>3, PartServed
  <2>5. f[after] \in Nat
    BY <2>4
  <2> QED
    BY <2>1, <2>3, <2>5
<1>2. Best(t, f)[left] = IF Waiters(t, left) = {} THEN f[left] ELSE Min(S)
  BY DEF Best
<1>3. S \subseteq Nat
  BY <1>1
<1>4. CASE Waiters(t, left) = {}
  BY <1>2, <1>4
<1>5. CASE Waiters(t, left) # {}
  <2>1. S # {}
    <3>1. PICK p \in Waiters(t, left) : TRUE
      BY <1>5
    <3>2. Settled(p, t, left) + f[Serve(left, p)] \in S
      OBVIOUS
    <3> QED
      BY <3>2
  <2>2. PICK m : m = Min(S)
    OBVIOUS
  <2>3. m \in S /\ \A y \in S : m <= y
    <3> HIDE DEF S
    <3> QED
      BY <1>3, <2>1, <2>2, MinOfNaturals
  <2>4. Best(t, f)[left] = m
    BY <1>2, <1>5, <2>2
  <2> QED
    BY <1>3, <1>5, <2>3, <2>4
<1> QED
  BY <1>4, <1>5

LEMMA LeastSteps ==
  ASSUME procs \in [Procs -> Process], Makespan \in Nat
  PROVE  \E least \in [0 .. Makespan -> [[Procs -> Nat] -> Nat]] :
           /\ \A left \in [Procs -> Nat] : least[0][left] = 0
           /\ \A i \in 1 .. Makespan : least[i] = Best(Makespan - i, least[i - 1])
           /\ LeastTotal = least[Makespan][[p \in Procs |-> Length(p)]]
<1> DEFINE n == Makespan
           V == [[Procs -> Nat] -> Nat]
           zero == [left \in [Procs -> Nat] |-> 0]
           step == [i \in 1 .. n |-> [f \in V |-> Best(n - i, f)]]
           Loop(f) == [i \in 0 .. n |-> [left \in [Procs -> Nat] |->
                        IF i = 0 THEN 0
                        ELSE IF Waiters(n - i, left) = {} THEN f[i - 1][left]
                        ELSE Min({Settled(p, n - i, left) + f[i - 1][Serve(left, p)]
                                    : p \in Waiters(n - i, left)})]]
           least == CHOOSE f : f = Loop(f)
<1>1. n \in Nat /\ zero \in V
  OBVIOUS
<1>2. step \in [1 .. n -> [V -> V]]
  <2>1. ASSUME NEW i \in 1 .. n, NEW f \in V PROVE Best(n - i, f) \in V
    <3>1. PICK t \in Nat : t = n - i
      BY <1>1
    <3>2. \A left \in [Procs -> Nat] : Best(t, f)[left] \in Nat
      BY BestIsReached
    <3>3. Best(t, f) = [left \in [Procs -> Nat] |-> Best(t, f)[left]]
      BY DEF Best
    <3> QED
      BY <3>1, <3>2, <3>3
  <2> HIDE DEF V
  <2> QED
    BY <2>1
<1>3. PICK f \in [0 .. n -> V] : Follows(f, n, zero, step)
  <2> HIDE DEF step, V, n, zero
  <2> QED
    BY <1>1, <1>2, RecursiveFunction, Zenon
<1>4. ASSUME NEW g, NEW i \in 1 .. n
      PROVE  Loop(g)[i] = Best(n - i, g[i - 1])
  <2>1. i \in 0 .. n /\ i # 0
    BY <1>1
  <2> HIDE DEF n
  <2> QED
    BY <2>1 DEF Best
<1>5. ASSUME NEW g PROVE Loop(g)[0] = zero /\ DOMAIN Loop(g) = 0 .. n
  <2>1. 0 \in 0 .. n
    BY <1>1
  <2> HIDE DEF n
  <2> QED
    BY <2>1
<1>6. f = Loop(f)
  <2>1. ASSUME NEW i \in 0 .. n PROVE f[i] = Loop(f)[i]
    <3>1. CASE i = 0
      BY <1>3, <1>5, <3>1 DEF Follows
    <3>2. CASE i # 0
      <4>1. i \in 1 .. n /\ i - 1 \in 0 .. n
        BY <1>1, <3>2
      <4>2. f[i - 1] \in V /\ f[i] = step[i][f[i - 1]]
        BY <1>3, <4>1 DEF Follows
      <4>3. f[i] = Best(n - i, f[i - 1])
        <5> HIDE DEF n, V
        <5> QED
          BY <4>1, <4>2
      <4> QED
        BY <1>4, <4>1, <4>3
    <3> QED
      BY <3>1, <3>2
  <2>2. f = [i \in 0 .. n |-> f[i]]
    OBVIOUS
  <2>3. Loop(f) = [i \in 0 .. n |-> Loop(f)[i]]
    <3> HIDE DEF n
    <3> QED
      OBVIOUS
  <2> HIDE DEF Loop, n
  <2> QED
    BY <2>1, <2>2, <2>3
<1>7. least = Loop(least)
  <2> HIDE DEF Loop
  <2> QED
    BY <1>6, Zenon
<1>8. LeastTotal = least[n][[p \in Procs |-> Length(p)]]
  BY DEF LeastTotal
<1> HIDE DEF least
<1>9. least[0] = zero /\ \A i \in 1 .. n : least[i] = Best(n - i, least[i - 1])
  <2> HIDE DEF Loop, n, zero
  <2> QED
    BY <1>4, <1>5, <1>7
<1> DEFINE S == {i \in 0 .. n : least[i] \in V}
<1>10. \A i \in 0 .. n : i \in S
  <2>1. 0 \in S
    <3>1. 0 \in 0 .. n /\ least[0] \in V
      <4> HIDE DEF V, zero
      <4> QED
        BY <1>1, <1>9
    <3> QED
      BY <3>1
  <2>2. ASSUME NEW i \in 0 .. n - 1, i \in S PROVE i + 1 \in S
    <3>1. i + 1 \in 1 .. n /\ i + 1 \in 0 .. n /\ (i + 1) - 1 = i
      BY <1>1
    <3>2. least[i + 1] = Best(n - (i + 1), least[i])
      BY <1>9, <3>1
    <3>3. step[i + 1][least[i]] = Best(n - (i + 1), least[i]) /\ least[i] \in V
      <4> HIDE DEF n, V
      <4> QED
        BY <2>2, <3>1
    <3>4. step[i + 1][least[i]] \in V
      <4> HIDE DEF n, V, step
      <4> QED
        BY <1>2, <3>1, <3>3
    <3> HIDE DEF n, V, step
    <3> QED
      BY <3>1, <3>2, <3>3, <3>4
  <2> HIDE DEF S, n
  <2> QED
    BY <1>1, <2>1, <2>2, UpTo
<1>11. least \in [0 .. n -> V]
  <2>1. DOMAIN least = 0 .. n /\ least = [i \in DOMAIN least |-> least[i]]
    <3>1. \A g : Loop(g) = [i \in DOMAIN Loop(g) |-> Loop(g)[i]]
      <4> HIDE DEF n
      <4> QED
        OBVIOUS
    <3> HIDE DEF Loop, n
    <3> QED
      BY <1>5, <1>7, <3>1
  <2>2. \A i \in 0 .. n : least[i] \in V
    BY <1>10
  <2> HIDE DEF n, V, S
  <2> QED
    BY <2>1, <2>2
<1>12. \A left \in [Procs -> Nat] : least[0][left] = 0
  BY <1>9
<1> HIDE DEF V
<1> QED
  BY <1>8, <1>9, <1>11, <1>12 DEF V
-----------------------------------------------------------------------------
(***************************************************************************)
(* Serving a shortest process is optimal: no schedule that is behind, from *)
(* this time on, adds less to the total turnaround, what its processes     *)
(* have behind them set aside.                                             *)
(***************************************************************************)
Optimal(t, A, f) ==
  /\ f[A] <= Outstanding(A)
  /\ \A B \in [Procs -> Nat] :
       Ahead(Due(t), A, B) => Outstanding(A) - Elapsed(t, A) <= f[B] - Elapsed(t, B)

\* What one time unit does to the CPU time left when a shortest process is served, given the
\* jobs and the time at which each process ends.
Waits(jobs, p, t, left) == left[p] > 0 /\ jobs[p].arrival_time <= t

ShortestServed(jobs, end, t, left, next) ==
  \/ next = left /\ \A p \in Procs : ~Waits(jobs, p, t, left)
  \/ \E r \in Procs :
       /\ Waits(jobs, r, t, left)
       /\ \A q \in Procs : Waits(jobs, q, t, left) => left[r] <= left[q]
       /\ next = Serve(left, r)
       /\ left[r] = 1 => end[r] = t + 1 - (IF jobs[r].burst_time = 0 THEN 1 ELSE 0)

\* Those that wait are the ones that are due and not done.
LEMMA WaitersAreDue ==
  ASSUME procs \in [Procs -> Process], NEW t \in Nat
  PROVE  /\ Due(t) \in SUBSET Procs /\ Due(t + 1) \in SUBSET Procs /\ Due(t) \subseteq Due(t + 1)
         /\ \A left : Waiters(t, left) = {p \in Due(t) : left[p] > 0}
<1>1. \A p \in Procs : procs[p].arrival_time \in Nat
  BY JobTypes
<1>2. \A left : Waiters(t, left) = {p \in Due(t) : left[p] > 0}
  BY DEF Waiters, Due
<1>3. \A p \in Procs : procs[p].arrival_time <= t => procs[p].arrival_time <= t + 1
  BY <1>1
<1> QED
  BY <1>2, <1>3 DEF Due

LEMMA NothingLeft ==
  ASSUME procs \in [Procs -> Process], NEW t \in Nat, NEW left \in [Procs -> Nat],
         \A p \in Procs : left[p] = 0
  PROVE  Outstanding(left) = 0 /\ Elapsed(t, left) = 0
<1>1. PICK U : U = Unfinished(left)
  OBVIOUS
<1>2. \A p \in Procs : p \notin U
  BY <1>1 DEF Unfinished
<1>3. ASSUME NEW f \in [Procs -> Int] PROVE Part(U, f) = 0
  <2>1. \A p \in Procs : Only(U, f)[p] = Only(U, f)[p] + Only(U, f)[p]
    BY <1>2 DEF Only
  <2>2. Part(U, f) = Part(U, f) + Part(U, f)
    BY <2>1, PartOfSums
  <2>3. Part(U, f) \in Int
    BY PartType
  <2> QED
    BY <2>2, <2>3
<1>4. Part(U, Age(t)) = 0
  BY <1>3, CostTypes
<1> DEFINE g == [p \in Procs |-> procs[p].turnaround_time]
<1>5. Part(U, g) = 0
  <2>1. g \in [Procs -> Int]
    BY CostTypes
  <2> HIDE DEF g
  <2> QED
    BY <1>3, <2>1
<1> QED
  BY <1>1, <1>4, <1>5 DEF Outstanding, Elapsed

LEMMA OptimalEnd ==
  ASSUME procs \in [Procs -> Process], NEW t \in Nat, NEW A \in [Procs -> Nat],
         \A p \in Procs : A[p] = 0,
         NEW f, \A B \in [Procs -> Nat] : f[B] = 0
  PROVE  Optimal(t, A, f)
<1>1. Outstanding(A) = 0 /\ Elapsed(t, A) = 0
  BY NothingLeft
<1>2. ASSUME NEW B \in [Procs -> Nat], Ahead(Due(t), A, B)
      PROVE  Elapsed(t, B) = 0
  <2>1. PICK D \in SUBSET Procs : D = Due(t)
    BY WaitersAreDue
  <2>2. Ahead(D, A, B)
    BY <1>2, <2>1
  <2>3. {p \in D : A[p] > 0} = {}
    <3>1. ASSUME NEW p \in D PROVE ~(A[p] > 0)
      <4>1. p \in Procs
        OBVIOUS
      <4>2. A[p] = 0
        BY <4>1
      <4> QED
        BY <4>2
    <3> QED
      BY <3>1
  <2>4. {p \in D : B[p] > 0} = {}
    BY <2>2, <2>3, AheadHasFewer
  <2>5. ASSUME NEW p \in Procs PROVE B[p] = 0
    <3>1. CASE p \in D
      BY <2>4, <3>1
    <3>2. CASE p \notin D
      BY <2>2, <3>2 DEF Ahead
    <3> QED
      BY <3>1, <3>2
  <2> QED
    BY <2>5, NothingLeft
<1> QED
  BY <1>1, <1>2 DEF Optimal

LEMMA OptimalStep ==
  ASSUME procs \in [Procs -> Process], NEW t \in Nat,
         NEW A \in [Procs -> Nat], NEW A1 \in [Procs -> Nat],
         NEW end, \A p \in Procs : procs[p].turnaround_time = end[p] - procs[p].arrival_time,
         ShortestServed(procs, end, t, A, A1),
         NEW f \in [[Procs -> Nat] -> Nat], Optimal(t + 1, A1, f)
  PROVE  Optimal(t, A, Best(t, f))
<1>1. PICK D \in SUBSET Procs, E \in SUBSET Procs : D = Due(t) /\ E = Due(t + 1) /\ D \subseteq E
  BY WaitersAreDue
<1>2. PICK b : b = Best(t, f)
  OBVIOUS
<1>3. /\ \A left : Outstanding(left) \in Int /\ Elapsed(t, left) \in Int /\ Elapsed(t + 1, left) \in Int
      /\ \A S : Count(S) \in Int
  <2>1. \A S : Count(S) \in Int
    BY OnesType, PartType
  <2> QED
    BY <2>1, CostTypes
<1>4. \A left : Waiters(t, left) = {p \in D : left[p] > 0}
  BY <1>1, WaitersAreDue
<1>5. /\ f[A1] <= Outstanding(A1) /\ f[A1] \in Nat
      /\ \A B \in [Procs -> Nat] :
           Ahead(E, A1, B) => Outstanding(A1) - Elapsed(t + 1, A1) <= f[B] - Elapsed(t + 1, B)
  BY <1>1 DEF Optimal
<1>6. ASSUME NEW B \in [Procs -> Nat], Ahead(D, A, B)
      PROVE  /\ Count(Waiters(t, A)) <= Count(Waiters(t, B))
             /\ Waiters(t, A) = {} <=> Waiters(t, B) = {}
  <2>1. /\ Count({p \in D : A[p] > 0}) <= Count({p \in D : B[p] > 0})
        /\ {p \in D : A[p] > 0} = {} <=> {p \in D : B[p] > 0} = {}
    BY <1>6, AheadHasFewer
  <2> QED
    BY <1>4, <2>1
<1>7. CASE Waiters(t, A) = {}
  <2>1. A1 = A
    BY <1>7 DEF ShortestServed, Waits, Waiters
  <2>2. b[A] = f[A]
    BY <1>2, <1>7, BestIsReached
  <2>3. ASSUME NEW B \in [Procs -> Nat], Ahead(D, A, B)
        PROVE  Outstanding(A) - Elapsed(t, A) <= b[B] - Elapsed(t, B)
    <3>1. Waiters(t, B) = {}
      BY <1>6, <1>7, <2>3
    <3>2. b[B] = f[B]
      BY <1>2, <3>1, BestIsReached
    <3>3. Elapsed(t + 1, B) = Elapsed(t, B) /\ Elapsed(t + 1, A) = Elapsed(t, A)
      BY <1>7, <3>1, IdlingCosts
    <3>4. Ahead(E, A, B)
      BY <1>1, <2>3, AheadWithMore
    <3>5. Outstanding(A) - Elapsed(t + 1, A) <= f[B] - Elapsed(t + 1, B)
      BY <1>5, <2>1, <3>4
    <3> QED
      BY <3>2, <3>3, <3>5
  <2> QED
    BY <1>1, <1>2, <1>5, <2>1, <2>2, <2>3 DEF Optimal
<1>8. CASE Waiters(t, A) # {}
  <2>1. PICK r \in Waiters(t, A) : /\ \A q \in Waiters(t, A) : A[r] <= A[q]
                                   /\ A1 = Serve(A, r)
                                   /\ A[r] = 1 => procs[r].turnaround_time = Settled(r, t, A)
    <3>1. PICK r \in Procs :
               /\ Waits(procs, r, t, A)
               /\ \A q \in Procs : Waits(procs, q, t, A) => A[r] <= A[q]
               /\ A1 = Serve(A, r)
               /\ A[r] = 1 => end[r] = t + 1 - (IF procs[r].burst_time = 0 THEN 1 ELSE 0)
      BY <1>8 DEF ShortestServed, Waits, Waiters
    <3>2. r \in Waiters(t, A) /\ \A q \in Waiters(t, A) : A[r] <= A[q]
      BY <3>1 DEF Waits, Waiters
    <3>3. A[r] = 1 => procs[r].turnaround_time = Settled(r, t, A)
      <4>1. procs[r].arrival_time \in Nat /\ Lead(r) = IF procs[r].burst_time = 0 THEN 1 ELSE 0
        BY JobTypes DEF Lead
      <4>2. procs[r].turnaround_time = end[r] - procs[r].arrival_time
        OBVIOUS
      <4>3. A[r] = 1 => end[r] = t + 1 - Lead(r)
        BY <3>1, <4>1
      <4> QED
        BY <4>1, <4>2, <4>3 DEF Settled
    <3> QED
      BY <3>1, <3>2, <3>3
  <2>2. PICK s : s = Settled(r, t, A)
    OBVIOUS
  <2>3. /\ s \in Nat /\ s + Elapsed(t + 1, A1) = Elapsed(t, A) + Count(Waiters(t, A))
    BY <2>1, <2>2, ServingCosts
  <2>4. Outstanding(A) = Outstanding(A1) + s
    BY <2>1, <2>2, OutstandingServed
  <2>5. b[A] <= s + f[A1] /\ b[A] \in Nat
    BY <1>2, <2>1, <2>2, BestIsReached
  <2>6. b[A] <= Outstanding(A)
    <3>1. Outstanding(A1) \in Int /\ f[A1] \in Nat /\ f[A1] <= Outstanding(A1)
      BY <1>3, <1>5
    <3> QED
      BY <2>3, <2>4, <2>5, <3>1
  <2>7. r \in D /\ A[r] > 0 /\ \A q \in D : A[q] > 0 => A[r] <= A[q]
    BY <1>4, <2>1
  <2>8. ASSUME NEW B \in [Procs -> Nat], Ahead(D, A, B)
        PROVE  Outstanding(A) - Elapsed(t, A) <= b[B] - Elapsed(t, B)
    <3>1. Waiters(t, B) # {} /\ Count(Waiters(t, A)) <= Count(Waiters(t, B))
      BY <1>6, <1>8, <2>8
    <3>2. PICK p \in Waiters(t, B) : b[B] = Settled(p, t, B) + f[Serve(B, p)]
      BY <1>2, <3>1, BestIsReached
    <3>3. p \in D /\ B[p] > 0 /\ p \in Procs
      BY <1>4, <3>2
    <3>4. PICK B1, u : B1 = Serve(B, p) /\ u = Settled(p, t, B)
      OBVIOUS
    <3>5. B1 \in [Procs -> Nat]
      BY <3>3, <3>4, PartServed
    <3>6. Ahead(D, A1, B1)
      BY <2>1, <2>7, <2>8, <3>3, <3>4, AheadAfterServing
    <3>7. Ahead(E, A1, B1)
      BY <1>1, <3>5, <3>6, AheadWithMore
    <3>8. Outstanding(A1) - Elapsed(t + 1, A1) <= f[B1] - Elapsed(t + 1, B1) /\ f[B1] \in Nat
      BY <1>5, <3>5, <3>7
    <3>9. u \in Nat /\ u + Elapsed(t + 1, B1) = Elapsed(t, B) + Count(Waiters(t, B))
      BY <3>4, ServingCosts
    <3>10. b[B] = u + f[B1]
      BY <3>2, <3>4
    <3>11. PICK a, a1, c, c1, v, v1, x, y : /\ a = Elapsed(t, A) /\ a1 = Elapsed(t + 1, A1)
                                            /\ c = Elapsed(t, B) /\ c1 = Elapsed(t + 1, B1)
                                            /\ v = Count(Waiters(t, A)) /\ v1 = Count(Waiters(t, B))
                                            /\ x = Outstanding(A1) /\ y = f[B1]
      OBVIOUS
    <3>12. /\ a \in Int /\ a1 \in Int /\ c \in Int /\ c1 \in Int /\ v \in Int /\ v1 \in Int
           /\ x \in Int /\ y \in Int
      <4>1. /\ Elapsed(t, A) \in Int /\ Elapsed(t + 1, A1) \in Int /\ Outstanding(A1) \in Int
            /\ Elapsed(t, B) \in Int /\ Elapsed(t + 1, B1) \in Int
            /\ Count(Waiters(t, A)) \in Int /\ Count(Waiters(t, B)) \in Int
        BY <1>3
      <4>2. y \in Int
        BY <3>8, <3>11
      <4> QED
        BY <3>11, <4>1, <4>2
    <3>13. /\ s + a1 = a + v /\ u + c1 = c + v1 /\ v <= v1 /\ x - a1 <= y - c1
           /\ Outstanding(A) = x + s /\ b[B] = u + y
      BY <2>3, <2>4, <3>1, <3>8, <3>9, <3>10, <3>11
    <3>14. (x + s) - a <= (u + y) - c
      BY <2>3, <3>9, <3>12, <3>13
    <3> QED
      BY <3>11, <3>13, <3>14
  <2> QED
    BY <1>1, <1>2, <2>6, <2>8 DEF Optimal
<1> QED
  BY <1>7, <1>8

\* From the start on, the total turnaround is the least.
LEMMA OptimalStart ==
  ASSUME procs \in [Procs -> Process], NEW A \in [Procs -> Nat], A = [p \in Procs |-> Length(p)],
         NEW f \in [[Procs -> Nat] -> Nat], Optimal(0, A, f)
  PROVE  TotalTurnaround = f[A]
<1> DEFINE g == [p \in Procs |-> procs[p].turnaround_time]
<1>1. Outstanding(A) \in Int /\ Elapsed(0, A) \in Int /\ f[A] \in Nat /\ g \in [Procs -> Int]
  BY CostTypes
<1>2. Ahead(Due(0), A, A)
  BY AheadOfItself
<1>3. f[A] = Outstanding(A)
  BY <1>1, <1>2 DEF Optimal
<1>4. \A p \in Procs : A[p] > 0
  BY JobTypes
<1>5. Only(Unfinished(A), g) = g
  BY <1>4 DEF Only, Unfinished
<1>6. Outstanding(A) = Total(NumProcs, g)
  BY <1>5 DEF Outstanding, Part
<1> QED
  BY <1>3, <1>6 DEF TotalTurnaround

(***************************************************************************)
(* The schedules that serve a shortest process in every time unit up to    *)
(* now, as the CPU time left at each time: from the bursts to `left`.      *)
(***************************************************************************)
ShortestSoFar(jobs, end, now, hist, left) ==
  /\ hist \in [0 .. now -> [Procs -> Nat]]
  /\ hist[0] = [p \in Procs |-> IF jobs[p].burst_time = 0 THEN 1 ELSE jobs[p].burst_time]
  /\ hist[now] = left
  /\ \A t \in 0 .. now - 1 : ShortestServed(jobs, end, t, hist[t], hist[t + 1])

(***************************************************************************)
(* A run that serves a shortest process in every time unit, given by the   *)
(* CPU time left at each time, has the least total turnaround.             *)
(***************************************************************************)
LEMMA ShortestFirstIsLeast ==
  ASSUME procs \in [Procs -> Process], NEW M \in Nat, M = Makespan,
         NEW end, \A p \in Procs : procs[p].turnaround_time = end[p] - procs[p].arrival_time,
         NEW left, \A p \in Procs : left[p] = 0,
         NEW hist, ShortestSoFar(procs, end, M, hist, left)
  PROVE  TotalTurnaround = LeastTotal
<1>0. /\ hist \in [0 .. M -> [Procs -> Nat]] /\ \A p \in Procs : hist[M][p] = 0
      /\ hist[0] = [p \in Procs |-> Length(p)]
      /\ \A t \in 0 .. M - 1 : ShortestServed(procs, end, t, hist[t], hist[t + 1])
  BY DEF ShortestSoFar, Length
<1>1. PICK least \in [0 .. M -> [[Procs -> Nat] -> Nat]] :
           /\ \A A \in [Procs -> Nat] : least[0][A] = 0
           /\ \A i \in 1 .. M : least[i] = Best(M - i, least[i - 1])
           /\ LeastTotal = least[M][[p \in Procs |-> Length(p)]]
  BY LeastSteps
<1> DEFINE S == {i \in 0 .. M : Optimal(M - i, hist[M - i], least[i])}
<1>2. 0 \in S
  <2>1. M - 0 = M /\ M \in 0 .. M /\ 0 \in 0 .. M
    OBVIOUS
  <2>2. PICK A, f : A \in [Procs -> Nat] /\ A = hist[M] /\ f = least[0]
    BY <1>0, <2>1
  <2>3. Optimal(M, A, f)
    BY <1>0, <1>1, <2>2, OptimalEnd
  <2> QED
    BY <2>1, <2>2, <2>3
<1>3. ASSUME NEW i \in 0 .. M - 1, i \in S PROVE i + 1 \in S
  <2>1. PICK t \in Nat : t = M - (i + 1)
    OBVIOUS
  <2>2. /\ t \in 0 .. M - 1 /\ t \in 0 .. M /\ t + 1 = M - i /\ t + 1 \in 0 .. M
        /\ i + 1 \in 1 .. M /\ i + 1 \in 0 .. M /\ (i + 1) - 1 = i /\ i \in 0 .. M
    BY <2>1
  <2>3. PICK A \in [Procs -> Nat], A1 \in [Procs -> Nat], f \in [[Procs -> Nat] -> Nat] :
               A = hist[t] /\ A1 = hist[t + 1] /\ f = least[i]
    BY <1>0, <2>2
  <2>4. Optimal(t + 1, A1, f)
    BY <1>3, <2>2, <2>3
  <2>5. ShortestServed(procs, end, t, A, A1)
    BY <1>0, <2>2, <2>3
  <2>6. Optimal(t, A, Best(t, f))
    BY <2>4, <2>5, OptimalStep
  <2>7. least[i + 1] = Best(t, f)
    BY <1>1, <2>1, <2>2, <2>3
  <2> QED
    BY <2>1, <2>2, <2>3, <2>6, <2>7
<1> HIDE DEF S
<1>4. M \in S
  <2>1. \A i \in 0 .. M : i \in S
    BY <1>2, <1>3, UpTo
  <2> QED
    BY <2>1
<1>5. M - M = 0 /\ M \in 0 .. M /\ 0 \in 0 .. M
  OBVIOUS
<1>6. PICK A \in [Procs -> Nat], f \in [[Procs -> Nat] -> Nat] : A = hist[0] /\ f = least[M]
  BY <1>0, <1>5
<1>7. Optimal(0, A, f)
  BY <1>4, <1>5, <1>6 DEF S
<1>8. A = [p \in Procs |-> Length(p)]
  BY <1>0, <1>6
<1>9. TotalTurnaround = f[A]
  BY <1>7, <1>8, OptimalStart
<1> QED
  BY <1>1, <1>6, <1>8, <1>9
\* What was served stays served, when no job changes and those that have ended stay ended.
LEMMA ServedStays ==
  ASSUME NEW jobs, NEW jobs1, \A p \in Procs : SameJob(jobs[p], jobs1[p]),
         NEW end, NEW end1, \A p \in Procs : end[p] # -1 => end1[p] = end[p],
         NEW t \in Nat, NEW A, NEW B, ShortestServed(jobs, end, t, A, B)
  PROVE  ShortestServed(jobs1, end1, t, A, B)
<1>1. \A p \in Procs : /\ Waits(jobs1, p, t, A) <=> Waits(jobs, p, t, A)
                       /\ jobs1[p].burst_time = jobs[p].burst_time
  BY DEF Waits, SameJob
<1>2. ASSUME NEW r \in Procs, end[r] = t + 1 - (IF jobs[r].burst_time = 0 THEN 1 ELSE 0)
      PROVE  end1[r] = t + 1 - (IF jobs1[r].burst_time = 0 THEN 1 ELSE 0)
  <2>1. end[r] # -1
    BY <1>2
  <2> QED
    BY <1>1, <1>2, <2>1
<1> QED
  BY <1>1, <1>2 DEF ShortestServed

LEMMA ShortestStays ==
  ASSUME NEW jobs, NEW jobs1, \A p \in Procs : SameJob(jobs[p], jobs1[p]),
         NEW end, NEW end1, \A p \in Procs : end[p] # -1 => end1[p] = end[p],
         NEW now \in Nat, NEW hist, NEW left, ShortestSoFar(jobs, end, now, hist, left)
  PROVE  ShortestSoFar(jobs1, end1, now, hist, left)
<1>1. ASSUME NEW t \in 0 .. now - 1 PROVE ShortestServed(jobs1, end1, t, hist[t], hist[t + 1])
  <2>1. PICK A, B : A = hist[t] /\ B = hist[t + 1]
    OBVIOUS
  <2>2. ShortestServed(jobs, end, t, A, B) /\ t \in Nat
    BY <2>1 DEF ShortestSoFar
  <2>3. ShortestServed(jobs1, end1, t, A, B)
    BY <2>2, ServedStays
  <2> QED
    BY <2>1, <2>3
<1>2. [p \in Procs |-> IF jobs[p].burst_time = 0 THEN 1 ELSE jobs[p].burst_time]
        = [p \in Procs |-> IF jobs1[p].burst_time = 0 THEN 1 ELSE jobs1[p].burst_time]
  BY DEF SameJob
<1> QED
  BY <1>1, <1>2 DEF ShortestSoFar

\* One time unit more.
LEMMA ShortestGoesOn ==
  ASSUME NEW jobs, NEW end, NEW now \in Nat, NEW hist, NEW left, NEW next \in [Procs -> Nat],
         ShortestSoFar(jobs, end, now, hist, left), ShortestServed(jobs, end, now, left, next)
  PROVE  \E hist1 : ShortestSoFar(jobs, end, now + 1, hist1, next)
<1> DEFINE hist1 == [t \in 0 .. now + 1 |-> IF t = now + 1 THEN next ELSE hist[t]]
<1>1. /\ hist1[now + 1] = next /\ \A t \in 0 .. now : hist1[t] = hist[t]
      /\ hist1 \in [0 .. now + 1 -> [Procs -> Nat]]
  BY DEF ShortestSoFar
<1> HIDE DEF hist1
<1>2. ASSUME NEW t \in 0 .. (now + 1) - 1
      PROVE  ShortestServed(jobs, end, t, hist1[t], hist1[t + 1])
  <2>1. CASE t = now
    <3>1. hist1[t] = left /\ hist1[t + 1] = next
      BY <1>1, <2>1 DEF ShortestSoFar
    <3> QED
      BY <2>1, <3>1
  <2>2. CASE t # now
    <3>1. t \in 0 .. now - 1 /\ hist1[t] = hist[t] /\ hist1[t + 1] = hist[t + 1]
      BY <1>1, <2>2
    <3> QED
      BY <3>1 DEF ShortestSoFar
  <2> QED
    BY <2>1, <2>2
<1>3. hist1[0] = hist[0]
  BY <1>1
<1>4. ShortestSoFar(jobs, end, now + 1, hist1, next)
  BY <1>1, <1>2, <1>3 DEF ShortestSoFar
<1> QED
  BY <1>4
-----------------------------------------------------------------------------
(***************************************************************************)
(* The run up to now is such a schedule, whenever the policy puts a        *)
(* shortest process on the CPU: STCF always, SJF when all arrive together. *)
(***************************************************************************)
ShortestFirst ==
  \/ policy = "STCF"
  \/ policy = "SJF" /\ \A p, q \in Procs : procs[p].arrival_time = procs[q].arrival_time

\* The CPU time process p still needs, with the unit that stage 4b charges.
LeftOf(p) ==
  IF FinishOf(p) # -1 THEN 0
  ELSE IF procs[p].burst_time = 0 THEN 1
  ELSE procs[p].remaining_time

CPULeft  == [p \in Procs |-> LeftOf(p)]
Finishes == [p \in Procs |-> FinishOf(p)]

LeastSoFar ==
  ShortestFirst => \E hist : ShortestSoFar(procs, Finishes, current_time, hist, CPULeft)

LEMMA LeftTypes ==
  ASSUME EngineInv, NEW p \in Procs
  PROVE  /\ procs[p].arrival_time \in Nat /\ procs[p].burst_time \in Nat
         /\ procs[p].remaining_time \in Nat /\ current_time \in Nat
         /\ LeftOf(p) \in Nat
         /\ LeftOf(p) > 0 <=> FinishOf(p) = -1
         /\ FinishOf(p) \in Nat \cup {-1}
<1>1. /\ procs[p].arrival_time \in Nat /\ procs[p].burst_time \in Nat
      /\ procs[p].remaining_time \in Nat /\ procs[p].finish_time \in Nat /\ current_time \in Nat
  BY ProcessFields DEF EngineInv, TypeOK
<1>2. FinishOf(p) \in Nat \cup {-1}
  BY <1>1 DEF FinishOf
<1>3. FinishOf(p) = -1 /\ procs[p].burst_time > 0 => procs[p].remaining_time > 0
  BY <1>1 DEF FinishOf, Exhausted
<1> QED
  BY <1>1, <1>2, <1>3 DEF LeftOf

\* Nobody waits longer than the one that has the CPU.
LEMMA WaitersAreReady ==
  ASSUME EngineInv, pc = "execute", NEW p \in Procs, Waits(procs, p, current_time, CPULeft)
  PROVE  procs[p].state \in {"READY", "RUNNING"} /\ LeftOf(p) > 0
<1>1. LeftOf(p) > 0 /\ procs[p].arrival_time <= current_time
  BY DEF Waits, CPULeft
<1>2. FinishOf(p) = -1 /\ procs[p].arrival_time \in Nat /\ current_time \in Nat
  BY <1>1, LeftTypes
<1>3. procs[p].finish_time \in Nat /\ procs[p].state \in ProcessState
  BY ProcessFields DEF EngineInv, TypeOK, Process
<1>4. procs[p].state # "FINISHED"
  BY <1>2, <1>3 DEF FinishOf, Finished
<1>5. procs[p].state # "NOT_ARRIVED"
  BY <1>1, <1>2 DEF EngineInv, NoLateArrival
<1> QED
  BY <1>1, <1>3, <1>4, <1>5 DEF ProcessState
-----------------------------------------------------------------------------
(***************************************************************************)
(* SJF, when all processes arrive together: whoever has the CPU was chosen *)
(* among all of them, and those that wait have not been served yet.        *)
(***************************************************************************)
ShortestJobKept ==
  policy = "SJF" /\ ShortestFirst /\ running_process # NULL =>
    \A p \in Procs :
      /\ procs[p].state # "NOT_ARRIVED"
      /\ procs[p].state = "READY" =>
           procs[running_process].remaining_time <= procs[p].remaining_time

LEMMA ReadyIsUnserved ==
  ASSUME History, NeverPreempted, policy = "SJF", NEW p \in Procs, procs[p].state = "READY"
  PROVE  procs[p].remaining_time = procs[p].burst_time
<1>1. procs[p].start_time = -1
  BY DEF NeverPreempted
<1>2. Ticks(p) = {}
  BY <1>1 DEF History, MetricsKept, StartOf
<1>3. Cardinality(Ticks(p)) = procs[p].burst_time - procs[p].remaining_time
  BY DEF History, LogAccountsForCPU
<1>4. procs[p].burst_time \in Nat /\ procs[p].remaining_time \in Nat
  BY LeftTypes DEF History
<1> QED
  BY <1>2, <1>3, <1>4, FS_EmptySet

LEMMA SJFDispatches ==
  ASSUME History, NeverPreempted, policy = "SJF", ShortestFirst, running_process = NULL,
         pc = "dispatch", NEW next \in Procs, next = Scan, NEW p \in Procs
  PROVE  /\ procs[p].state # "NOT_ARRIVED"
         /\ procs[p].state = "READY" => procs[next].remaining_time <= procs[p].remaining_time
<1>1. EngineInv /\ Readied = procs
  BY DEF History, Readied
<1>2. Chosen(next, NumProcs)
  BY <1>1, ScanChooses
<1>3. /\ procs[next].state = "READY"
      /\ procs[p].state = "READY" => Key(procs[next]) <= Key(procs[p])
  BY <1>1, <1>2, NumProcsAssumption DEF Chosen
<1>4. procs[p].state = "READY" => procs[next].remaining_time <= procs[p].remaining_time
  <2>1. Key(procs[next]) = procs[next].burst_time /\ Key(procs[p]) = procs[p].burst_time
    BY DEF Key
  <2> QED
    BY <1>3, <2>1, ReadyIsUnserved
<1>5. procs[p].state # "NOT_ARRIVED"
  <2>1. procs[next].arrival_time <= current_time
    BY <1>1, <1>3 DEF EngineInv, WorkAccounted
  <2>2. procs[p].arrival_time = procs[next].arrival_time
    BY DEF ShortestFirst
  <2>3. procs[p].arrival_time \in Nat /\ current_time \in Nat
    BY <1>1, LeftTypes
  <2> QED
    BY <1>1, <2>1, <2>2, <2>3 DEF EngineInv, NoLateArrival
<1> QED
  BY <1>4, <1>5

LEMMA SameOrder ==
  ASSUME EngineInv, [ScanNext]_<< vars, policy >>
  PROVE  /\ \A p \in Procs : SameJob(procs[p], procs'[p])
         /\ ShortestFirst' <=> ShortestFirst
<1>1. policy' = policy /\ [Next]_vars
  BY ScanStepCases
<1>2. \A p \in Procs : SameJob(procs[p], procs'[p])
  BY <1>1, JobsStay
<1>3. \A p \in Procs : procs'[p].arrival_time = procs[p].arrival_time
  BY <1>2 DEF SameJob
<1> QED
  BY <1>1, <1>2, <1>3 DEF ShortestFirst

LEMMA ShortestJobStep ==
  History /\ NeverPreempted /\ ShortestJobKept /\ [ScanNext]_<< vars, policy >> => ShortestJobKept'
<1> SUFFICES ASSUME History, NeverPreempted, ShortestJobKept, [ScanNext]_<< vars, policy >>,
                    policy = "SJF", ShortestFirst, running_process' # NULL, NEW p \in Procs
             PROVE  /\ procs'[p].state # "NOT_ARRIVED"
                    /\ procs'[p].state = "READY" =>
                         procs'[running_process'].remaining_time <= procs'[p].remaining_time
  BY ScanStepCases, SameOrder DEF ShortestJobKept, History
<1>0. /\ EngineInv /\ ~preempt_requested /\ procs \in [Procs -> Process]
      /\ \A q \in Procs : procs[q].state = "RUNNING" <=> q = running_process
      /\ \A q \in Procs : procs[q].remaining_time \in Nat
  BY ProcessFields DEF History, NeverPreempted, EngineInv, TypeOK, OneRunning
<1>1. CASE handle_completions \/ finish_instantly
  <2>1. UNCHANGED << procs, running_process >>
    BY <1>0, <1>1, CompletionEffect, FinishInstantlyEffect DEF FinishNow
  <2> QED
    BY <2>1 DEF ShortestJobKept
<1>2. CASE execute
  <2>1. PICK r \in Procs : r = running_process /\ r = running_process'
    BY <1>0, <1>2, ExecuteEffect
  <2>2. /\ procs[r].state = "RUNNING" /\ procs[r].remaining_time # 0
        /\ procs' = [procs EXCEPT ![r].remaining_time = procs[r].remaining_time - 1]
    BY <1>0, <1>2, <2>1, ExecuteEffect
  <2>3. /\ \A q \in Procs : procs'[q].state = procs[q].state
        /\ procs'[r].remaining_time = procs[r].remaining_time - 1
        /\ \A q \in Procs \ {r} : procs'[q] = procs[q]
    BY <1>0, <2>2 DEF Process
  <2>4. /\ procs[p].state # "NOT_ARRIVED"
        /\ procs[p].state = "READY" => procs[r].remaining_time <= procs[p].remaining_time /\ p # r
    BY <1>0, <2>1, <2>2 DEF ShortestJobKept
  <2>5. procs[r].remaining_time \in Nat /\ procs[p].remaining_time \in Nat
    BY <1>0
  <2>6. procs'[p].state = "READY" => procs'[p].remaining_time = procs[p].remaining_time
    BY <2>3, <2>4
  <2> QED
    BY <2>1, <2>3, <2>4, <2>5, <2>6
<1>3. CASE idle \/ Silent
  <2>1. UNCHANGED << procs, running_process >>
    BY <1>0, <1>3, IdleEffect, SilentEffect
  <2> QED
    BY <2>1 DEF ShortestJobKept
<1>4. CASE arrive(FALSE)
  <2>1. running_process # NULL /\ procs[next_arrival_idx + 1].state = "NOT_ARRIVED"
        /\ next_arrival_idx + 1 \in Procs
    BY <1>0, <1>4, ArrivalEffect
  <2> QED
    BY <2>1 DEF ShortestJobKept
<1>5. CASE handle_dispatch(Scan)
  <2>1. PICK next \in Procs \cup {NULL} : next = Scan /\ MayReturn(next) /\ handle_dispatch(next)
    BY <1>0, <1>5, ScanIsCandidate
  <2>2. /\ \A q \in Procs : procs'[q].remaining_time = procs[q].remaining_time
        /\ procs'[p].state = IF p = next THEN "RUNNING"
                             ELSE IF p = running_process THEN "READY"
                             ELSE procs[p].state
        /\ running_process' = next /\ pc = "dispatch"
    BY <1>0, <2>1, DispatchEffect DEF SameRecord, Started
  <2>3. running_process = NULL /\ next \in Procs
    BY <1>0, <2>1, <2>2 DEF handle_dispatch, DispatchDue
  <2>4. /\ procs[p].state # "NOT_ARRIVED"
        /\ procs[p].state = "READY" => procs[next].remaining_time <= procs[p].remaining_time
    BY <2>1, <2>2, <2>3, SJFDispatches
  <2> QED
    BY <2>2, <2>3, <2>4
<1> QED
  BY <1>0, <1>1, <1>2, <1>3, <1>4, <1>5, ScanStepCases DEF ScanStep

\* The process that is executed is a shortest of those that wait.
LEMMA ShortestIsExecuted ==
  ASSUME EngineInv, ShortestKept, ShortestJobKept, ShortestFirst, pc = "execute",
         NEW r \in Procs, r = running_process, FinishOf(r) = -1,
         NEW p \in Procs, Waits(procs, p, current_time, CPULeft)
  PROVE  LeftOf(r) <= LeftOf(p)
<1>1. procs[p].state \in {"READY", "RUNNING"} /\ LeftOf(p) > 0
  BY WaitersAreReady
<1>2. /\ LeftOf(p) \in Nat /\ LeftOf(r) \in Nat
      /\ procs[p].remaining_time \in Nat /\ procs[r].remaining_time \in Nat
      /\ procs[p].burst_time \in Nat /\ procs[r].burst_time \in Nat
      /\ FinishOf(p) = -1
  BY <1>1, LeftTypes
<1>3. CASE p = r
  BY <1>2, <1>3
<1>4. CASE p # r /\ procs[r].burst_time = 0
  <2>1. LeftOf(r) = 1
    BY <1>4 DEF LeftOf
  <2> QED
    BY <1>1, <1>2, <2>1
<1>5. CASE p # r /\ procs[r].burst_time # 0
  <2>1. procs[p].state = "READY"
    BY <1>1, <1>5 DEF EngineInv, OneRunning
  <2>2. procs[r].remaining_time <= procs[p].remaining_time
    BY <2>1 DEF ShortestKept, ShortestJobKept, ShortestFirst
  <2>3. LeftOf(r) = procs[r].remaining_time /\ LeftOf(r) > 0
    BY <1>5, LeftTypes DEF LeftOf
  <2>4. procs[p].remaining_time <= procs[p].burst_time
    BY DEF EngineInv, WorkAccounted
  <2>5. procs[p].burst_time # 0
    BY <1>2, <2>2, <2>3, <2>4
  <2>6. LeftOf(p) = procs[p].remaining_time
    BY <1>2, <2>5 DEF LeftOf
  <2> QED
    BY <2>2, <2>3, <2>6
<1> QED
  BY <1>3, <1>4, <1>5
-----------------------------------------------------------------------------
(***************************************************************************)
(* The steps of the engine, as time units.                                 *)
(***************************************************************************)
\* The process on the CPU gets one unit, and ends with it if it needs no other.
LEMMA UnitServed ==
  ASSUME EngineInv, EngineInv', execute \/ finish_instantly
  PROVE  \E r \in Procs :
           /\ r = running_process /\ pc = "execute"
           /\ FinishOf(r) = -1 /\ procs[r].arrival_time <= current_time
           /\ current_time' = current_time + 1
           /\ LeftOf(r)' = LeftOf(r) - 1
           /\ LeftOf(r) = 1 =>
                FinishOf(r)' = current_time + 1 - (IF procs[r].burst_time = 0 THEN 1 ELSE 0)
           /\ \A p \in Procs \ {r} : LeftOf(p)' = LeftOf(p) /\ FinishOf(p)' = FinishOf(p)
<1>0. pc = "execute"
  BY DEF execute, finish_instantly
<1>1. CASE execute
  <2>1. PICK r \in Procs : r = running_process /\ Schedule!Serve(r)
    BY <1>1, ExecuteServes
  <2>2. /\ procs[r].arrival_time <= current_time /\ FinishOf(r) = -1
        /\ procs[r].burst_time - procs[r].remaining_time < procs[r].burst_time
        /\ current_time' = current_time + 1
    BY <2>1 DEF Schedule!Serve, Schedule!Waiting
  <2>3. \A p \in Procs : /\ procs'[p].burst_time = procs[p].burst_time
                         /\ procs'[p].burst_time - procs'[p].remaining_time =
                              IF p = r THEN procs[p].burst_time - procs[p].remaining_time + 1
                              ELSE procs[p].burst_time - procs[p].remaining_time
                         /\ FinishOf(p)' =
                              IF /\ p = r
                                 /\ procs[r].burst_time - procs[r].remaining_time + 1 = procs[r].burst_time
                                THEN current_time + 1 ELSE FinishOf(p)
    BY <2>1 DEF Schedule!Serve
  <2>4. \A p \in Procs : /\ procs[p].burst_time \in Nat /\ procs[p].remaining_time \in Nat
                         /\ procs'[p].burst_time \in Nat /\ procs'[p].remaining_time \in Nat
                         /\ current_time \in Nat
    BY LeftTypes, ProcessFields DEF EngineInv, TypeOK
  <2>5. procs[r].burst_time # 0 /\ LeftOf(r) = procs[r].remaining_time
    <3>1. procs[r].remaining_time <= procs[r].burst_time
      BY DEF EngineInv, WorkAccounted
    <3>2. procs[r].burst_time # 0
      BY <2>2, <2>4, <3>1
    <3> QED
      BY <2>2, <3>2 DEF LeftOf
  <2>6. \A p \in Procs : procs'[p].remaining_time = IF p = r THEN procs[p].remaining_time - 1
                                                    ELSE procs[p].remaining_time
    BY <2>3, <2>4
  <2>7. ASSUME NEW p \in Procs, p # r PROVE LeftOf(p)' = LeftOf(p) /\ FinishOf(p)' = FinishOf(p)
    <3>1. FinishOf(p)' = FinishOf(p)
      BY <2>3, <2>7
    <3> QED
      BY <2>3, <2>6, <2>7, <3>1 DEF LeftOf
  <2>8. CASE procs[r].remaining_time = 1
    <3>1. FinishOf(r)' = current_time + 1
      BY <2>3, <2>4, <2>8
    <3>2. LeftOf(r)' = 0
      BY <2>4, <3>1 DEF LeftOf
    <3> QED
      BY <1>0, <2>1, <2>2, <2>4, <2>5, <2>7, <2>8, <3>1, <3>2
  <2>9. CASE procs[r].remaining_time # 1
    <3>1. FinishOf(r)' = -1
      BY <2>2, <2>3, <2>4, <2>9
    <3>2. LeftOf(r)' = procs[r].remaining_time - 1
      BY <2>3, <2>5, <2>6, <3>1 DEF LeftOf
    <3> QED
      BY <1>0, <2>1, <2>2, <2>5, <2>7, <2>9, <3>2
  <2> QED
    BY <2>8, <2>9
<1>2. CASE finish_instantly
  <2>1. PICK r \in Procs : r = running_process /\ Schedule!Pass(r)
    BY <1>2, FinishInstantlyPasses
  <2>2. /\ procs[r].arrival_time <= current_time /\ FinishOf(r) = -1 /\ procs[r].burst_time = 0
        /\ current_time' = current_time + 1
    BY <2>1 DEF Schedule!Pass, Schedule!Waiting
  <2>3. \A p \in Procs : /\ procs'[p].burst_time = procs[p].burst_time
                         /\ procs'[p].burst_time - procs'[p].remaining_time =
                              procs[p].burst_time - procs[p].remaining_time
                         /\ FinishOf(p)' = IF p = r THEN current_time ELSE FinishOf(p)
    BY <2>1 DEF Schedule!Pass
  <2>4. \A p \in Procs : /\ procs[p].burst_time \in Nat /\ procs[p].remaining_time \in Nat
                         /\ procs'[p].burst_time \in Nat /\ procs'[p].remaining_time \in Nat
                         /\ current_time \in Nat
    BY LeftTypes, ProcessFields DEF EngineInv, TypeOK
  <2>5. \A p \in Procs : procs'[p].remaining_time = procs[p].remaining_time
    BY <2>3, <2>4
  <2>6. LeftOf(r) = 1 /\ FinishOf(r)' = current_time /\ LeftOf(r)' = 0
    BY <2>2, <2>3, <2>4 DEF LeftOf
  <2>7. ASSUME NEW p \in Procs, p # r PROVE LeftOf(p)' = LeftOf(p) /\ FinishOf(p)' = FinishOf(p)
    <3>1. FinishOf(p)' = FinishOf(p)
      BY <2>3, <2>7
    <3> QED
      BY <2>3, <2>5, <3>1 DEF LeftOf
  <2> QED
    BY <1>0, <2>1, <2>2, <2>4, <2>6, <2>7
<1> QED
  BY <1>1, <1>2

\* Nothing of this changes in the other steps, except for the time when the CPU is idle.
LEMMA UnitNotServed ==
  ASSUME EngineInv, EngineInv', [Next]_vars, ~execute, ~finish_instantly
  PROVE  /\ \A p \in Procs : LeftOf(p)' = LeftOf(p) /\ FinishOf(p)' = FinishOf(p)
         /\ \/ current_time' = current_time
            \/ current_time' = current_time + 1 /\ \A p \in Procs : ~Waits(procs, p, current_time, CPULeft)
<1>0. \A p \in Procs : /\ procs[p].burst_time \in Nat /\ procs[p].remaining_time \in Nat
                       /\ procs'[p].burst_time \in Nat /\ procs'[p].remaining_time \in Nat
  BY LeftTypes, ProcessFields DEF EngineInv, TypeOK
<1>1. ASSUME \A p \in Procs : /\ FinishOf(p)' = FinishOf(p)
                              /\ procs'[p].burst_time = procs[p].burst_time
                              /\ procs'[p].burst_time - procs'[p].remaining_time =
                                   procs[p].burst_time - procs[p].remaining_time
      PROVE  \A p \in Procs : LeftOf(p)' = LeftOf(p) /\ FinishOf(p)' = FinishOf(p)
  <2>1. \A p \in Procs : procs'[p].remaining_time = procs[p].remaining_time
    BY <1>0, <1>1
  <2> QED
    BY <1>1, <2>1 DEF LeftOf
<1>2. CASE idle
  <2>1. Schedule!Idle
    BY <1>2, IdleIdles
  <2>2. /\ current_time' = current_time + 1
        /\ \A p \in Procs : /\ FinishOf(p)' = FinishOf(p)
                            /\ procs'[p].burst_time = procs[p].burst_time
                            /\ procs'[p].burst_time - procs'[p].remaining_time =
                                 procs[p].burst_time - procs[p].remaining_time
    BY <2>1 DEF Schedule!Idle
  <2>3. \A p \in Procs : ~(procs[p].arrival_time <= current_time /\ FinishOf(p) = -1)
    BY <2>1 DEF Schedule!Idle, Schedule!Waiting
  <2>4. ASSUME NEW p \in Procs PROVE ~Waits(procs, p, current_time, CPULeft)
    BY <2>3, LeftTypes DEF Waits, CPULeft
  <2> QED
    BY <1>1, <2>2, <2>4
<1>3. CASE UNCHANGED Schedule!vars
  <2>1. /\ current_time' = current_time
        /\ \A p \in Procs : /\ FinishOf(p)' = FinishOf(p)
                            /\ procs'[p].burst_time = procs[p].burst_time
                            /\ procs'[p].burst_time - procs'[p].remaining_time =
                                 procs[p].burst_time - procs[p].remaining_time
    BY <1>3 DEF Schedule!vars
  <2> QED
    BY <1>1, <2>1
<1>4. idle \/ UNCHANGED Schedule!vars
  <2>1. CASE Silent
    <3>1. UNCHANGED << procs, current_time >>
      BY <2>1, SilentEffect
    <3> QED
      BY <3>1, OtherStutters
  <2> QED
    BY <2>1, StepCases, CompletionStutters, ArrivalStutters, DispatchStutters
<1> QED
  BY <1>2, <1>3, <1>4

LEMMA LeastSoFarInit == ScanInit => LeastSoFar
<1> SUFFICES ASSUME ScanInit
             PROVE  \E hist : ShortestSoFar(procs, Finishes, current_time, hist, CPULeft)
  BY DEF LeastSoFar
<1> DEFINE hist == [t \in 0 .. 0 |-> CPULeft]
<1>1. EngineInv /\ current_time = 0
  BY EngineInit DEF ScanInit, Init
<1>2. \A p \in Procs : /\ procs[p].remaining_time = procs[p].burst_time
                       /\ procs[p].state = "NOT_ARRIVED"
  BY ParsedProcess DEF ScanInit, Init, Workloads
<1>3. ASSUME NEW p \in Procs
      PROVE  LeftOf(p) = IF procs[p].burst_time = 0 THEN 1 ELSE procs[p].burst_time
  <2>1. FinishOf(p) = -1
    BY <1>2 DEF FinishOf, Exhausted, Finished
  <2> QED
    BY <1>2, <2>1 DEF LeftOf
<1>4. CPULeft = [p \in Procs |-> IF procs[p].burst_time = 0 THEN 1 ELSE procs[p].burst_time]
  BY <1>3 DEF CPULeft
<1>5. CPULeft \in [Procs -> Nat]
  BY <1>1, LeftTypes DEF CPULeft
<1>6. hist[0] = CPULeft /\ hist \in [0 .. 0 -> [Procs -> Nat]]
  BY <1>5
<1> HIDE DEF hist
<1>7. ShortestSoFar(procs, Finishes, 0, hist, CPULeft)
  BY <1>4, <1>6 DEF ShortestSoFar
<1> QED
  BY <1>1, <1>7

LEMMA LeastSoFarStep ==
  EngineInv /\ EngineInv' /\ ShortestKept /\ ShortestJobKept /\ LeastSoFar
    /\ [ScanNext]_<< vars, policy >> => LeastSoFar'
<1> SUFFICES ASSUME EngineInv, EngineInv', ShortestKept, ShortestJobKept, LeastSoFar,
                    [ScanNext]_<< vars, policy >>, ShortestFirst
             PROVE  \E hist : ShortestSoFar(procs', Finishes', current_time', hist, CPULeft')
  BY SameOrder DEF LeastSoFar
<1>0. /\ [Next]_vars /\ current_time \in Nat
      /\ \A p \in Procs : SameJob(procs[p], procs'[p])
  BY ScanStepCases, SameOrder DEF EngineInv, TypeOK
<1>1. PICK jobs, jobs1, end, end1, now, now1, left, left1 :
           /\ jobs = procs /\ jobs1 = procs' /\ end = Finishes /\ end1 = Finishes'
           /\ now = current_time /\ now1 = current_time' /\ left = CPULeft /\ left1 = CPULeft'
  OBVIOUS
<1>2. PICK hist : ShortestSoFar(jobs, end, now, hist, left)
  BY <1>1 DEF LeastSoFar
<1>3. now \in Nat /\ \A p \in Procs : SameJob(jobs[p], jobs1[p])
  BY <1>0, <1>1
<1>4. /\ \A p \in Procs : end[p] = FinishOf(p) /\ end1[p] = FinishOf(p)'
      /\ \A p \in Procs : left[p] = LeftOf(p) /\ left1[p] = LeftOf(p)'
      /\ left = [p \in Procs |-> left[p]] /\ left1 = [p \in Procs |-> left1[p]]
  BY <1>1 DEF Finishes, CPULeft
<1>5. left \in [Procs -> Nat] /\ left1 \in [Procs -> Nat]
  <2>1. \A p \in Procs : LeftOf(p) \in Nat
    BY LeftTypes
  <2>2. ASSUME NEW p \in Procs PROVE LeftOf(p)' \in Nat
    <3>1. procs'[p].remaining_time \in Nat
      BY ProcessFields DEF EngineInv, TypeOK
    <3> QED
      BY <3>1 DEF LeftOf
  <2> QED
    BY <1>4, <2>1, <2>2
<1>6. CASE execute \/ finish_instantly
  <2>1. PICK r \in Procs :
           /\ r = running_process /\ pc = "execute"
           /\ FinishOf(r) = -1 /\ procs[r].arrival_time <= current_time
           /\ current_time' = current_time + 1
           /\ LeftOf(r)' = LeftOf(r) - 1
           /\ LeftOf(r) = 1 =>
                FinishOf(r)' = current_time + 1 - (IF procs[r].burst_time = 0 THEN 1 ELSE 0)
           /\ \A p \in Procs \ {r} : LeftOf(p)' = LeftOf(p) /\ FinishOf(p)' = FinishOf(p)
    BY <1>6, UnitServed
  <2>2. now1 = now + 1
    BY <1>1, <2>1
  <2>3. \A p \in Procs : end[p] # -1 => end1[p] = end[p]
    BY <1>4, <2>1
  <2>4. left1 = Serve(left, r)
    <3>1. Serve(left, r) = [p \in Procs |-> IF p = r THEN left[p] - 1 ELSE left[p]]
      BY <1>5 DEF Serve
    <3>2. ASSUME NEW p \in Procs PROVE left1[p] = IF p = r THEN left[p] - 1 ELSE left[p]
      BY <1>4, <2>1
    <3>3. left1 = [p \in Procs |-> IF p = r THEN left[p] - 1 ELSE left[p]]
      BY <1>4, <3>2
    <3> QED
      BY <3>1, <3>3
  <2>5. Waits(jobs1, r, now, left)
    <3>1. LeftOf(r) > 0
      BY <2>1, LeftTypes
    <3> QED
      BY <1>1, <1>3, <1>4, <2>1, <3>1 DEF Waits, SameJob
  <2>6. ASSUME NEW p \in Procs, Waits(jobs1, p, now, left) PROVE left[r] <= left[p]
    <3>1. Waits(procs, p, current_time, CPULeft)
      BY <1>1, <1>3, <2>6 DEF Waits, SameJob
    <3>2. LeftOf(r) <= LeftOf(p)
      BY <2>1, <3>1, ShortestIsExecuted
    <3> QED
      BY <1>4, <3>2
  <2>7. left[r] = 1 => end1[r] = now + 1 - (IF jobs1[r].burst_time = 0 THEN 1 ELSE 0)
    BY <1>1, <1>3, <1>4, <2>1 DEF SameJob
  <2>8. ShortestServed(jobs1, end1, now, left, left1)
    BY <2>4, <2>5, <2>6, <2>7 DEF ShortestServed
  <2>9. ShortestSoFar(jobs1, end1, now, hist, left)
    BY <1>2, <1>3, <2>3, ShortestStays
  <2>10. \E hist1 : ShortestSoFar(jobs1, end1, now + 1, hist1, left1)
    BY <1>3, <1>5, <2>8, <2>9, ShortestGoesOn
  <2> QED
    BY <1>1, <2>2, <2>10
<1>7. CASE ~(execute \/ finish_instantly)
  <2>1. /\ \A p \in Procs : LeftOf(p)' = LeftOf(p) /\ FinishOf(p)' = FinishOf(p)
        /\ \/ current_time' = current_time
           \/ current_time' = current_time + 1 /\ \A p \in Procs : ~Waits(procs, p, current_time, CPULeft)
    BY <1>0, <1>7, UnitNotServed
  <2>2. left1 = left /\ \A p \in Procs : end1[p] = end[p]
    BY <1>4, <2>1
  <2>3. ShortestSoFar(jobs1, end1, now, hist, left)
    BY <1>2, <1>3, <2>2, ShortestStays
  <2>4. CASE now1 = now
    BY <1>1, <2>2, <2>3, <2>4
  <2>5. CASE now1 = now + 1 /\ \A p \in Procs : ~Waits(jobs, p, now, left)
    <3>1. \A p \in Procs : ~Waits(jobs1, p, now, left)
      BY <1>3, <2>5 DEF Waits, SameJob
    <3>2. ShortestServed(jobs1, end1, now, left, left)
      BY <3>1 DEF ShortestServed
    <3>3. \E hist1 : ShortestSoFar(jobs1, end1, now + 1, hist1, left)
      BY <1>3, <1>5, <2>3, <3>2, ShortestGoesOn
    <3> QED
      BY <1>1, <2>2, <2>5, <3>3
  <2> QED
    BY <1>1, <2>1, <2>4, <2>5
<1> QED
  BY <1>6, <1>7

LEMMA LeastAtTheEnd ==
  EngineInv /\ MetricsKept /\ WorkKept /\ LeastSoFar => ShortestFirstIsOptimal
<1> SUFFICES ASSUME EngineInv, MetricsKept, WorkKept, LeastSoFar, pc = "done", ShortestFirst
             PROVE  TotalTurnaround = LeastTotal
  BY DEF ShortestFirstIsOptimal, ShortestFirst
<1>1. Finished = Procs /\ current_time = Makespan /\ current_time \in Nat
      /\ procs \in [Procs -> Process]
  BY MakespanReached DEF EngineInv, TypeOK
<1>2. PICK hist : ShortestSoFar(procs, Finishes, current_time, hist, CPULeft)
  BY DEF LeastSoFar
<1>3. PICK end, left : end = Finishes /\ left = CPULeft
  OBVIOUS
<1>4. ASSUME NEW p \in Procs
      PROVE  /\ left[p] = 0
             /\ procs[p].turnaround_time = end[p] - procs[p].arrival_time
  <2>1. p \in Finished /\ procs[p].finish_time \in Nat
    BY <1>1, ProcessFields
  <2>2. FinishOf(p) = procs[p].finish_time /\ LeftOf(p) = 0
    BY <2>1 DEF FinishOf, LeftOf
  <2>3. procs[p].turnaround_time = procs[p].finish_time - procs[p].arrival_time
    BY <2>1 DEF MetricsKept, EndOf
  <2> QED
    BY <1>3, <2>2, <2>3 DEF CPULeft, Finishes
<1>5. /\ \A p \in Procs : left[p] = 0
      /\ \A p \in Procs : procs[p].turnaround_time = end[p] - procs[p].arrival_time
  BY <1>4
<1>6. ShortestSoFar(procs, end, current_time, hist, left)
  BY <1>2, <1>3
<1> QED
  BY <1>1, <1>5, <1>6, ShortestFirstIsLeast

(***************************************************************************)
(* ShortestFirstIsOptimal: no schedule that keeps the CPU busy has a       *)
(* smaller total turnaround than STCF, nor than SJF when all processes     *)
(* arrive together.                                                        *)
(***************************************************************************)
THEOREM ShortestFirstMinimizesTurnaround == ScanSpec => []ShortestFirstIsOptimal
<1>1. ScanInit => Init
  BY DEF ScanInit
<1>2. ScanInit => ShortestKept /\ ShortestJobKept
  BY DEF ScanInit, Init, ShortestKept, ShortestJobKept
<1>3. History => EngineInv /\ LogAccountsForCPU /\ MetricsKept
  BY DEF History
<1> QED
  BY <1>1, <1>2, <1>3, EngineInit, EngineStep, HistoryInit, HistoryStep, WorkInit, WorkStep,
     ScanEngineStep, NeverPreemptedInit, NeverPreemptedStep, ShortestStep, ShortestJobStep,
     LeastSoFarInit, LeastSoFarStep, LeastAtTheEnd, PTL DEF ScanSpec
=============================================================================
