----------------------------- MODULE MLFQProofs -----------------------------
(***************************************************************************)
(* Theorems about MLFQ, for every configuration and workload: it keeps the *)
(* contract of the engine, its queues hold the processes that wait, once   *)
(* each and by priority, and it keeps its rules.                           *)
(***************************************************************************)
EXTENDS MLFQ, EngineProofs

USE DEF Procs, NULL

-----------------------------------------------------------------------------
(***************************************************************************)
(* The configuration.                                                      *)
(***************************************************************************)
LEMMA ConfigFacts ==
  ASSUME config \in Configs
  PROVE  /\ config.num_queues \in Nat \ {0}
         /\ Lowest \in Nat /\ Levels = 0 .. Lowest /\ 0 \in Levels /\ Lowest \in Levels
         /\ \A l \in Levels : config.quantums[l] \in Nat \ {0} /\ config.allotments[l] \in Nat \ {0}
         /\ config.boost_period \in Nat \ {0}
BY ConfigsAssumption DEF Levels, Lowest
-----------------------------------------------------------------------------
(***************************************************************************)
(* The inductive invariant.  QueuesPartitionReady is restated level by     *)
(* level: queue l holds, once each, the processes of priority l among the  *)
(* ones that wait.  It needs that a preemption is asked for only from an   *)
(* arrival to the dispatch of the same time unit, that the queues on_init  *)
(* replaces are empty, and that on_finish empties queues in which nobody   *)
(* waits.                                                                  *)
(***************************************************************************)
Waits == Ready \cup (IF preempt_requested /\ pc = "dispatch" THEN {running_process} ELSE {})

Standing ==
  \A l \in Levels :
    Distinct(queues[l]) /\ Members(queues[l]) = {p \in Waits : priority[p] = l}

RequestOnTheWay ==
  preempt_requested => pc \in {"arrival", "tick", "dispatch"} /\ running_process # NULL

OutsideTheLoop ==
  /\ pc = "init" => \A l \in Levels : queues[l] = << >>
  /\ pc \in {"finish", "done"} => completed = NumProcs

MLFQInductive ==
  /\ EngineInv
  /\ MLFQTypeOK
  /\ RequestOnTheWay
  /\ OutsideTheLoop
  /\ Standing

LEMMA WaitsAreProcesses ==
  ASSUME TypeOK, RequestOnTheWay
  PROVE  Waits \subseteq Procs
BY DEF Waits, Ready, RequestOnTheWay, TypeOK

\* MLFQInv follows.
LEMMA StandingPartitions ==
  ASSUME MLFQInductive
  PROVE  MLFQInv
<1> USE DEF MLFQInductive
<1>1. \A p \in Waits : priority[p] \in Levels
  BY WaitsAreProcesses DEF EngineInv, MLFQTypeOK
<1>2. \A a \in Slots : /\ a[1] \in Levels /\ a[2] \in 1 .. Len(queues[a[1]])
                       /\ a = << a[1], a[2] >>
  BY DEF Slots
<1>3. ASSUME NEW a \in Slots
      PROVE  queues[a[1]][a[2]] \in Waits /\ priority[queues[a[1]][a[2]]] = a[1]
  BY <1>2 DEF Standing, Members
<1>4. ASSUME NEW a \in Slots, NEW b \in Slots, queues[a[1]][a[2]] = queues[b[1]][b[2]]
      PROVE  a = b
  <2>1. a[1] = b[1]
    BY <1>3, <1>4
  <2>2. a[2] = b[2]
    BY <1>2, <1>4, <2>1 DEF Standing, Distinct
  <2> QED
    BY <1>2, <2>1, <2>2
<1>5. UNION {InQueue(l) : l \in Levels} = Waits
  BY <1>1 DEF Standing, Members, InQueue
<1> QED
  BY <1>3, <1>4, <1>5 DEF MLFQInv, QueuesPartitionReady, Waits

\* The same of the next state; `waiting` is what its queues have to hold.
LEMMA StandingNext ==
  ASSUME config' = config, NEW waiting, waiting = Waits',
         \A l \in Levels : /\ Distinct(queues'[l])
                           /\ Members(queues'[l]) = {p \in waiting : priority'[p] = l}
  PROVE  Standing'
BY DEF Standing, Levels

\* Process p, which does not wait, joins queue l and takes its priority.
LEMMA EnqueueStands ==
  ASSUME MLFQTypeOK, Standing, Waits \subseteq Procs, config' = config,
         NEW l \in Levels, NEW p \in Procs, p \notin Waits,
         enqueue(l, p), priority' = [priority EXCEPT ![p] = l], Waits' = Waits \cup {p}
  PROVE  queues' \in [Levels -> Seq(Procs)] /\ Standing'
<1>1. /\ Append(queues[l], p) \in Seq(Procs)
      /\ Distinct(Append(queues[l], p))
      /\ Members(Append(queues[l], p)) = Members(queues[l]) \cup {p}
  <2>1. /\ queues[l] \in Seq(Procs) /\ Distinct(queues[l]) /\ p \notin Members(queues[l])
    BY DEF MLFQTypeOK, Standing
  <2> HIDE DEF Procs
  <2> QED
    BY <2>1, EnqueueMembers
<1>2. queues' = [queues EXCEPT ![l] = Append(queues[l], p)]
  BY DEF enqueue
<1>3. /\ queues' \in [Levels -> Seq(Procs)]
      /\ queues'[l] = Append(queues[l], p)
      /\ \A k \in Levels \ {l} : queues'[k] = queues[k]
  BY <1>1, <1>2 DEF MLFQTypeOK
<1>4. priority'[p] = l /\ \A q \in Procs \ {p} : priority'[q] = priority[q]
  BY DEF MLFQTypeOK
<1>5. ASSUME NEW k \in Levels
      PROVE  /\ Distinct(queues'[k])
             /\ Members(queues'[k]) = {q \in Waits \cup {p} : priority'[q] = k}
  <2>1. Distinct(queues[k]) /\ Members(queues[k]) = {q \in Waits : priority[q] = k}
    BY DEF Standing
  <2>2. CASE k = l
    <3>1. \A q \in Waits : priority'[q] = priority[q]
      BY <1>4
    <3>2. Distinct(queues'[k]) /\ Members(queues'[k]) = Members(queues[k]) \cup {p}
      BY <1>1, <1>3, <2>2
    <3>3. Members(queues[k]) \cup {p} = {q \in Waits \cup {p} : priority'[q] = k}
      BY <1>4, <2>1, <2>2, <3>1
    <3> QED
      BY <3>2, <3>3
  <2>3. CASE k # l
    BY <1>3, <1>4, <2>1, <2>3
  <2> QED
    BY <2>2, <2>3
<1> QED
  BY <1>3, <1>5, StandingNext

\* Nobody joins or leaves a queue.
LEMMA SameQueuesStand ==
  ASSUME Standing, config' = config, queues' = queues, priority' = priority, Waits' = Waits
  PROVE  Standing'
BY DEF Standing, Levels

\* Before the loop and after it every queue is empty and nobody waits.
LEMMA EmptyQueuesStand ==
  ASSUME config' = config, queues' = [l \in Levels |-> << >>], Waits' = {}
  PROVE  queues' \in [Levels -> Seq(Procs)] /\ Standing'
<1>1. << >> \in Seq(Procs) /\ Distinct(<< >>) /\ Members(<< >>) = {}
  BY NoMembers, Zenon
<1>2. queues' \in [Levels -> Seq(Procs)] /\ \A l \in Levels : queues'[l] = << >>
  BY <1>1
<1> QED
  BY <1>1, <1>2 DEF Standing, Levels
-----------------------------------------------------------------------------
(***************************************************************************)
(* The boost: all the queues, one after the other.                         *)
(***************************************************************************)
LEMMA AllQueuesSteps ==
  ASSUME MLFQTypeOK
  PROVE  \E upto : /\ AllQueues = upto[Lowest]
                   /\ upto[0] = queues[0]
                   /\ \A l \in 1 .. Lowest : upto[l] = upto[l - 1] \o queues[l]
<1> DEFINE V == Seq(Procs)
           Joined(l, v) == v \o queues[l]
           step == [l \in 1 .. Lowest |-> [v \in V |-> Joined(l, v)]]
           Loop(f) == [l \in Levels |-> IF l = 0 THEN queues[0] ELSE Joined(l, f[l - 1])]
           upto == CHOOSE f : f = Loop(f)
<1>0. Lowest \in Nat /\ Levels = 0 .. Lowest /\ \A l \in Levels : queues[l] \in V
  BY ConfigFacts DEF MLFQTypeOK
<1>1. queues[0] \in V /\ step \in [1 .. Lowest -> [V -> V]]
  <2> HIDE DEF Procs
  <2>1. \A l \in 1 .. Lowest : \A v \in V : Joined(l, v) \in V
    BY <1>0, ConcatProperties
  <2> HIDE DEF Joined
  <2> QED
    BY <1>0, <2>1
<1>2. PICK f \in [0 .. Lowest -> V] : Follows(f, Lowest, queues[0], step)
  <2> HIDE DEF step, V
  <2> QED
    BY <1>0, <1>1, RecursiveFunction, Zenon
<1>3. AllQueues = upto[Lowest]
  BY DEF AllQueues
<1> HIDE DEF Joined
<1>4. ASSUME NEW l \in 1 .. Lowest
      PROVE  f[l - 1] \in V /\ step[l][f[l - 1]] = Joined(l, f[l - 1])
  <2>1. f[l - 1] \in V
    BY <1>0
  <2> HIDE DEF V
  <2> QED
    BY <2>1
<1>5. f = Loop(f)
  <2> HIDE DEF step, V
  <2> QED
    BY <1>0, <1>2, <1>4 DEF Follows
<1>6. upto = Loop(upto)
  <2> HIDE DEF Loop
  <2> QED
    BY <1>5, Zenon
<1> HIDE DEF upto
<1>7. upto[0] = queues[0] /\ \A l \in 1 .. Lowest : upto[l] = Joined(l, upto[l - 1])
  <2>1. \A g : /\ Loop(g)[0] = queues[0]
               /\ \A l \in 1 .. Lowest : Loop(g)[l] = Joined(l, g[l - 1])
    BY <1>0
  <2> HIDE DEF Loop
  <2> QED
    BY <1>6, <2>1
<1> QED
  BY <1>3, <1>7 DEF Joined

LEMMA AllQueuesHoldWaiting ==
  ASSUME MLFQTypeOK, Standing, Waits \subseteq Procs
  PROVE  AllQueues \in Seq(Procs) /\ Distinct(AllQueues) /\ Members(AllQueues) = Waits
<1>1. PICK upto : /\ AllQueues = upto[Lowest]
                  /\ upto[0] = queues[0]
                  /\ \A l \in 1 .. Lowest : upto[l] = upto[l - 1] \o queues[l]
  BY AllQueuesSteps
<1>2. /\ Lowest \in Nat /\ Levels = 0 .. Lowest
      /\ \A l \in Levels : /\ queues[l] \in Seq(Procs) /\ Distinct(queues[l])
                           /\ Members(queues[l]) = {p \in Waits : priority[p] = l}
  BY ConfigFacts DEF MLFQTypeOK, Standing
<1>3. \A p \in Waits : priority[p] \in Nat /\ priority[p] <= Lowest
  <2>1. priority \in [Procs -> Levels]
    BY DEF MLFQTypeOK
  <2> HIDE DEF Procs
  <2>2. \A p \in Waits : priority[p] \in Levels
    BY <2>1
  <2>3. \A n \in Levels : n \in Nat /\ n <= Lowest
    BY <1>2
  <2> QED
    BY <2>2, <2>3
<1> DEFINE Good(l) == /\ upto[l] \in Seq(Procs) /\ Distinct(upto[l])
                      /\ Members(upto[l]) = {p \in Waits : priority[p] <= l}
           S == {l \in 0 .. Lowest : Good(l)}
<1>4. 0 \in S
  <2>1. \A p \in Waits : priority[p] <= 0 <=> priority[p] = 0
    BY <1>3
  <2>2. upto[0] = queues[0] /\ 0 \in Levels
    BY <1>1, <1>2
  <2>3. Members(upto[0]) = {p \in Waits : priority[p] <= 0}
    BY <1>2, <2>1, <2>2
  <2>4. upto[0] \in Seq(Procs) /\ Distinct(upto[0])
    BY <1>2, <2>2
  <2> QED
    BY <1>2, <2>3, <2>4
<1>5. ASSUME NEW l \in 0 .. Lowest - 1, l \in S PROVE l + 1 \in S
  <2>1. PICK k \in 1 .. Lowest : k = l + 1 /\ k - 1 = l /\ k \in Levels
    BY <1>2
  <2>2. upto[k] = upto[l] \o queues[k] /\ Good(l)
    BY <1>1, <1>5, <2>1
  <2>3. Members(upto[l]) \cap Members(queues[k]) = {}
    BY <1>2, <2>1, <2>2
  <2>4. /\ upto[k] \in Seq(Procs) /\ Distinct(upto[k])
        /\ Members(upto[k]) = Members(upto[l]) \cup Members(queues[k])
    <3> HIDE DEF Procs
    <3> QED
      BY <1>2, <2>1, <2>2, <2>3, JoinMembers
  <2>5. Members(upto[k]) = {p \in Waits : priority[p] <= k}
    <3>1. \A p \in Waits : priority[p] <= k <=> priority[p] <= l \/ priority[p] = k
      BY <1>2, <1>3, <2>1
    <3> QED
      BY <1>2, <2>1, <2>2, <2>4, <3>1
  <2> QED
    BY <1>2, <2>1, <2>4, <2>5
<1>6. Good(Lowest)
  <2> HIDE DEF S
  <2>1. \A l \in 0 .. Lowest : l \in S
    BY <1>2, <1>4, <1>5, UpTo
  <2> QED
    BY <1>2, <2>1 DEF S
<1> QED
  BY <1>1, <1>3, <1>6
-----------------------------------------------------------------------------
(***************************************************************************)
(* The actions.  Each keeps the types, a request that is on its way, and   *)
(* the queues.                                                             *)
(***************************************************************************)
Kept == MLFQTypeOK /\ RequestOnTheWay /\ Standing

LEMMA TypeNext ==
  ASSUME MLFQTypeOK, config' = config, queues' \in [Levels -> Seq(Procs)],
         boost_timer' \in 0 .. config.boost_period, current_quantum' \in Int,
         priority' \in [Procs -> Levels], allotment_used' \in [Procs -> Nat]
  PROVE  MLFQTypeOK'
BY DEF MLFQTypeOK, Levels

LEMMA MechanismKeeps ==
  ASSUME MLFQInductive, Mechanism, UNCHANGED mlfqVars
  PROVE  Kept'
<1> USE DEF MLFQInductive, Kept
<1>1. /\ preempt_requested' = preempt_requested
      /\ \A p \in Procs : procs[p]'.state = "READY" <=> procs[p].state = "READY"
  BY MechanismKeepsReady
<1>2. ~preempt_requested \/ (arrivals_done /\ pc = "arrival" /\ pc' = "tick" /\ UNCHANGED running_process)
  BY DEF Mechanism, handle_completions, arrivals_done, no_tick, keep_running, DispatchDue,
     finish_instantly, execute, idle, returned, RequestOnTheWay
<1>3. Waits' = Waits /\ RequestOnTheWay'
  BY <1>1, <1>2 DEF Waits, Ready, RequestOnTheWay
<1>4. MLFQTypeOK'
  BY DEF MLFQTypeOK, Levels, mlfqVars
<1> QED
  BY <1>3, <1>4, SameQueuesStand DEF mlfqVars

\* on_init: nobody stands in the queues that are replaced.
LEMMA InitKeeps ==
  ASSUME MLFQInductive, mlfq_on_init
  PROVE  Kept'
<1> USE DEF MLFQInductive, Kept
<1>1. /\ pc = "init" /\ procs' = procs /\ preempt_requested' = preempt_requested
      /\ queues' = [l \in Levels |-> << >>] /\ boost_timer' = 0 /\ current_quantum' = 0
      /\ UNCHANGED << config, priority, allotment_used >>
  BY DEF mlfq_on_init, on_init
<1>2. ~preempt_requested
  BY <1>1 DEF RequestOnTheWay
<1>3. Waits = {}
  <2>1. \A l \in Levels : {p \in Waits : priority[p] = l} = {}
    BY <1>1, NoMembers DEF OutsideTheLoop, Standing
  <2>2. \A p \in Waits : priority[p] \in Levels
    BY WaitsAreProcesses DEF EngineInv, MLFQTypeOK
  <2> QED
    BY <2>1, <2>2
<1>4. Waits' = {}
  BY <1>1, <1>2, <1>3 DEF Waits, Ready
<1>5. queues' \in [Levels -> Seq(Procs)] /\ Standing'
  BY <1>1, <1>4, EmptyQueuesStand
<1>6. MLFQTypeOK'
  BY <1>1, <1>5, ConfigFacts, TypeNext DEF MLFQTypeOK
<1> QED
  BY <1>1, <1>2, <1>5, <1>6 DEF RequestOnTheWay

\* on_arrival: the process that has just become READY joins queue 0.
LEMMA ArrivalKeeps ==
  ASSUME MLFQInductive, mlfq_on_arrival
  PROVE  Kept'
<1> USE DEF MLFQInductive, Kept
<1>0. PICK p \in Procs : p = next_arrival_idx + 1
  <2>1. next_arrival_idx < NumProcs
    BY DEF mlfq_on_arrival, arrive, ArrivalDue
  <2> QED
    BY <2>1, NumProcsAssumption DEF EngineInv, TypeOK
<1>1. ArrivalPreempts \in BOOLEAN /\ arrive(ArrivalPreempts)
  BY DEF mlfq_on_arrival, ArrivalPreempts
<1>2. /\ procs[p].state = "NOT_ARRIVED" /\ procs'[p].state = "READY"
      /\ \A q \in Procs \ {p} : procs'[q] = procs[q]
      /\ pc = "arrival" /\ pc' = "arrival" /\ UNCHANGED running_process
  BY <1>0, <1>1, ArrivalEffect
<1>3. RequestOnTheWay'
  BY <1>1, <1>2 DEF RequestOnTheWay, arrive, ArrivalPreempts
<1>4. Waits' = Waits \cup {p} /\ p \notin Waits
  BY <1>2 DEF Waits, Ready
<1>5. /\ priority' = [priority EXCEPT ![p] = 0]
      /\ allotment_used' = [allotment_used EXCEPT ![p] = 0]
      /\ enqueue(0, p)
      /\ UNCHANGED << config, boost_timer, current_quantum >>
  BY <1>0 DEF mlfq_on_arrival
<1>6. config \in Configs /\ Waits \subseteq Procs
  BY WaitsAreProcesses DEF EngineInv, MLFQTypeOK
<1>7. 0 \in Levels
  BY <1>6, ConfigFacts
<1>8. queues' \in [Levels -> Seq(Procs)] /\ Standing'
  BY <1>4, <1>5, <1>6, <1>7, EnqueueStands
<1>9. priority' \in [Procs -> Levels] /\ allotment_used' \in [Procs -> Nat]
  BY <1>5, <1>7 DEF MLFQTypeOK
<1>10. MLFQTypeOK'
  BY <1>5, <1>8, <1>9, TypeNext DEF MLFQTypeOK
<1> QED
  BY <1>3, <1>8, <1>10

\* on_tick: what its four ends have in common; r is the process on the CPU.
LEMMA TickFacts ==
  ASSUME MLFQInductive, NEW request, request \in BOOLEAN, policy_tick(request)
  PROVE  /\ running_process \in Procs /\ running_process \notin Waits
         /\ Waits = Ready /\ Waits \subseteq Procs
         /\ preempt_requested' <=> (preempt_requested \/ request)
         /\ Waits' = Ready \cup (IF preempt_requested' THEN {running_process} ELSE {})
         /\ RequestOnTheWay'
<1> USE DEF MLFQInductive
<1>1. /\ pc = "tick" /\ pc' = "dispatch"
      /\ running_process \in Procs /\ running_process' = running_process /\ procs' = procs
      /\ preempt_requested' = (preempt_requested \/ request)
  BY DEF policy_tick, EngineInv, TypeOK
<1>2. Waits = Ready /\ running_process \notin Ready
  BY <1>1 DEF Waits, Ready, EngineInv, OneRunning
<1>3. Waits \subseteq Procs
  BY WaitsAreProcesses DEF EngineInv
<1>4. running_process # NULL
  BY <1>1
<1> QED
  BY <1>1, <1>2, <1>3, <1>4 DEF Waits, Ready, RequestOnTheWay

\* Rule 5: queue 0 takes everybody who waits, and the process on the CPU.
LEMMA BoostKeeps ==
  ASSUME MLFQInductive, mlfq_boost
  PROVE  /\ Kept'
         /\ \A p \in Ready \cup {running_process} :
              priority'[p] = 0 /\ allotment_used'[p] = 0 /\ p \in InQueue(0)'
<1> USE DEF MLFQInductive, Kept
<1>0. PICK r \in Procs : r = running_process
  BY TickFacts DEF mlfq_boost
<1>1. /\ r \notin Waits /\ Waits = Ready /\ Waits \subseteq Procs /\ preempt_requested'
      /\ Waits' = Ready \cup {r} /\ RequestOnTheWay'
  BY <1>0, TickFacts DEF mlfq_boost
<1>2. /\ queues' = [l \in Levels |-> IF l = 0 THEN Append(AllQueues, r) ELSE << >>]
      /\ priority' = [p \in Procs |-> IF p \in Lifted THEN 0 ELSE priority[p]]
      /\ allotment_used' = [p \in Procs |-> IF p \in Forgiven THEN 0 ELSE allotment_used[p]]
      /\ boost_timer' = 0
      /\ UNCHANGED << config, current_quantum >>
  BY <1>0 DEF mlfq_boost
<1>3. Lowest \in Nat /\ Levels = 0 .. Lowest /\ 0 \in Levels /\ config.boost_period \in Nat
  BY ConfigFacts DEF MLFQTypeOK
<1>4. /\ Append(AllQueues, r) \in Seq(Procs)
      /\ Distinct(Append(AllQueues, r))
      /\ Members(Append(AllQueues, r)) = Waits \cup {r}
  <2>1. AllQueues \in Seq(Procs) /\ Distinct(AllQueues) /\ Members(AllQueues) = Waits
    BY <1>1, AllQueuesHoldWaiting
  <2> HIDE DEF Procs
  <2> QED
    BY <1>1, <2>1, EnqueueMembers
<1>5. \A p \in Waits \cup {r} : priority'[p] = 0 /\ allotment_used'[p] = 0
  <2>1. ASSUME NEW p \in Waits
        PROVE  p \in InQueue(priority[p]) /\ priority[p] \in Levels /\ p \in Procs
    BY <1>1 DEF MLFQTypeOK, Standing, Members, InQueue
  <2>2. r \in Lifted /\ r \in Forgiven
    BY <1>0 DEF Lifted, Forgiven
  <2>3. ASSUME NEW p \in Waits
        PROVE  p \in Forgiven /\ (p \in Lifted \/ priority[p] = 0)
    BY <2>1 DEF Lifted, Forgiven
  <2> QED
    BY <1>1, <1>2, <2>2, <2>3
<1>6. queues'[0] = Append(AllQueues, r) /\ \A l \in Levels \ {0} : queues'[l] = << >>
  BY <1>2, <1>3
<1>7. queues' \in [Levels -> Seq(Procs)]
  BY <1>2, <1>4, NoMembers
<1>8. Standing'
  <2>1. ASSUME NEW l \in Levels
        PROVE  /\ Distinct(queues'[l])
               /\ Members(queues'[l]) = {p \in Waits \cup {r} : priority'[p] = l}
    <3>1. CASE l = 0
      BY <1>4, <1>5, <1>6, <3>1
    <3>2. CASE l # 0
      BY <1>5, <1>6, <3>2, NoMembers
    <3> QED
      BY <3>1, <3>2
  <2> QED
    BY <1>1, <1>2, <2>1, StandingNext
<1>9. priority' \in [Procs -> Levels] /\ allotment_used' \in [Procs -> Nat]
  BY <1>2, <1>3 DEF MLFQTypeOK
<1>10. MLFQTypeOK'
  <2>1. boost_timer' \in 0 .. config.boost_period /\ current_quantum' \in Int
    BY <1>2, <1>3 DEF MLFQTypeOK
  <2> QED
    BY <1>2, <1>7, <1>9, <2>1, TypeNext
<1>11. InQueue(0)' = Members(Append(AllQueues, r))
  BY <1>6 DEF InQueue, Members
<1> QED
  BY <1>0, <1>1, <1>4, <1>5, <1>8, <1>10, <1>11

\* Rule 4: the process on the CPU joins the queue of its new level.
LEMMA DemoteKeeps ==
  ASSUME MLFQInductive, mlfq_demote
  PROVE  Kept'
<1> USE DEF MLFQInductive, Kept
<1>0. PICK r \in Procs : r = running_process
  BY TickFacts DEF mlfq_demote
<1>1. /\ r \notin Waits /\ Waits \subseteq Procs /\ Waits' = Waits \cup {r} /\ RequestOnTheWay'
  BY <1>0, TickFacts DEF mlfq_demote
<1>2. PICK level : /\ level = IF priority[r] < Lowest THEN priority[r] + 1 ELSE priority[r]
                   /\ priority' = [priority EXCEPT ![r] = level]
                   /\ allotment_used' = [allotment_used EXCEPT ![r] = 0]
                   /\ enqueue(level, r)
  BY <1>0 DEF mlfq_demote
<1>3. /\ boost_timer + 1 < config.boost_period /\ boost_timer' = boost_timer + 1
      /\ current_quantum' = current_quantum - 1
      /\ config' = config /\ config.boost_period \in Nat
      /\ Lowest \in Nat /\ Levels = 0 .. Lowest
  BY ConfigFacts DEF mlfq_demote, UseTick, BoostDue, MLFQTypeOK
<1>4. level \in Levels
  BY <1>2, <1>3 DEF MLFQTypeOK
<1>5. queues' \in [Levels -> Seq(Procs)] /\ Standing'
  BY <1>1, <1>2, <1>3, <1>4, EnqueueStands
<1>6. priority' \in [Procs -> Levels] /\ allotment_used' \in [Procs -> Nat]
  BY <1>2, <1>4 DEF MLFQTypeOK
<1>7. boost_timer' \in 0 .. config.boost_period /\ current_quantum' \in Int
  BY <1>3 DEF MLFQTypeOK
<1> QED
  BY <1>1, <1>3, <1>5, <1>6, <1>7, TypeNext

\* Rule 2: it joins its own queue again, at the end.
LEMMA RequeueKeeps ==
  ASSUME MLFQInductive, mlfq_requeue
  PROVE  Kept'
<1> USE DEF MLFQInductive, Kept
<1>0. PICK r \in Procs : r = running_process
  BY TickFacts DEF mlfq_requeue
<1>1. /\ r \notin Waits /\ Waits \subseteq Procs /\ Waits' = Waits \cup {r} /\ RequestOnTheWay'
  BY <1>0, TickFacts DEF mlfq_requeue
<1>2. PICK level \in Levels : level = priority[r]
  BY DEF MLFQTypeOK
<1>3. /\ boost_timer + 1 < config.boost_period /\ boost_timer' = boost_timer + 1
      /\ current_quantum' = current_quantum - 1
      /\ config' = config /\ config.boost_period \in Nat
      /\ priority' = priority /\ enqueue(level, r)
      /\ allotment_used' = [allotment_used EXCEPT ![r] = allotment_used[r] + 1]
  BY <1>0, <1>2, ConfigFacts DEF mlfq_requeue, UseTick, UseAllotment, BoostDue, MLFQTypeOK
<1>4. priority' = [priority EXCEPT ![r] = level]
  BY <1>2, <1>3 DEF MLFQTypeOK
<1>5. queues' \in [Levels -> Seq(Procs)] /\ Standing'
  BY <1>1, <1>3, <1>4, EnqueueStands
<1>6. priority' \in [Procs -> Levels] /\ allotment_used' \in [Procs -> Nat]
  BY <1>3 DEF MLFQTypeOK
<1>7. boost_timer' \in 0 .. config.boost_period /\ current_quantum' \in Int
  BY <1>3 DEF MLFQTypeOK
<1> QED
  BY <1>1, <1>3, <1>5, <1>6, <1>7, TypeNext

\* It keeps the CPU, and nobody joins a queue.
LEMMA ContinueKeeps ==
  ASSUME MLFQInductive, mlfq_continue
  PROVE  Kept'
<1> USE DEF MLFQInductive, Kept
<1>0. PICK r \in Procs : r = running_process
  BY TickFacts DEF mlfq_continue
<1>1. Waits' = Waits /\ RequestOnTheWay'
  BY <1>0, TickFacts DEF mlfq_continue
<1>3. /\ boost_timer + 1 < config.boost_period /\ boost_timer' = boost_timer + 1
      /\ current_quantum' = current_quantum - 1
      /\ config' = config /\ config.boost_period \in Nat
      /\ priority' = priority /\ queues' = queues
      /\ allotment_used' = [allotment_used EXCEPT ![r] = allotment_used[r] + 1]
  BY <1>0, ConfigFacts DEF mlfq_continue, UseTick, UseAllotment, BoostDue, MLFQTypeOK
<1>6. priority' \in [Procs -> Levels] /\ allotment_used' \in [Procs -> Nat]
  BY <1>3 DEF MLFQTypeOK
<1>7. boost_timer' \in 0 .. config.boost_period /\ current_quantum' \in Int
  BY <1>3 DEF MLFQTypeOK
<1>8. queues' \in [Levels -> Seq(Procs)]
  BY <1>3 DEF MLFQTypeOK
<1> QED
  BY <1>1, <1>3, <1>6, <1>7, <1>8, SameQueuesStand, TypeNext

(***************************************************************************)
(* At the dispatch whoever may run waits: the head of the first queue that *)
(* has one may run and nobody waits at a level above it, and if no queue   *)
(* has one nobody may run.                                                 *)
(***************************************************************************)
LEMMA CandidatesWait ==
  ASSUME MLFQInductive, pc = "dispatch", DispatchDue
  PROVE  /\ Waits = Candidates
         /\ preempt_requested <=> running_process # NULL
BY DEF MLFQInductive, RequestOnTheWay, DispatchDue, Waits, Ready, Candidates, EngineInv, TypeOK

LEMMA HeadWaits ==
  ASSUME MLFQInductive, NEW l \in Levels, queues[l] # << >>,
         \A k \in Levels : k < l => queues[k] = << >>
  PROVE  /\ Head(queues[l]) \in Waits /\ Head(queues[l]) \in Procs
         /\ priority[Head(queues[l])] = l
         /\ \A p \in Waits : l <= priority[p]
<1> USE DEF MLFQInductive
<1>1. Head(queues[l]) \in Members(queues[l]) /\ Head(queues[l]) \in Procs
  BY DequeueMembers DEF MLFQTypeOK, Standing
<1>2. \A p \in Waits : p \in Members(queues[priority[p]]) /\ priority[p] \in Levels
  BY WaitsAreProcesses DEF EngineInv, MLFQTypeOK, Standing
<1>3. \A p \in Waits : ~(priority[p] < l)
  BY <1>2, NoMembers
<1>4. \A k \in Levels : k \in Int
  BY ConfigFacts DEF MLFQTypeOK
<1> QED
  BY <1>1, <1>2, <1>3, <1>4 DEF Standing

LEMMA NobodyWaits ==
  ASSUME MLFQInductive, \A l \in Levels : queues[l] = << >>
  PROVE  Waits = {}
<1>1. \A p \in Waits : p \in Members(queues[priority[p]]) /\ priority[p] \in Levels
  BY WaitsAreProcesses DEF MLFQInductive, EngineInv, MLFQTypeOK, Standing
<1> QED
  BY <1>1, NoMembers

\* The process that runs is the one that no longer waits.
LEMMA DispatchWaits ==
  ASSUME MLFQInductive, NEW next \in Procs \cup {NULL}, MayReturn(next), handle_dispatch(next)
  PROVE  Waits' = Waits \ {next} /\ Ready' = Waits' /\ RequestOnTheWay'
<1> USE DEF MLFQInductive
<1>1. /\ pc = "dispatch" /\ pc' = "execute" /\ DispatchDue /\ ~preempt_requested'
      /\ running_process' = next
  BY DEF handle_dispatch
<1>2. \A p \in Procs : procs'[p].state = IF p = next THEN "RUNNING"
                                         ELSE IF p = running_process THEN "READY"
                                         ELSE procs[p].state
  BY DispatchEffect
<1>3. Ready' = Candidates \ {next}
  BY <1>2 DEF Ready, Candidates
<1> QED
  BY <1>1, <1>3, CandidatesWait DEF Waits, RequestOnTheWay

LEMMA DispatchKeeps ==
  ASSUME MLFQInductive, NEW l \in Levels, mlfq_dispatch(l)
  PROVE  /\ MayReturn(Head(queues[l])) /\ Head(queues[l]) \in Procs
         /\ Kept'
         /\ priority'[running_process'] = l
         /\ \A p \in Ready' : l <= priority'[p]
<1> USE DEF MLFQInductive, Kept
<1>0. /\ queues[l] # << >> /\ \A k \in Levels : k < l => queues[k] = << >>
      /\ queues' = [queues EXCEPT ![l] = Tail(queues[l])]
      /\ current_quantum' = config.quantums[l]
      /\ UNCHANGED << config, boost_timer, priority, allotment_used >>
      /\ pc = "dispatch" /\ DispatchDue
  BY DEF mlfq_dispatch, handle_dispatch
<1>1. PICK next \in Procs : next = Head(queues[l])
  BY <1>0, HeadWaits
<1>2. next \in Waits /\ priority[next] = l /\ \A p \in Waits : l <= priority[p]
  BY <1>0, <1>1, HeadWaits
<1>3. MayReturn(next)
  BY <1>0, <1>2, CandidatesWait DEF MayReturn
<1>4. handle_dispatch(next) /\ running_process' = next
  BY <1>1 DEF mlfq_dispatch, handle_dispatch
<1>5. Waits' = Waits \ {next} /\ Ready' = Waits' /\ RequestOnTheWay'
  BY <1>3, <1>4, DispatchWaits
<1>6. /\ Tail(queues[l]) \in Seq(Procs)
      /\ Distinct(Tail(queues[l]))
      /\ Members(Tail(queues[l])) = Members(queues[l]) \ {next}
  <2>1. queues[l] \in Seq(Procs) /\ Distinct(queues[l])
    BY DEF MLFQTypeOK, Standing
  <2> HIDE DEF Procs
  <2> QED
    BY <1>0, <1>1, <2>1, DequeueMembers
<1>7. /\ queues' \in [Levels -> Seq(Procs)]
      /\ queues'[l] = Tail(queues[l])
      /\ \A k \in Levels \ {l} : queues'[k] = queues[k]
  BY <1>0, <1>6 DEF MLFQTypeOK
<1>8. ASSUME NEW k \in Levels
      PROVE  /\ Distinct(queues'[k])
             /\ Members(queues'[k]) = {p \in Waits \ {next} : priority'[p] = k}
  <2>1. Distinct(queues[k]) /\ Members(queues[k]) = {p \in Waits : priority[p] = k}
    BY DEF Standing
  <2>2. CASE k = l
    BY <1>0, <1>6, <1>7, <2>1, <2>2
  <2>3. CASE k # l
    BY <1>0, <1>2, <1>7, <2>1, <2>3
  <2> QED
    BY <2>2, <2>3
<1>9. Standing'
  BY <1>0, <1>5, <1>8, StandingNext
<1>10. MLFQTypeOK'
  <2>1. current_quantum' \in Int
    BY <1>0, ConfigFacts DEF MLFQTypeOK
  <2> QED
    BY <1>0, <1>7, <2>1, TypeNext DEF MLFQTypeOK
<1> QED
  BY <1>0, <1>1, <1>2, <1>3, <1>4, <1>5, <1>9, <1>10

LEMMA DispatchNoneKeeps ==
  ASSUME MLFQInductive, mlfq_dispatch_none
  PROVE  MayReturn(NULL) /\ Kept'
<1> USE DEF MLFQInductive, Kept
<1>0. /\ \A l \in Levels : queues[l] = << >>
      /\ handle_dispatch(NULL) /\ pc = "dispatch" /\ DispatchDue
      /\ UNCHANGED mlfqVars
  BY DEF mlfq_dispatch_none, handle_dispatch
<1>1. Waits = {}
  BY <1>0, NobodyWaits
<1>2. MayReturn(NULL)
  BY <1>0, <1>1, CandidatesWait DEF MayReturn
<1>3. Waits' = Waits /\ RequestOnTheWay'
  BY <1>0, <1>1, <1>2, DispatchWaits
<1> QED
  BY <1>0, <1>2, <1>3, SameQueuesStand DEF mlfqVars, MLFQTypeOK, Levels

\* on_finish: the queues it empties are empty.
LEMMA FinishKeeps ==
  ASSUME MLFQInductive, mlfq_on_finish
  PROVE  Kept'
<1> USE DEF MLFQInductive, Kept
<1>1. /\ pc = "finish" /\ procs' = procs /\ preempt_requested' = preempt_requested
      /\ queues' = [l \in Levels |-> << >>]
      /\ UNCHANGED << config, boost_timer, current_quantum, priority, allotment_used >>
  BY DEF mlfq_on_finish, on_finish
<1>2. ~preempt_requested
  BY <1>1 DEF RequestOnTheWay
<1>3. Ready = {}
  BY <1>1, AllFinished DEF OutsideTheLoop, EngineInv, Finished, Ready
<1>4. Waits' = {}
  BY <1>1, <1>2, <1>3 DEF Waits, Ready
<1>5. queues' \in [Levels -> Seq(Procs)] /\ Standing'
  BY <1>1, <1>4, EmptyQueuesStand
<1>6. MLFQTypeOK'
  BY <1>1, <1>5 DEF MLFQTypeOK, Levels
<1> QED
  BY <1>1, <1>2, <1>5, <1>6 DEF RequestOnTheWay
-----------------------------------------------------------------------------
LEMMA MLFQInitInductive == MLFQInit => MLFQInductive
<1> SUFFICES ASSUME MLFQInit PROVE MLFQInductive
  OBVIOUS
<1>1. EngineInv
  BY EngineInit DEF MLFQInit
<1>2. /\ pc = "init" /\ ~preempt_requested /\ config \in Configs
      /\ queues = [l \in Levels |-> << >>] /\ boost_timer = 0 /\ current_quantum = 0
      /\ priority = [p \in Procs |-> 0] /\ allotment_used = [p \in Procs |-> 0]
  BY DEF MLFQInit, Init
<1>3. Waits = {}
  <2>1. \A p \in Procs : procs[p].state = "NOT_ARRIVED"
    BY ParsedProcess DEF MLFQInit, Init, Workloads
  <2> QED
    BY <1>2, <2>1 DEF Waits, Ready
<1>4. MLFQTypeOK
  <2>1. queues \in [Levels -> Seq(Procs)]
    BY <1>2, NoMembers
  <2> QED
    BY <1>2, <2>1, ConfigFacts DEF MLFQTypeOK
<1>5. Standing
  BY <1>2, <1>3, NoMembers DEF Standing
<1> QED
  BY <1>1, <1>2, <1>4, <1>5 DEF MLFQInductive, RequestOnTheWay, OutsideTheLoop

(***************************************************************************)
(* Every step of MLFQ is a step of the engine.                             *)
(***************************************************************************)
LEMMA MLFQStepIsEngineStep == MLFQInductive /\ MLFQNext => Next
<1> SUFFICES ASSUME MLFQInductive, MLFQNext PROVE Next
  OBVIOUS
<1>1. CASE Mechanism
  BY <1>1 DEF Next
<1>2. CASE mlfq_on_init \/ mlfq_on_finish
  BY <1>2 DEF Next, mlfq_on_init, mlfq_on_finish
<1>3. CASE mlfq_on_arrival
  <2>1. ArrivalPreempts \in BOOLEAN /\ MayRequest(ArrivalPreempts) /\ arrive(ArrivalPreempts)
    BY <1>3 DEF mlfq_on_arrival, ArrivalPreempts, MayRequest
  <2> QED
    BY <2>1 DEF Next
<1>4. CASE mlfq_on_tick
  <2>1. PICK request \in BOOLEAN : policy_tick(request)
    BY <1>4 DEF mlfq_on_tick, mlfq_boost, mlfq_demote, mlfq_requeue, mlfq_continue
  <2>2. MayRequest(request)
    BY <2>1 DEF policy_tick, MayRequest
  <2> QED
    BY <2>1, <2>2 DEF Next
<1>5. ASSUME NEW l \in Levels, mlfq_dispatch(l) PROVE Next
  <2>1. handle_dispatch(Head(queues[l]))
    BY <1>5 DEF mlfq_dispatch
  <2> QED
    BY <1>5, <2>1, DispatchKeeps DEF Next
<1>6. CASE mlfq_dispatch_none
  <2>1. handle_dispatch(NULL)
    BY <1>6 DEF mlfq_dispatch_none
  <2> QED
    BY <1>6, <2>1, DispatchNoneKeeps DEF Next
<1> QED
  BY <1>1, <1>2, <1>3, <1>4, <1>5, <1>6 DEF MLFQNext, mlfq_next_process

LEMMA MLFQInductiveStep == MLFQInductive /\ [MLFQNext]_<< vars, mlfqVars >> => MLFQInductive'
<1> SUFFICES ASSUME MLFQInductive, [MLFQNext]_<< vars, mlfqVars >> PROVE MLFQInductive'
  OBVIOUS
<1>1. CASE MLFQNext
  <2>1. Next
    BY <1>1, MLFQStepIsEngineStep
  <2>2. EngineInv'
    BY <2>1, EngineStep DEF MLFQInductive
  <2>3. Kept'
    BY <1>1, MechanismKeeps, InitKeeps, ArrivalKeeps, BoostKeeps, DemoteKeeps, RequeueKeeps,
       ContinueKeeps, DispatchKeeps, DispatchNoneKeeps, FinishKeeps
       DEF MLFQNext, mlfq_on_tick, mlfq_next_process
  <2>4. OutsideTheLoop'
    BY <2>1, AfterTheLoop DEF MLFQInductive, OutsideTheLoop
  <2> QED
    BY <2>2, <2>3, <2>4 DEF MLFQInductive, Kept
<1>2. CASE UNCHANGED << vars, mlfqVars >>
  <2>1. EngineInv'
    BY <1>2, EngineStep DEF MLFQInductive
  <2>2. RequestOnTheWay' /\ OutsideTheLoop' /\ Waits' = Waits
    BY <1>2 DEF MLFQInductive, RequestOnTheWay, OutsideTheLoop, Waits, Ready, Levels, vars, mlfqVars
  <2>3. MLFQTypeOK'
    BY <1>2 DEF MLFQInductive, MLFQTypeOK, Levels, mlfqVars
  <2>4. Standing'
    BY <1>2, <2>2, SameQueuesStand DEF MLFQInductive, mlfqVars
  <2> QED
    BY <2>1, <2>2, <2>3, <2>4 DEF MLFQInductive
<1> QED
  BY <1>1, <1>2
-----------------------------------------------------------------------------
(***************************************************************************)
(* MLFQ keeps the policy contract: it asks for the preemption only of a    *)
(* process that runs, and next_process returns NULL only if nobody can     *)
(* run.  So each of its runs is one of the engine, and what is proved of   *)
(* the engine holds of it.  (The fairness of ImplementsEngine is left to   *)
(* TLC.)                                                                   *)
(***************************************************************************)
THEOREM MLFQKeepsContract == MLFQSpec => Init /\ [][Next]_vars
<1>1. MLFQInit => Init
  BY DEF MLFQInit
<1>2. MLFQInductive /\ [MLFQNext]_<< vars, mlfqVars >> => [Next]_vars
  BY MLFQStepIsEngineStep
<1> QED
  BY <1>1, <1>2, MLFQInitInductive, MLFQInductiveStep, PTL DEF MLFQSpec

(***************************************************************************)
(* The queues, the priority fields and the process states, updated at      *)
(* seven places in mlfq.c and scheduler.c, stay in step: every READY       *)
(* process stands in one queue, once, the one of its priority.             *)
(***************************************************************************)
THEOREM QueuesAreReadyByPriority == MLFQSpec => []MLFQInv
BY StandingPartitions, MLFQInitInductive, MLFQInductiveStep, PTL DEF MLFQSpec

(***************************************************************************)
(* The engine's invariant, of a run under MLFQ.                            *)
(***************************************************************************)
THEOREM EngineInvariantOfMLFQ == MLFQSpec => []EngineInv
<1>1. MLFQInductive => EngineInv
  BY DEF MLFQInductive
<1> QED
  BY <1>1, MLFQInitInductive, MLFQInductiveStep, PTL DEF MLFQSpec
-----------------------------------------------------------------------------
(***************************************************************************)
(* Rule 1.  A process runs at the highest level anybody waits at, or its   *)
(* preemption is on the way: an arrival at level 0 asks for it, and no     *)
(* other step raises who waits above who runs.                             *)
(***************************************************************************)
RunnerIsHighest ==
  running_process # NULL /\ ~preempt_requested =>
    \A p \in Ready : priority[running_process] <= priority[p]

LEMMA RunnerStaysHighest ==
  MLFQInductive /\ RunnerIsHighest /\ [MLFQNext]_<< vars, mlfqVars >> => RunnerIsHighest'
<1> SUFFICES ASSUME MLFQInductive, RunnerIsHighest, [MLFQNext]_<< vars, mlfqVars >>
             PROVE  RunnerIsHighest'
  OBVIOUS
<1> USE DEF MLFQInductive
<1>1. CASE Mechanism /\ UNCHANGED mlfqVars
  <2>1. /\ preempt_requested' = preempt_requested
        /\ \A p \in Procs : procs[p]'.state = "READY" <=> procs[p].state = "READY"
    BY <1>1, MechanismKeepsReady
  <2>2. Ready' = Ready /\ priority' = priority
    BY <1>1, <2>1 DEF Ready, mlfqVars
  <2>3. running_process' \in {running_process, NULL}
    BY <1>1 DEF Mechanism, handle_completions, arrivals_done, no_tick, keep_running,
       finish_instantly, execute, idle, returned, vars
  <2> QED
    BY <2>1, <2>2, <2>3 DEF RunnerIsHighest
<1>2. CASE mlfq_on_init
  BY <1>2 DEF mlfq_on_init, on_init, RunnerIsHighest
<1>3. CASE mlfq_on_arrival
  <2>0. PICK p \in Procs : p = next_arrival_idx + 1
    <3>1. next_arrival_idx < NumProcs
      BY <1>3 DEF mlfq_on_arrival, arrive, ArrivalDue
    <3> QED
      BY <3>1, NumProcsAssumption DEF EngineInv, TypeOK
  <2>1. ArrivalPreempts \in BOOLEAN /\ arrive(ArrivalPreempts)
    BY <1>3 DEF mlfq_on_arrival, ArrivalPreempts
  <2>2. /\ procs[p].state = "NOT_ARRIVED" /\ procs'[p].state = "READY"
        /\ \A q \in Procs \ {p} : procs'[q] = procs[q]
        /\ UNCHANGED running_process
    BY <2>0, <2>1, ArrivalEffect
  <2>3. /\ Ready' = Ready \cup {p} /\ p \notin Ready
        /\ running_process \in Procs \cup {NULL}
        /\ running_process # p
    BY <2>2 DEF Ready, EngineInv, OneRunning, TypeOK
  <2>4. priority' = [priority EXCEPT ![p] = 0]
    BY <1>3, <2>0 DEF mlfq_on_arrival
  <2>5. preempt_requested' <=> preempt_requested \/ ArrivalPreempts
    BY <2>1 DEF arrive
  <2>6. \A q \in Procs : priority[q] \in Nat
    BY ConfigFacts DEF MLFQTypeOK
  <2> SUFFICES ASSUME running_process # NULL, ~preempt_requested, ~ArrivalPreempts,
                      NEW q \in Ready \cup {p}
               PROVE  priority[running_process] <= priority'[q]
    BY <2>2, <2>3, <2>4, <2>5 DEF RunnerIsHighest, MLFQTypeOK
  <2>7. ~(0 < priority[running_process])
    BY DEF ArrivalPreempts
  <2>8. priority[running_process] = 0 /\ q \in Procs
    BY <2>3, <2>6, <2>7 DEF Ready
  <2> QED
    BY <2>4, <2>6, <2>8 DEF MLFQTypeOK
<1>4. CASE mlfq_boost \/ mlfq_demote \/ mlfq_requeue
  <2>1. policy_tick(TRUE)
    BY <1>4 DEF mlfq_boost, mlfq_demote, mlfq_requeue
  <2> QED
    BY <2>1, TickFacts DEF RunnerIsHighest
<1>5. CASE mlfq_continue
  BY <1>5 DEF mlfq_continue, policy_tick, RunnerIsHighest, Ready
<1>6. ASSUME NEW l \in Levels, mlfq_dispatch(l) PROVE RunnerIsHighest'
  BY <1>6, DispatchKeeps DEF RunnerIsHighest
<1>7. CASE mlfq_dispatch_none
  BY <1>7 DEF mlfq_dispatch_none, handle_dispatch, RunnerIsHighest
<1>8. CASE mlfq_on_finish \/ UNCHANGED << vars, mlfqVars >>
  BY <1>8 DEF mlfq_on_finish, on_finish, RunnerIsHighest, Ready, vars, mlfqVars
<1> QED
  BY <1>1, <1>2, <1>3, <1>4, <1>5, <1>6, <1>7, <1>8
     DEF MLFQNext, mlfq_on_tick, mlfq_next_process

(***************************************************************************)
(* HighestPriorityRuns: whenever a time unit is executed, no READY process *)
(* has a higher priority than the one on the CPU.                          *)
(***************************************************************************)
THEOREM TheHighestRuns == MLFQSpec => []HighestPriorityRuns
<1>1. MLFQInit => RunnerIsHighest
  BY DEF MLFQInit, Init, RunnerIsHighest
<1>2. MLFQInductive /\ RunnerIsHighest => HighestPriorityRuns
  BY DEF MLFQInductive, RequestOnTheWay, RunnerIsHighest, HighestPriorityRuns
<1> QED
  BY <1>1, <1>2, MLFQInitInductive, MLFQInductiveStep, RunnerStaysHighest, PTL DEF MLFQSpec

(***************************************************************************)
(* BoostLiftsEveryProcess, rule 5: a boost leaves every process that has   *)
(* arrived and not finished, the running one included, in queue 0 with its *)
(* allotment unused.                                                       *)
(***************************************************************************)
THEOREM BoostLiftsAll == MLFQSpec => BoostLiftsEveryProcess
<1>1. ASSUME MLFQInductive, MLFQNext, pc = "tick", running_process # NULL, BoostDue
      PROVE  \A p \in Ready \cup {running_process} :
               priority'[p] = 0 /\ allotment_used'[p] = 0 /\ p \in InQueue(0)'
  <2>1. mlfq_boost
    BY <1>1 DEF MLFQNext, Mechanism, handle_completions, arrivals_done, no_tick, keep_running,
       finish_instantly, execute, idle, returned, mlfq_on_init, on_init, mlfq_on_arrival, arrive,
       mlfq_on_tick, mlfq_demote, mlfq_requeue, mlfq_continue, UseTick, mlfq_next_process,
       mlfq_dispatch, mlfq_dispatch_none, handle_dispatch, mlfq_on_finish, on_finish
  <2> QED
    BY <1>1, <2>1, BoostKeeps
<1> DEFINE Lifts == pc = "tick" /\ running_process # NULL /\ BoostDue =>
                      \A p \in Ready \cup {running_process} :
                        priority'[p] = 0 /\ allotment_used'[p] = 0 /\ p \in InQueue(0)'
<1>2. MLFQInductive /\ [MLFQNext]_<< vars, mlfqVars >> => [Lifts]_<< vars, mlfqVars >>
  BY <1>1
<1>3. MLFQSpec => [][Lifts]_<< vars, mlfqVars >>
  <2> HIDE DEF Lifts
  <2> QED
    BY <1>2, MLFQInitInductive, MLFQInductiveStep, PTL DEF MLFQSpec
<1> QED
  BY <1>3 DEF BoostLiftsEveryProcess
-----------------------------------------------------------------------------
(***************************************************************************)
(* Rule 2.  The quantum on the CPU began Ran time units ago, and fewer than*)
(* the quantum whenever a time unit is about to be executed.  Of those who *)
(* wait at the level of the process that runs, the ones that were there    *)
(* when the quantum began were ahead of it if it had run just before: a    *)
(* preempted process stands last in its queue.                             *)
(***************************************************************************)
QuantumOfRunner == config.quantums[priority[running_process]]

Ran == IF pc \in {"completion", "arrival", "tick"} THEN QuantumOfRunner - current_quantum + 1
       ELSE QuantumOfRunner - current_quantum

WithinQuantum ==
  running_process # NULL /\ ~preempt_requested =>
    /\ 0 <= Ran /\ Ran <= QuantumOfRunner
    /\ pc \in {"completion", "arrival", "tick"} => 1 <= Ran
    /\ pc \in {"dispatch", "execute"} => Ran < QuantumOfRunner

NotBeforeQuantum ==
  running_process # NULL /\ ~preempt_requested =>
    \A p \in Ready :
      /\ priority[p] = priority[running_process]
      /\ procs[p].arrival_time < current_time - Ran
      => gantt_log[current_time - Ran] # running_process

PreemptedIsLast ==
  preempt_requested /\ pc = "dispatch" =>
    LET queue == queues[priority[running_process]]
    IN  queue[Len(queue)] = running_process

MLFQTimed == WithinQuantum /\ NotBeforeQuantum /\ PreemptedIsLast

MLFQHistory == MLFQInductive /\ History /\ MLFQTimed

LEMMA RunnerFacts ==
  ASSUME MLFQInductive
  PROVE  /\ running_process \in Procs \cup {NULL}
         /\ running_process # NULL =>
              QuantumOfRunner \in Nat \ {0} /\ Ran \in Int /\ priority[running_process] \in Levels
         /\ current_time \in Nat
<1>1. running_process \in Procs \cup {NULL} /\ current_time \in Nat
  BY DEF MLFQInductive, EngineInv, TypeOK
<1>2. priority \in [Procs -> Levels] /\ current_quantum \in Int
  BY DEF MLFQInductive, MLFQTypeOK
<1>3. \A l \in Levels : config.quantums[l] \in Nat \ {0}
  BY ConfigFacts DEF MLFQInductive, MLFQTypeOK
<1>4. running_process # NULL => priority[running_process] \in Levels
  BY <1>1, <1>2
<1>5. running_process # NULL => QuantumOfRunner \in Nat \ {0}
  BY <1>3, <1>4 DEF QuantumOfRunner
<1> QED
  BY <1>1, <1>2, <1>4, <1>5 DEF Ran

\* Nobody has the CPU, or the request that the dispatch answers is made.
LEMMA NobodyRuns ==
  ASSUME MLFQHistory, running_process' = NULL, RequestOnTheWay'
  PROVE  MLFQTimed'
BY DEF MLFQTimed, WithinQuantum, NotBeforeQuantum, PreemptedIsLast, RequestOnTheWay

LEMMA LastOfAppend ==
  ASSUME NEW S, NEW q \in Seq(S), NEW p \in S
  PROVE  Append(q, p)[Len(Append(q, p))] = p
BY AppendProperties

LEMMA RequestTimed ==
  ASSUME MLFQHistory, preempt_requested', NEW l, NEW q \in Seq(Procs),
         NEW r \in Procs, running_process' = r, priority'[r] = l, queues'[l] = Append(q, r)
  PROVE  MLFQTimed'
<1>1. queues'[l][Len(queues'[l])] = r
  <2> HIDE DEF Procs
  <2> QED
    BY LastOfAppend
<1> QED
  BY <1>1 DEF MLFQTimed, WithinQuantum, NotBeforeQuantum, PreemptedIsLast

LEMMA StagesKeepQuantum ==
  ASSUME MLFQHistory, Mechanism, UNCHANGED mlfqVars, RequestOnTheWay'
  PROVE  MLFQTimed'
<1> USE DEF MLFQHistory, MLFQTimed
<1>1. /\ preempt_requested' = preempt_requested /\ Ready' = Ready
      /\ UNCHANGED << config, queues, priority, current_quantum >>
  BY MechanismKeepsReady DEF MLFQInductive, Ready, mlfqVars
<1>2. CASE running_process' = NULL
  BY <1>2, NobodyRuns
<1>3. CASE running_process' # NULL
  <2>0. /\ running_process' = running_process /\ running_process # NULL
        /\ QuantumOfRunner' = QuantumOfRunner /\ QuantumOfRunner \in Nat \ {0}
        /\ current_quantum \in Int
    <3>1. running_process' = running_process
      BY <1>3 DEF Mechanism, handle_completions, arrivals_done, no_tick, keep_running,
         finish_instantly, execute, idle, returned, vars
    <3> QED
      BY <1>1, <1>3, <3>1, RunnerFacts DEF QuantumOfRunner, MLFQInductive, MLFQTypeOK
  <2>1. CASE execute
    <3>1. /\ pc = "execute" /\ current_time' = current_time + 1
          /\ gantt_log' = Append(gantt_log, running_process) /\ running_process \in Procs
      BY <2>1, ExecuteEffect DEF MLFQInductive
    <3>2. pc' = "completion" /\ ~preempt_requested
      BY <2>1, <3>1 DEF execute, LoopHead, MLFQInductive, EngineInv, StepInLoop, InStep,
         RequestOnTheWay
    <3>3. Ran' = Ran + 1 /\ Ran \in Int
      BY <1>1, <2>0, <3>1, <3>2 DEF Ran
    <3>4. WithinQuantum'
      BY <1>1, <2>0, <3>1, <3>2, <3>3 DEF WithinQuantum
    <3>5. \A p \in Procs : procs'[p].arrival_time = procs[p].arrival_time
      <4>1. procs \in [Procs -> Process]
        BY DEF MLFQInductive, EngineInv, TypeOK
      <4>2. procs' = [procs EXCEPT ![running_process] = process_tick(procs[running_process])]
        BY <2>1 DEF execute
      <4> QED
        BY <4>1, <4>2, TickProcess DEF SameJob
    <3>6. NotBeforeQuantum'
      <4> SUFFICES ASSUME NEW p \in Ready, priority[p] = priority[running_process],
                          procs[p].arrival_time < (current_time + 1) - Ran'
                   PROVE  gantt_log'[(current_time + 1) - Ran'] # running_process
        BY <1>1, <2>0, <3>1, <3>5 DEF NotBeforeQuantum, Ready
      <4>1. PICK s \in Int : s = current_time - Ran
        BY <3>3, RunnerFacts
      <4>2. (current_time + 1) - Ran' = s
        BY <3>3, <4>1, RunnerFacts
      <4>3. gantt_log[s] # running_process
        BY <2>0, <3>2, <4>1, <4>2 DEF NotBeforeQuantum
      <4>4. s \in 1 .. Len(gantt_log)
        <5>1. procs[p].arrival_time \in Nat /\ Len(gantt_log) = current_time
          BY ProcessFields DEF Ready, History, LogAccountsForCPU, EngineInv, TypeOK
        <5>2. 0 <= Ran
          BY <2>0, <3>2 DEF WithinQuantum
        <5> QED
          BY <3>3, <4>1, <4>2, <5>1, <5>2, RunnerFacts
      <4>5. gantt_log'[s] = gantt_log[s]
        BY <3>1, <4>4, NewEntry DEF MLFQInductive, EngineInv
      <4> QED
        BY <4>2, <4>3, <4>5
    <3> QED
      BY <1>1, <3>2, <3>4, <3>6 DEF PreemptedIsLast
  <2>2. CASE handle_completions \/ arrivals_done \/ keep_running \/ returned
    <3>1. /\ UNCHANGED << procs, current_time, gantt_log >>
          /\ \/ pc' = pc
             \/ pc = "completion" /\ pc' = "arrival"
             \/ pc = "arrival" /\ pc' = "tick"
             \/ pc = "dispatch" /\ pc' = "execute"
      <4>1. CASE handle_completions
        <5>1. UNCHANGED << procs, completed, current_time, gantt_log >> /\ pc = "completion"
          BY <1>3, <4>1 DEF handle_completions
        <5>2. completed # NumProcs
          BY <5>1 DEF MLFQInductive, EngineInv, StepInLoop, InStep, TypeOK
        <5> QED
          BY <4>1, <5>1, <5>2 DEF handle_completions
      <4>2. CASE arrivals_done \/ keep_running \/ returned
        BY <4>2 DEF arrivals_done, keep_running, returned, vars
      <4> QED
        BY <2>2, <4>1, <4>2
    <3>2. Ran' = Ran
      BY <1>1, <2>0, <3>1 DEF Ran
    <3>3. WithinQuantum' /\ NotBeforeQuantum'
      BY <1>1, <2>0, <3>1, <3>2 DEF WithinQuantum, NotBeforeQuantum
    <3>4. PreemptedIsLast'
      <4>1. pc' = "dispatch" => pc = "dispatch"
        BY <3>1
      <4> QED
        BY <1>1, <2>0, <4>1 DEF PreemptedIsLast
    <3> QED
      BY <3>3, <3>4
  <2>3. CASE no_tick \/ finish_instantly \/ idle
    BY <1>3, <2>0, <2>3 DEF no_tick, finish_instantly, idle
  <2> QED
    BY <2>1, <2>2, <2>3 DEF Mechanism
<1> QED
  BY <1>2, <1>3

\* An arrival comes after the quantum began.
LEMMA ArrivalKeepsQuantum ==
  ASSUME MLFQHistory, mlfq_on_arrival
  PROVE  MLFQTimed'
<1> USE DEF MLFQHistory, MLFQTimed
<1>0. PICK p \in Procs : p = next_arrival_idx + 1
  <2>1. next_arrival_idx < NumProcs
    BY DEF mlfq_on_arrival, arrive, ArrivalDue
  <2> QED
    BY <2>1, NumProcsAssumption DEF MLFQInductive, EngineInv, TypeOK
<1>1. ArrivalPreempts \in BOOLEAN /\ arrive(ArrivalPreempts)
  BY DEF mlfq_on_arrival, ArrivalPreempts
<1>2. /\ procs[p].state = "NOT_ARRIVED" /\ procs'[p].state = "READY"
      /\ \A q \in Procs : procs'[q].arrival_time = procs[q].arrival_time
      /\ \A q \in Procs \ {p} : procs'[q] = procs[q]
      /\ procs[p].arrival_time <= current_time
      /\ pc = "arrival" /\ pc' = "arrival"
      /\ UNCHANGED << current_time, gantt_log, running_process >>
  BY <1>0, <1>1, ArrivalEffect DEF MLFQInductive, SameRecord, SameJob
<1>3. /\ Ready' = Ready \cup {p} /\ p # running_process
  BY <1>2 DEF Ready, MLFQInductive, EngineInv, OneRunning
<1>4. /\ priority' = [priority EXCEPT ![p] = 0]
      /\ config' = config /\ current_quantum' = current_quantum
      /\ preempt_requested' <=> preempt_requested \/ ArrivalPreempts
  BY <1>0, <1>1 DEF mlfq_on_arrival, arrive
<1>5. \A q \in Procs \ {p} : priority'[q] = priority[q]
  BY <1>4 DEF MLFQInductive, MLFQTypeOK
<1>6. PreemptedIsLast'
  BY <1>2 DEF PreemptedIsLast
<1>7. CASE running_process = NULL \/ preempt_requested'
  BY <1>2, <1>6, <1>7 DEF WithinQuantum, NotBeforeQuantum
<1>8. CASE running_process # NULL /\ ~preempt_requested'
  <2>1. ~preempt_requested /\ running_process \in Procs \ {p}
    BY <1>3, <1>4, <1>8, RunnerFacts
  <2>2. priority'[running_process] = priority[running_process]
    BY <1>5, <2>1
  <2>3. Ran' = Ran /\ QuantumOfRunner' = QuantumOfRunner
    BY <1>2, <1>4, <2>2 DEF Ran, QuantumOfRunner
  <2>4. WithinQuantum'
    BY <1>2, <1>8, <2>1, <2>3 DEF WithinQuantum
  <2>5. procs[p].arrival_time >= current_time /\ procs[p].arrival_time \in Nat
    BY <1>2, ProcessFields DEF History, NotYetDue, EngineInv, TypeOK
  <2>6. 0 <= Ran /\ Ran \in Int /\ current_time \in Nat
    BY <1>8, <2>1, RunnerFacts DEF WithinQuantum
  <2>7. NotBeforeQuantum'
    <3> SUFFICES ASSUME NEW q \in Ready \cup {p}, priority'[q] = priority[running_process],
                        procs[q].arrival_time < current_time - Ran
                 PROVE  gantt_log[current_time - Ran] # running_process
      BY <1>2, <1>3, <2>2, <2>3 DEF NotBeforeQuantum, Ready
    <3>1. q # p
      BY <2>5, <2>6
    <3>2. q \in Ready /\ q \in Procs
      BY <3>1 DEF Ready
    <3> QED
      BY <1>5, <1>8, <2>1, <3>1, <3>2 DEF NotBeforeQuantum
  <2> QED
    BY <1>6, <2>4, <2>7
<1> QED
  BY <1>7, <1>8

\* At the end of a tick the process on the CPU stands last in the queue of its level, or
\* its quantum is not over.
LEMMA TickKeepsQuantum ==
  ASSUME MLFQHistory, mlfq_on_tick
  PROVE  MLFQTimed'
<1> USE DEF MLFQHistory, MLFQTimed
<1>0. PICK r \in Procs : r = running_process
  BY TickFacts DEF mlfq_on_tick, mlfq_boost, mlfq_demote, mlfq_requeue, mlfq_continue
<1>1. CASE mlfq_boost
  <2>1. preempt_requested' /\ running_process' = r
    BY <1>0, <1>1 DEF mlfq_boost, policy_tick
  <2>2. AllQueues \in Seq(Procs)
    BY <1>1, AllQueuesHoldWaiting, TickFacts DEF mlfq_boost, MLFQInductive
  <2>3. 0 \in Levels /\ r \in Lifted
    BY <1>0, ConfigFacts DEF MLFQInductive, MLFQTypeOK, Lifted
  <2>4. queues'[0] = Append(AllQueues, r) /\ priority'[r] = 0
    BY <1>0, <1>1, <2>3 DEF mlfq_boost
  <2> QED
    BY <2>1, <2>2, <2>4, RequestTimed
<1>2. CASE mlfq_demote
  <2>1. preempt_requested' /\ running_process' = r
    BY <1>0, <1>2 DEF mlfq_demote, policy_tick
  <2>2. PICK level : /\ level = IF priority[r] < Lowest THEN priority[r] + 1 ELSE priority[r]
                     /\ priority' = [priority EXCEPT ![r] = level]
                     /\ enqueue(level, r)
    BY <1>0, <1>2 DEF mlfq_demote
  <2>3. level \in Levels
    BY <2>2, ConfigFacts DEF MLFQInductive, MLFQTypeOK
  <2>4. queues'[level] = Append(queues[level], r) /\ priority'[r] = level
    BY <2>2, <2>3 DEF enqueue, MLFQInductive, MLFQTypeOK
  <2>5. queues[level] \in Seq(Procs)
    BY <2>3 DEF MLFQInductive, MLFQTypeOK
  <2> QED
    BY <2>1, <2>4, <2>5, RequestTimed
<1>3. CASE mlfq_requeue
  <2>1. preempt_requested' /\ running_process' = r
    BY <1>0, <1>3 DEF mlfq_requeue, policy_tick
  <2>2. PICK level \in Levels : level = priority[r]
    BY DEF MLFQInductive, MLFQTypeOK
  <2>3. priority'[r] = level /\ enqueue(level, r)
    BY <1>0, <1>3, <2>2 DEF mlfq_requeue
  <2>4. queues'[level] = Append(queues[level], r)
    BY <2>3 DEF enqueue, MLFQInductive, MLFQTypeOK
  <2>5. queues[level] \in Seq(Procs)
    BY DEF MLFQInductive, MLFQTypeOK
  <2> QED
    BY <2>1, <2>3, <2>4, <2>5, RequestTimed
<1>4. CASE mlfq_continue
  <2>1. /\ pc = "tick" /\ pc' = "dispatch" /\ running_process # NULL
        /\ ~preempt_requested /\ ~preempt_requested' /\ ~QuantumOver
        /\ current_quantum' = current_quantum - 1
        /\ UNCHANGED << procs, current_time, gantt_log, running_process, config, priority >>
    BY <1>4 DEF mlfq_continue, policy_tick, UseTick
  <2>2. QuantumOfRunner' = QuantumOfRunner /\ Ready' = Ready
    BY <2>1 DEF QuantumOfRunner, Ready
  <2>3. current_quantum \in Int /\ QuantumOfRunner \in Nat
    BY <2>1, RunnerFacts DEF MLFQInductive, MLFQTypeOK
  <2>4. Ran' = Ran /\ Ran = QuantumOfRunner - current_quantum + 1
    BY <2>1, <2>2, <2>3 DEF Ran
  <2>5. WithinQuantum'
    BY <2>1, <2>2, <2>3, <2>4 DEF WithinQuantum, QuantumOver
  <2>6. NotBeforeQuantum'
    BY <2>1, <2>2, <2>4 DEF NotBeforeQuantum
  <2> QED
    BY <2>1, <2>5, <2>6 DEF PreemptedIsLast
<1> QED
  BY <1>1, <1>2, <1>3, <1>4 DEF mlfq_on_tick

\* Whoever is dispatched before another of its level has not just run.
LEMMA DispatchKeepsQuantum ==
  ASSUME MLFQHistory, NEW l \in Levels, mlfq_dispatch(l)
  PROVE  MLFQTimed'
<1> USE DEF MLFQHistory, MLFQTimed
<1>0. PICK next \in Procs : next = Head(queues[l])
  BY DispatchKeeps
<1>1. /\ handle_dispatch(next) /\ pc = "dispatch" /\ pc' = "execute" /\ DispatchDue
      /\ queues[l] # << >> /\ \A k \in Levels : k < l => queues[k] = << >>
      /\ running_process' = next /\ ~preempt_requested'
      /\ current_quantum' = config.quantums[l]
      /\ UNCHANGED << current_time, gantt_log, config, priority >>
  BY <1>0 DEF mlfq_dispatch, handle_dispatch
<1>2. next \in Waits /\ priority[next] = l /\ MayReturn(next)
  BY <1>0, <1>1, HeadWaits, DispatchKeeps
<1>3. Ready' = Waits \ {next}
  BY <1>1, <1>2, DispatchWaits
<1>4. QuantumOfRunner' = config.quantums[l] /\ config.quantums[l] \in Nat \ {0}
  BY <1>1, <1>2, ConfigFacts DEF QuantumOfRunner, MLFQInductive, MLFQTypeOK
<1>5. Ran' = 0
  BY <1>1, <1>4 DEF Ran
<1>6. WithinQuantum' /\ PreemptedIsLast'
  BY <1>1, <1>4, <1>5 DEF WithinQuantum, PreemptedIsLast
<1>7. current_time \in Nat /\ \A p \in Procs : procs[p].arrival_time \in Nat
  BY ProcessFields DEF History, EngineInv, TypeOK
<1>8. \A p \in Procs : procs'[p].arrival_time = procs[p].arrival_time
  BY <1>1, <1>2, DispatchEffect DEF MLFQInductive, SameRecord, Started, SameJob
<1>9. NotBeforeQuantum'
  <2> SUFFICES ASSUME NEW p \in Waits \ {next}, priority[p] = l,
                      procs[p].arrival_time < current_time, gantt_log[current_time] = next
               PROVE  FALSE
    BY <1>1, <1>2, <1>3, <1>5, <1>7, <1>8 DEF NotBeforeQuantum, Ready
  <2>1. p \in Procs
    BY WaitsAreProcesses DEF MLFQInductive, EngineInv
  <2>2. current_time \in Ticks(next)
    <3>1. Len(gantt_log) = current_time /\ current_time \in 1 .. Len(gantt_log)
      BY <1>7, <2>1 DEF History, LogAccountsForCPU
    <3> QED
      BY <3>1 DEF Ticks
  <2>3. next \notin Ready
    BY <1>1, <2>2, LastUnit DEF Ready
  <2>4. preempt_requested /\ next = running_process
    BY <1>1, <1>2, <2>3 DEF Waits
  <2>5. queues[l][Len(queues[l])] = next
    BY <1>1, <1>2, <2>4 DEF PreemptedIsLast
  <2>6. /\ queues[l] \in Seq(Procs) /\ Distinct(queues[l])
        /\ next \in Members(queues[l]) /\ p \in Members(queues[l])
    BY <1>2 DEF Standing, MLFQInductive, MLFQTypeOK
  <2>7. next = queues[l][1] /\ Len(queues[l]) \in Nat \ {0}
    <3> HIDE DEF Procs
    <3> QED
      BY <1>0, <1>1, <2>6, HeadTailProperties, LenProperties, EmptySeq
  <2>8. Len(queues[l]) = 1
    <3>1. 1 \in 1 .. Len(queues[l]) /\ Len(queues[l]) \in 1 .. Len(queues[l])
      BY <2>7
    <3>2. queues[l][1] = queues[l][Len(queues[l])]
      BY <2>5, <2>7
    <3> QED
      BY <2>6, <3>1, <3>2, Zenon DEF Distinct
  <2> QED
    BY <2>6, <2>7, <2>8 DEF Members
<1> QED
  BY <1>6, <1>9

LEMMA MLFQHistoryInit == MLFQInit => MLFQHistory
<1> SUFFICES ASSUME MLFQInit PROVE MLFQHistory
  OBVIOUS
<1>1. MLFQInductive /\ History
  BY MLFQInitInductive, HistoryInit DEF MLFQInit
<1>2. running_process = NULL /\ ~preempt_requested
  BY DEF MLFQInit, Init
<1> QED
  BY <1>1, <1>2 DEF MLFQHistory, MLFQTimed, WithinQuantum, NotBeforeQuantum, PreemptedIsLast

LEMMA MLFQHistoryStep == MLFQHistory /\ [MLFQNext]_<< vars, mlfqVars >> => MLFQHistory'
<1> SUFFICES ASSUME MLFQHistory, [MLFQNext]_<< vars, mlfqVars >> PROVE MLFQHistory'
  OBVIOUS
<1>1. MLFQInductive' /\ [Next]_vars
  BY MLFQInductiveStep, MLFQStepIsEngineStep DEF MLFQHistory
<1>2. History' /\ RequestOnTheWay'
  BY <1>1, HistoryStep DEF MLFQHistory, MLFQInductive
<1> SUFFICES MLFQTimed'
  BY <1>1, <1>2 DEF MLFQHistory
<1>3. CASE Mechanism /\ UNCHANGED mlfqVars
  BY <1>2, <1>3, StagesKeepQuantum
<1>4. CASE mlfq_on_init
  BY <1>2, <1>4, NobodyRuns DEF mlfq_on_init, on_init
<1>5. CASE mlfq_on_arrival
  BY <1>5, ArrivalKeepsQuantum
<1>6. CASE mlfq_on_tick
  BY <1>6, TickKeepsQuantum
<1>7. ASSUME NEW l \in Levels, mlfq_dispatch(l) PROVE MLFQTimed'
  BY <1>7, DispatchKeepsQuantum
<1>8. CASE mlfq_dispatch_none
  BY <1>2, <1>8, NobodyRuns DEF mlfq_dispatch_none, handle_dispatch
<1>9. CASE mlfq_on_finish
  <2>1. running_process' = running_process /\ completed = NumProcs
    BY <1>9 DEF mlfq_on_finish, on_finish, MLFQHistory, MLFQInductive, OutsideTheLoop
  <2>2. \A p \in Procs : procs[p].state = "FINISHED"
    BY <2>1, AllFinished DEF MLFQHistory, MLFQInductive, EngineInv, Finished
  <2>3. running_process = NULL
    BY <2>2 DEF MLFQHistory, MLFQInductive, EngineInv, OneRunning, TypeOK
  <2> QED
    BY <1>2, <2>1, <2>3, NobodyRuns
<1>10. CASE UNCHANGED << vars, mlfqVars >>
  <2>1. UNCHANGED << procs, current_time, gantt_log, running_process, preempt_requested, pc,
                     config, queues, priority, current_quantum >>
    BY <1>10 DEF vars, mlfqVars
  <2>2. Ran' = Ran /\ QuantumOfRunner' = QuantumOfRunner /\ Ready' = Ready
    BY <2>1 DEF Ran, QuantumOfRunner, Ready
  <2> QED
    BY <2>1, <2>2 DEF MLFQHistory, MLFQTimed, WithinQuantum, NotBeforeQuantum, PreemptedIsLast
<1> QED
  BY <1>3, <1>4, <1>5, <1>6, <1>7, <1>8, <1>9, <1>10 DEF MLFQNext, mlfq_next_process

(***************************************************************************)
(* QuantumShared, rule 2: a process that shares its level with one that    *)
(* has waited for a whole quantum has not had the CPU for all of it.       *)
(***************************************************************************)
THEOREM QuantaAreShared == MLFQSpec => []QuantumShared
<1>1. MLFQHistory => QuantumShared
  <2> SUFFICES ASSUME MLFQHistory, pc = "execute", running_process # NULL, NEW p \in Ready,
                      priority[p] = priority[running_process],
                      procs[p].arrival_time + QuantumOfRunner <= current_time
               PROVE  \E t \in current_time - QuantumOfRunner + 1 .. current_time :
                        gantt_log[t] # running_process
    BY DEF QuantumShared, QuantumOfRunner
  <2>1. ~preempt_requested
    BY DEF MLFQHistory, MLFQInductive, RequestOnTheWay
  <2>2. /\ Ran \in Int /\ 0 <= Ran /\ Ran < QuantumOfRunner
        /\ QuantumOfRunner \in Nat /\ current_time \in Nat
    BY <2>1, RunnerFacts DEF MLFQHistory, MLFQTimed, WithinQuantum
  <2>3. procs[p].arrival_time \in Nat
    BY ProcessFields DEF Ready, MLFQHistory, History, EngineInv, TypeOK
  <2>4. procs[p].arrival_time < current_time - Ran
    BY <2>2, <2>3
  <2>5. gantt_log[current_time - Ran] # running_process
    BY <2>1, <2>4 DEF MLFQHistory, MLFQTimed, NotBeforeQuantum
  <2>6. current_time - Ran \in current_time - QuantumOfRunner + 1 .. current_time
    BY <2>2
  <2> QED
    BY <2>5, <2>6
<1> QED
  BY <1>1, MLFQHistoryInit, MLFQHistoryStep, PTL DEF MLFQSpec
-----------------------------------------------------------------------------
(***************************************************************************)
(* Rule 4.  Without a boost the CPU time a process has been charged is the *)
(* allotments of the levels above its own, all of the allotments it has    *)
(* used up at the lowest level, and what it has used of the current one.   *)
(* There is no boost if the period exceeds the makespan: the boost timer   *)
(* is never ahead of the clock, and the clock not of the makespan.         *)
(***************************************************************************)
Active == Ready \cup ({running_process} \ {NULL})

LevelOf(p) ==
  /\ allotment_used[p] < config.allotments[priority[p]]
  /\ IF priority[p] < Lowest THEN Charged(p) = Above(priority[p]) + allotment_used[p]
     ELSE \E k \in Nat :
            Charged(p) = Above(Lowest) + k * config.allotments[Lowest] + allotment_used[p]

TimerBehind ==
  boost_timer = 0 \/
    boost_timer <= (IF pc \in {"dispatch", "execute"} THEN current_time ELSE current_time - 1)

LevelKept ==
  \A end : OneAfterTheOther(end) /\ end[NumProcs] < config.boost_period =>
    \A p \in Active : LevelOf(p)

LEMMA EndsGrow ==
  ASSUME NEW end, OneAfterTheOther(end), NEW i \in 0 .. NumProcs,
         \A p \in Procs : Charge(p) \in Nat /\ procs[p].arrival_time \in Nat
  PROVE  end[i] <= end[NumProcs]
<1> DEFINE S == {k \in Nat : i <= k => end[i] <= end[k]}
<1>0. NumProcs \in Nat /\ \A k \in 0 .. NumProcs : end[k] \in Nat
  BY NumProcsAssumption DEF OneAfterTheOther
<1>1. 0 \in S
  BY <1>0
<1>2. ASSUME NEW k \in 0 .. NumProcs - 1, k \in S PROVE k + 1 \in S
  <2>1. k + 1 \in Procs /\ (k + 1) - 1 = k /\ k \in 0 .. NumProcs /\ k + 1 \in 0 .. NumProcs
    BY <1>0
  <2>2. end[k + 1] = Longer(end[k], procs[k + 1].arrival_time) + Charge(k + 1)
    BY <2>1 DEF OneAfterTheOther
  <2>3. end[k] <= end[k + 1]
    BY <1>0, <2>1, <2>2 DEF Longer
  <2>4. i <= k => end[i] <= end[k]
    BY <1>2
  <2>5. i <= k + 1 => i <= k \/ i = k + 1
    BY <2>1
  <2>6. end[i] \in Nat /\ end[k] \in Nat /\ end[k + 1] \in Nat
    BY <1>0, <2>1
  <2>7. i <= k + 1 => end[i] <= end[k + 1]
    BY <2>3, <2>4, <2>5, <2>6
  <2> QED
    BY <2>1, <2>7
<1> HIDE DEF S
<1>3. \A k \in 0 .. NumProcs : k \in S
  BY <1>0, <1>1, <1>2, UpTo
<1>4. NumProcs \in S /\ i <= NumProcs
  BY <1>0, <1>3
<1> QED
  BY <1>4 DEF S

\* While a process has the CPU, the time is not beyond the makespan.
LEMMA WithinMakespan ==
  ASSUME EngineInv, WorkKept, running_process # NULL, NEW end, OneAfterTheOther(end)
  PROVE  current_time <= end[NumProcs] /\ end[NumProcs] \in Nat
<1>1. /\ next_arrival_idx \in 0 .. NumProcs /\ current_time \in Nat /\ NumProcs \in Nat
      /\ \A p \in Procs : Charge(p) \in Nat /\ procs[p].arrival_time \in Nat
  BY ProcessFields, NumProcsAssumption DEF EngineInv, TypeOK, Charge
<1>2. end[next_arrival_idx] <= end[NumProcs]
  BY <1>1, EndsGrow
<1>3. end[next_arrival_idx] \in Nat /\ end[NumProcs] \in Nat
  BY <1>1 DEF OneAfterTheOther
<1>4. current_time <= end[next_arrival_idx]
  <2>1. IsFiniteSet(Work) /\ OnSchedule(end)
    BY DEF WorkKept
  <2>2. Cardinality(Work) \in Nat
    BY <2>1, FS_CardinalityType
  <2>3. CASE Work = {}
    BY <1>1, <1>3, <2>1, <2>3 DEF OnSchedule
  <2>4. CASE Work # {}
    BY <1>1, <1>3, <2>1, <2>2, <2>4 DEF OnSchedule
  <2> QED
    BY <2>3, <2>4
<1> QED
  BY <1>1, <1>2, <1>3, <1>4

\* The sum of the allotments, level by level.
LEMMA AboveSteps ==
  ASSUME config \in Configs
  PROVE  /\ Above(0) = 0
         /\ \A l \in Levels : Above(l) \in Nat
         /\ \A l \in Levels : l < Lowest => l + 1 \in Levels /\ Above(l + 1) = Above(l) + config.allotments[l]
<1> DEFINE Sum(l, v) == v + config.allotments[l - 1]
           step == [l \in 1 .. Lowest |-> [v \in Nat |-> Sum(l, v)]]
           Loop(f) == [l \in Levels |-> IF l = 0 THEN 0 ELSE f[l - 1] + config.allotments[l - 1]]
           sum == CHOOSE f : f = Loop(f)
<1>0. /\ Lowest \in Nat /\ Levels = 0 .. Lowest
      /\ \A l \in Levels : config.allotments[l] \in Nat
  BY ConfigFacts
<1>1. step \in [1 .. Lowest -> [Nat -> Nat]]
  <2>1. \A l \in 1 .. Lowest : l - 1 \in Levels
    BY <1>0
  <2> QED
    BY <1>0, <2>1
<1>2. PICK f \in [0 .. Lowest -> Nat] : Follows(f, Lowest, 0, step)
  <2> HIDE DEF step
  <2>1. 0 \in Nat
    OBVIOUS
  <2> QED
    BY <1>0, <1>1, <2>1, RecursiveFunction, Zenon
<1>3. \A l : Above(l) = sum[l]
  BY DEF Above
<1>4. ASSUME NEW l \in 1 .. Lowest
      PROVE  step[l][f[l - 1]] = f[l - 1] + config.allotments[l - 1]
  <2>1. f[l - 1] \in Nat
    BY <1>0
  <2> QED
    BY <2>1
<1>5. f = Loop(f)
  <2> HIDE DEF step
  <2> QED
    BY <1>0, <1>2, <1>4 DEF Follows
<1>6. sum = Loop(sum)
  <2> HIDE DEF Loop
  <2> QED
    BY <1>5, Zenon
<1> HIDE DEF sum
<1>7. sum[0] = 0 /\ \A l \in 1 .. Lowest : sum[l] = sum[l - 1] + config.allotments[l - 1]
  <2>1. \A g : /\ Loop(g)[0] = 0
               /\ \A l \in 1 .. Lowest : Loop(g)[l] = g[l - 1] + config.allotments[l - 1]
    BY <1>0
  <2> HIDE DEF Loop
  <2> QED
    BY <1>6, <2>1
<1>8. \A l \in 0 .. Lowest : sum[l] \in Nat
  <2> DEFINE S == {l \in Nat : sum[l] \in Nat}
  <2>1. 0 \in S
    BY <1>7
  <2>2. ASSUME NEW l \in 0 .. Lowest - 1, l \in S PROVE l + 1 \in S
    <3>1. l + 1 \in 1 .. Lowest /\ (l + 1) - 1 = l /\ l \in Levels /\ l + 1 \in Nat
      BY <1>0
    <3>2. sum[l + 1] = sum[l] + config.allotments[l]
      BY <1>7, <3>1
    <3> QED
      BY <1>0, <2>2, <3>1, <3>2
  <2> HIDE DEF S
  <2>3. \A l \in 0 .. Lowest : l \in S
    BY <1>0, <2>1, <2>2, UpTo
  <2> QED
    BY <2>3 DEF S
<1>9. ASSUME NEW l \in Levels, l < Lowest
      PROVE  l + 1 \in Levels /\ Above(l + 1) = Above(l) + config.allotments[l]
  <2>1. l + 1 \in 1 .. Lowest /\ (l + 1) - 1 = l
    BY <1>0, <1>9
  <2>2. sum[l + 1] = sum[l] + config.allotments[l]
    BY <1>7, <2>1
  <2> QED
    BY <1>0, <1>3, <2>1, <2>2
<1> QED
  BY <1>0, <1>3, <1>7, <1>8, <1>9

LEMMA AboveStays ==
  ASSUME config' = config
  PROVE  Lowest' = Lowest /\ Levels' = Levels /\ \A l : Above(l)' = Above(l)
BY DEF Lowest, Levels, Above

LEMMA Remainder ==
  ASSUME NEW k \in Nat, NEW m \in Nat \ {0}, NEW u \in Nat, u < m
  PROVE  (k * m + u) % m = u
OBVIOUS

\* A step after which p has been charged the same and is where it was.
LEMMA SameLevel ==
  ASSUME NEW p, LevelOf(p), config' = config, Charged(p)' = Charged(p),
         priority'[p] = priority[p], allotment_used'[p] = allotment_used[p]
  PROVE  LevelOf(p)'
BY AboveStays DEF LevelOf

\* To keep LevelKept is to keep the levels of the processes that are active after the step.
LEMMA LevelsStay ==
  ASSUME EngineInv, [Next]_vars, LevelKept, config' = config,
         \A end :
           /\ OneAfterTheOther(end)
           /\ end[NumProcs] < config.boost_period
           /\ \A p \in Active : LevelOf(p)
           => \A p \in Active' : LevelOf(p)'
  PROVE  LevelKept'
<1>1. \A end : OneAfterTheOther(end)' <=> OneAfterTheOther(end)
  BY JobsStay, EndsStay
<1> QED
  BY <1>1 DEF LevelKept

LEMMA TimerStays ==
  ASSUME MLFQHistory, TimerBehind, [MLFQNext]_<< vars, mlfqVars >>
  PROVE  TimerBehind'
<1> USE DEF TimerBehind
<1>0. current_time \in Nat /\ boost_timer \in Nat
  BY ConfigFacts DEF MLFQHistory, MLFQInductive, EngineInv, TypeOK, MLFQTypeOK
<1>1. CASE Mechanism /\ UNCHANGED mlfqVars
  <2>1. \/ UNCHANGED << current_time, pc >>
        \/ pc \notin {"dispatch", "execute"} /\ current_time' = current_time
        \/ pc = "dispatch" /\ pc' = "execute" /\ current_time' = current_time
        \/ pc = "execute" /\ current_time' = current_time + 1
    BY <1>1 DEF Mechanism, handle_completions, arrivals_done, no_tick, keep_running,
       finish_instantly, execute, idle, returned, vars
  <2> QED
    BY <1>0, <1>1, <2>1 DEF mlfqVars
<1>2. CASE mlfq_on_init
  BY <1>2 DEF mlfq_on_init
<1>3. CASE mlfq_on_arrival
  BY <1>0, <1>3 DEF mlfq_on_arrival, arrive
<1>4. CASE mlfq_boost
  BY <1>4 DEF mlfq_boost
<1>5. CASE mlfq_demote \/ mlfq_requeue \/ mlfq_continue
  <2>1. /\ pc = "tick" /\ pc' = "dispatch" /\ running_process # NULL
        /\ current_time' = current_time /\ boost_timer' = boost_timer + 1
    BY <1>5 DEF mlfq_demote, mlfq_requeue, mlfq_continue, policy_tick, UseTick
  <2>2. current_time \in Ticks(running_process)
    BY <2>1, LastUnit DEF MLFQHistory
  <2>3. current_time >= 1
    BY <2>2 DEF Ticks
  <2> QED
    BY <1>0, <2>1, <2>3
<1>6. CASE mlfq_next_process
  BY <1>0, <1>6 DEF mlfq_next_process, mlfq_dispatch, mlfq_dispatch_none, handle_dispatch, mlfqVars
<1>7. CASE mlfq_on_finish
  BY <1>0, <1>7 DEF mlfq_on_finish, on_finish
<1>8. CASE UNCHANGED << vars, mlfqVars >>
  BY <1>8 DEF vars, mlfqVars
<1> QED
  BY <1>1, <1>2, <1>3, <1>4, <1>5, <1>6, <1>7, <1>8 DEF MLFQNext, mlfq_on_tick

\* While the boost period exceeds the makespan, no boost is due.
LEMMA NoBoost ==
  ASSUME MLFQHistory, WorkKept, TimerBehind, pc = "tick", running_process # NULL,
         NEW end, OneAfterTheOther(end), end[NumProcs] < config.boost_period
  PROVE  ~BoostDue
<1>1. current_time <= end[NumProcs] /\ end[NumProcs] \in Nat
  BY WithinMakespan DEF MLFQHistory, MLFQInductive
<1>2. current_time \in Nat /\ boost_timer \in Nat /\ config.boost_period \in Nat
  BY ConfigFacts DEF MLFQHistory, MLFQInductive, EngineInv, TypeOK, MLFQTypeOK
<1>3. current_time >= 1
  BY LastUnit DEF MLFQHistory, Ticks
<1>4. boost_timer + 1 <= current_time
  BY <1>2, <1>3 DEF TimerBehind
<1> QED
  BY <1>1, <1>2, <1>4 DEF BoostDue

\* The last time unit of p is one that no tick has charged yet.
Uncharged(p) == p = running_process /\ pc \in {"completion", "arrival", "tick"}

LEMMA ChargedSame ==
  ASSUME NEW p, Ticks(p)' = Ticks(p), Uncharged(p)' <=> Uncharged(p)
  PROVE  Charged(p)' = Charged(p)
BY DEF Charged, Uncharged

LEMMA ActiveFacts ==
  ASSUME EngineInv
  PROVE  /\ Active \subseteq Procs
         /\ running_process \notin Ready
BY DEF Active, Ready, EngineInv, TypeOK, OneRunning

\* No stage charges a time unit: the one that execute logs is charged at the next tick.
LEMMA StagesCharge ==
  ASSUME EngineInv, EngineInv', Mechanism, NEW p \in Active'
  PROVE  p \in Active /\ Charged(p)' = Charged(p)
<1>1. Ready' = Ready /\ p \in Procs
  <2>1. Ready' = Ready
    BY MechanismKeepsReady DEF Ready
  <2> QED
    BY <2>1 DEF Active, Ready, EngineInv, TypeOK
<1>2. running_process' \in {running_process, NULL}
  BY DEF Mechanism, handle_completions, arrivals_done, no_tick, keep_running, finish_instantly,
     execute, idle, returned, vars
<1>3. p \in Active
  BY <1>1, <1>2 DEF Active
<1>4. p = running_process' \/ p # running_process
  BY <1>1, ActiveFacts DEF Active
<1> SUFFICES Charged(p)' = Charged(p)
  BY <1>3
<1>5. CASE execute
  <2>1. /\ pc = "execute" /\ pc' = "completion"
        /\ running_process' = running_process /\ running_process \in Procs
        /\ gantt_log' = Append(gantt_log, running_process)
    BY <1>5, ExecuteEffect DEF execute, LoopHead, EngineInv, StepInLoop, InStep
  <2>2. CASE p # running_process
    <3>1. Ticks(p)' = Ticks(p)
      BY <1>1, <2>1, <2>2, NewEntry DEF EngineInv
    <3> QED
      BY <2>1, <2>2, <3>1, ChargedSame DEF Uncharged
  <2>3. CASE p = running_process
    <3>1. /\ Ticks(p)' = Ticks(p) \cup {Len(gantt_log) + 1}
          /\ Len(gantt_log) + 1 \notin Ticks(p) /\ IsFiniteSet(Ticks(p))
      BY <1>1, <2>1, <2>3, NewEntry, TicksFinite DEF EngineInv
    <3>2. Cardinality(Ticks(p)') = Cardinality(Ticks(p)) + 1 /\ Cardinality(Ticks(p)) \in Nat
      BY <3>1, FS_AddElement, FS_CardinalityType
    <3>3. Charged(p) = Cardinality(Ticks(p)) /\ Charged(p)' = Cardinality(Ticks(p)') - 1
      BY <2>1, <2>3, <3>2 DEF Charged
    <3> QED
      BY <3>2, <3>3
  <2> QED
    BY <2>2, <2>3
<1>6. CASE finish_instantly \/ idle
  <2>1. pc = "execute" /\ running_process' = NULL /\ gantt_log' = Append(gantt_log, Idle)
    BY <1>6 DEF finish_instantly, idle, append_gantt_entry
  <2>2. Ticks(p)' = Ticks(p)
    BY <1>1, <2>1, NewEntry DEF EngineInv, Idle
  <2> QED
    BY <1>1, <2>1, <2>2, ChargedSame DEF Uncharged
<1>7. CASE handle_completions
  <2>1. gantt_log' = gantt_log /\ pc = "completion"
    BY <1>7 DEF handle_completions
  <2>2. p = running_process' => pc' = "arrival" /\ running_process' = running_process
    <3> SUFFICES ASSUME p = running_process' PROVE pc' = "arrival"
      BY <1>1, <1>2
    <3>1. completed' = completed
      BY <1>1, <1>7 DEF handle_completions
    <3>2. completed # NumProcs
      BY <2>1 DEF EngineInv, StepInLoop, InStep, TypeOK
    <3> QED
      BY <1>7, <3>1, <3>2 DEF handle_completions
  <2> QED
    BY <1>3, <1>4, <2>1, <2>2, ChargedSame DEF Uncharged, Ticks
<1>8. CASE arrivals_done \/ no_tick \/ keep_running \/ returned
  <2>1. /\ UNCHANGED << gantt_log, running_process >>
        /\ p = running_process => Uncharged(p)' <=> Uncharged(p)
    BY <1>1, <1>8 DEF arrivals_done, no_tick, keep_running, returned, vars, Uncharged
  <2> QED
    BY <1>3, <2>1, ChargedSame DEF Uncharged, Ticks
<1> QED
  BY <1>3, <1>5, <1>6, <1>7, <1>8 DEF Mechanism

\* A process arrives uncharged, at the top level.
LEMMA ArrivalLevels ==
  ASSUME MLFQHistory, mlfq_on_arrival, \A p \in Active : LevelOf(p), NEW p \in Active'
  PROVE  LevelOf(p)'
<1> USE DEF MLFQHistory
<1>0. PICK a \in Procs : a = next_arrival_idx + 1
  <2>1. next_arrival_idx < NumProcs
    BY DEF mlfq_on_arrival, arrive, ArrivalDue
  <2> QED
    BY <2>1, NumProcsAssumption DEF MLFQInductive, EngineInv, TypeOK
<1>1. ArrivalPreempts \in BOOLEAN /\ arrive(ArrivalPreempts)
  BY DEF mlfq_on_arrival, ArrivalPreempts
<1>2. /\ procs[a].state = "NOT_ARRIVED" /\ procs'[a].state = "READY"
      /\ \A q \in Procs \ {a} : procs'[q] = procs[q]
      /\ pc = "arrival" /\ pc' = "arrival"
      /\ UNCHANGED << gantt_log, running_process >>
  BY <1>0, <1>1, ArrivalEffect DEF MLFQInductive
<1>3. /\ priority' = [priority EXCEPT ![a] = 0]
      /\ allotment_used' = [allotment_used EXCEPT ![a] = 0]
      /\ config' = config
  BY <1>0 DEF mlfq_on_arrival
<1>4. Active' = Active \cup {a} /\ Active \subseteq Procs /\ a # running_process
  BY <1>2, ActiveFacts DEF Active, Ready, MLFQInductive, EngineInv, OneRunning
<1>5. Charged(p)' = Charged(p)
  BY <1>2, ChargedSame DEF Uncharged, Ticks
<1>6. CASE p # a
  <2>1. priority'[p] = priority[p] /\ allotment_used'[p] = allotment_used[p]
    BY <1>3, <1>4, <1>6 DEF MLFQInductive, MLFQTypeOK
  <2>2. LevelOf(p)
    BY <1>4, <1>6
  <2> QED
    BY <1>3, <1>5, <2>1, <2>2, SameLevel
<1>7. CASE p = a
  <2>1. Charged(p)' = 0
    <3>1. Ticks(a) = {}
      BY <1>2 DEF History, MetricsKept, StartOf
    <3>2. Charged(a) = 0
      BY <1>4, <3>1, FS_EmptySet DEF Charged
    <3> QED
      BY <1>5, <1>7, <3>2
  <2>2. priority'[p] = 0 /\ allotment_used'[p] = 0
    BY <1>3, <1>7 DEF MLFQInductive, MLFQTypeOK
  <2>3. /\ Above(0) = 0 /\ Lowest \in Nat /\ config.allotments[0] \in Nat \ {0}
        /\ config.allotments[Lowest] \in Nat
    BY ConfigFacts, AboveSteps DEF MLFQInductive, MLFQTypeOK
  <2>4. Lowest' = Lowest /\ Above(0)' = Above(0) /\ (~(0 < Lowest) => Above(Lowest)' = Above(0))
    BY <1>3, <2>3, AboveStays
  <2>5. 0 < config'.allotments[0]
    BY <1>3, <2>3
  <2>6. ~(0 < Lowest) => 0 = Above(Lowest)' + 0 * config.allotments[Lowest] + 0
    BY <2>3, <2>4
  <2> QED
    BY <1>3, <2>1, <2>2, <2>3, <2>4, <2>5, <2>6 DEF LevelOf
<1> QED
  BY <1>6, <1>7

\* One more unit of an allotment, at any level but the lowest and at the lowest.
LEMMA OneMore ==
  ASSUME NEW k \in Nat, NEW m \in Nat, NEW b \in Nat, NEW u \in Nat, NEW c,
         c = b + k * m + u
  PROVE  /\ c + 1 = b + k * m + (u + 1)
         /\ u + 1 = m => c + 1 = b + (k + 1) * m + 0
OBVIOUS

LEMMA LevelAtTheBottom ==
  ASSUME config' = config, Lowest \in Int, NEW p, NEW u, NEW k \in Nat,
         priority'[p] = Lowest, allotment_used'[p] = u, u < config.allotments[Lowest],
         Charged(p)' = Above(Lowest) + k * config.allotments[Lowest] + u
  PROVE  LevelOf(p)'
<1>1. Lowest' = Lowest /\ Above(Lowest)' = Above(Lowest)
  BY AboveStays
<1>2. ~(priority'[p] < Lowest')
  BY <1>1
<1>3. allotment_used'[p] < config'.allotments[priority'[p]]
  OBVIOUS
<1>4. Charged(p)' = Above(Lowest)' + k * config'.allotments[Lowest'] + allotment_used'[p]
  BY <1>1
<1> QED
  BY <1>2, <1>3, <1>4, Zenon DEF LevelOf

\* A tick charges the time unit; the allotment it uses up costs a level.
LEMMA TickLevels ==
  ASSUME MLFQHistory, mlfq_demote \/ mlfq_requeue \/ mlfq_continue,
         \A p \in Active : LevelOf(p), NEW p \in Active'
  PROVE  LevelOf(p)'
<1> USE DEF MLFQHistory
<1>0. PICK r \in Procs : r = running_process
  BY DEF mlfq_demote, mlfq_requeue, mlfq_continue, policy_tick, MLFQInductive, EngineInv, TypeOK
<1>1. /\ pc = "tick" /\ pc' = "dispatch"
      /\ UNCHANGED << procs, running_process, gantt_log, config >>
  BY DEF mlfq_demote, mlfq_requeue, mlfq_continue, policy_tick, UseTick
<1>2. Active' = Active /\ p \in Procs /\ r \in Active
  BY <1>0, <1>1, ActiveFacts DEF Active, Ready, MLFQInductive
<1>3. /\ Lowest' = Lowest /\ \A l : Above(l)' = Above(l)
      /\ Above(Lowest)' = Above(Lowest)
  BY <1>1, AboveStays
<1>4. PICK l \in Levels : l = priority[r]
  BY DEF MLFQInductive, MLFQTypeOK
<1>5. PICK u \in Nat : u = allotment_used[r]
  BY DEF MLFQInductive, MLFQTypeOK
<1>6. PICK m \in Nat \ {0} : m = config.allotments[l]
  BY ConfigFacts DEF MLFQInductive, MLFQTypeOK
<1>7. /\ Levels = 0 .. Lowest /\ Lowest \in Nat /\ l \in 0 .. Lowest
      /\ Above(l) \in Nat /\ Above(Lowest) \in Nat
      /\ l < Lowest => l + 1 \in Levels /\ Above(l + 1) = Above(l) + m
      /\ \A i \in Levels : config.allotments[i] \in Nat \ {0}
  <2>1. Lowest \in Levels
    BY ConfigFacts DEF MLFQInductive, MLFQTypeOK
  <2> QED
    BY <1>6, <2>1, ConfigFacts, AboveSteps DEF MLFQInductive, MLFQTypeOK
<1>8. /\ u < m
      /\ l < Lowest => Charged(r) = Above(l) + u
      /\ l = Lowest => \E k \in Nat : Charged(r) = Above(Lowest) + k * m + u
  <2>1. LevelOf(r)
    BY <1>2
  <2>2. u < m
    BY <1>4, <1>5, <1>6, <2>1 DEF LevelOf
  <2>3. l < Lowest => Charged(r) = Above(l) + u
    BY <1>4, <1>5, <2>1 DEF LevelOf
  <2>4. ASSUME l = Lowest PROVE \E k \in Nat : Charged(r) = Above(Lowest) + k * m + u
    <3>1. ~(priority[r] < Lowest) /\ m = config.allotments[Lowest]
      BY <1>4, <1>6, <1>7, <2>4
    <3>2. \E k \in Nat :
            Charged(r) = Above(Lowest) + k * config.allotments[Lowest] + allotment_used[r]
      BY <2>1, <3>1, Zenon DEF LevelOf
    <3> QED
      BY <1>5, <3>1, <3>2
  <2> QED
    BY <2>2, <2>3, <2>4
<1>9. Charged(r)' = Charged(r) + 1 /\ Charged(r) \in Int
  <2>1. Cardinality(Ticks(r)) \in Nat /\ Ticks(r)' = Ticks(r)
    BY <1>1, TicksFinite, FS_CardinalityType DEF MLFQInductive, EngineInv, Ticks
  <2>2. Charged(r) = Cardinality(Ticks(r)) - 1 /\ Charged(r)' = Cardinality(Ticks(r)') - 0
    BY <1>0, <1>1 DEF Charged
  <2> QED
    BY <2>1, <2>2
<1>10. CASE p # r
  <2>1. priority'[p] = priority[p] /\ allotment_used'[p] = allotment_used[p]
    BY <1>0, <1>2, <1>10 DEF mlfq_demote, mlfq_requeue, mlfq_continue, UseAllotment,
       MLFQInductive, MLFQTypeOK
  <2>2. Charged(p)' = Charged(p)
    BY <1>0, <1>1, <1>10, ChargedSame DEF Uncharged, Ticks
  <2> QED
    BY <1>1, <1>2, <2>1, <2>2, SameLevel
<1>11. CASE p = r /\ mlfq_demote
  <2>1. u + 1 = m
    BY <1>0, <1>4, <1>5, <1>6, <1>8, <1>11 DEF mlfq_demote, AllotmentOver
  <2>2. allotment_used'[r] = 0 /\ priority'[r] = IF l < Lowest THEN l + 1 ELSE l
    BY <1>0, <1>4, <1>11 DEF mlfq_demote, MLFQInductive, MLFQTypeOK
  <2>3. CASE l < Lowest
    <3>1. Charged(r)' = Above(l + 1) + 0 /\ priority'[r] = l + 1 /\ 0 < config.allotments[l + 1]
      BY <1>7, <1>8, <1>9, <2>1, <2>2, <2>3
    <3>2. CASE l + 1 < Lowest
      BY <1>1, <1>3, <1>11, <2>2, <3>1, <3>2 DEF LevelOf
    <3>3. CASE l + 1 = Lowest
      <4>1. Charged(r)' = Above(Lowest) + 0 * config.allotments[Lowest] + 0
        BY <1>7, <3>1, <3>3
      <4> QED
        BY <1>1, <1>3, <1>7, <1>11, <2>2, <3>1, <3>3, <4>1, LevelAtTheBottom
    <3> QED
      BY <1>7, <2>3, <3>2, <3>3
  <2>4. CASE l = Lowest
    <3>1. PICK k \in Nat : Charged(r) = Above(Lowest) + k * m + u
      BY <1>8, <2>4
    <3>2. Charged(r)' = Above(Lowest) + (k + 1) * m + 0
      BY <1>7, <1>9, <2>1, <3>1, OneMore
    <3>3. PICK j \in Nat : j = k + 1
      OBVIOUS
    <3>4. 0 < config.allotments[Lowest] /\ priority'[r] = Lowest
      BY <1>6, <1>7, <2>2, <2>4
    <3>5. Charged(r)' = Above(Lowest) + j * config.allotments[Lowest] + 0
      BY <1>6, <2>4, <3>2, <3>3, Zenon
    <3> QED
      BY <1>1, <1>7, <1>11, <2>2, <3>4, <3>5, LevelAtTheBottom
  <2> QED
    BY <1>7, <2>3, <2>4
<1>12. CASE p = r /\ ~mlfq_demote
  <2>1. u + 1 < m
    <3>1. ~AllotmentOver
      BY <1>12 DEF mlfq_requeue, mlfq_continue
    <3>2. ~(u + 1 >= m)
      BY <1>0, <1>4, <1>5, <1>6, <3>1 DEF AllotmentOver
    <3> QED
      BY <3>2
  <2>2. allotment_used'[r] = u + 1 /\ priority'[r] = l
    BY <1>0, <1>4, <1>5, <1>12 DEF mlfq_requeue, mlfq_continue, UseAllotment, MLFQInductive,
       MLFQTypeOK
  <2>3. CASE l < Lowest
    <3>1. Charged(r)' = Above(l) + (u + 1)
      BY <1>7, <1>8, <1>9, <2>3
    <3> QED
      BY <1>1, <1>3, <1>6, <1>12, <2>1, <2>2, <2>3, <3>1 DEF LevelOf
  <2>4. CASE l = Lowest
    <3>1. PICK k \in Nat : Charged(r) = Above(Lowest) + k * m + u
      BY <1>8, <2>4
    <3>2. Charged(r)' = Above(Lowest) + k * m + (u + 1)
      BY <1>7, <1>9, <3>1, OneMore
    <3> QED
      BY <1>1, <1>3, <1>6, <1>7, <1>12, <2>1, <2>2, <2>4, <3>2, LevelAtTheBottom
  <2> QED
    BY <1>7, <2>3, <2>4
<1> QED
  BY <1>10, <1>11, <1>12

MLFQLevels == MLFQHistory /\ WorkKept /\ TimerBehind /\ LevelKept

LEMMA MLFQLevelsInit == MLFQInit => MLFQLevels
<1> SUFFICES ASSUME MLFQInit PROVE TimerBehind /\ LevelKept
  BY MLFQHistoryInit, WorkInit DEF MLFQInit, MLFQLevels
<1>1. \A p \in Procs : procs[p].state = "NOT_ARRIVED"
  BY ParsedProcess DEF MLFQInit, Init, Workloads
<1>2. Active = {}
  BY <1>1 DEF Active, Ready, MLFQInit, Init
<1> QED
  BY <1>2 DEF TimerBehind, LevelKept, MLFQInit

LEMMA LevelsStep ==
  MLFQLevels /\ MLFQHistory' /\ [MLFQNext]_<< vars, mlfqVars >> => LevelKept'
<1> SUFFICES ASSUME MLFQLevels, MLFQHistory', [MLFQNext]_<< vars, mlfqVars >>
             PROVE  LevelKept'
  OBVIOUS
<1> USE DEF MLFQLevels
<1>1. EngineInv /\ EngineInv' /\ [Next]_vars
  BY MLFQStepIsEngineStep DEF MLFQHistory, MLFQInductive
<1>2. config' = config
  BY DEF MLFQNext, mlfqVars, mlfq_on_init, mlfq_on_arrival, mlfq_on_tick, mlfq_boost, mlfq_demote,
     mlfq_requeue, mlfq_continue, UseTick, mlfq_next_process, mlfq_dispatch, mlfq_dispatch_none,
     mlfq_on_finish
<1> SUFFICES ASSUME NEW end, OneAfterTheOther(end), end[NumProcs] < config.boost_period,
                    \A p \in Active : LevelOf(p), NEW p \in Active'
             PROVE  LevelOf(p)'
  BY <1>1, <1>2, LevelsStay
<1>3. ASSUME UNCHANGED << priority, allotment_used >>, p \in Active, Charged(p)' = Charged(p)
      PROVE  LevelOf(p)'
  BY <1>2, <1>3, SameLevel
<1>4. CASE Mechanism /\ UNCHANGED mlfqVars
  BY <1>1, <1>3, <1>4, StagesCharge DEF mlfqVars
<1>5. CASE mlfq_on_init
  <2>1. running_process' = running_process /\ running_process = NULL
        /\ UNCHANGED << procs, gantt_log, priority, allotment_used >>
    BY <1>1, <1>5 DEF mlfq_on_init, on_init, EngineInv, CPUWellUsed
  <2>2. p \in Active /\ p # NULL
    BY <2>1 DEF Active, Ready
  <2> QED
    BY <1>3, <2>1, <2>2, ChargedSame DEF Uncharged, Ticks
<1>6. CASE mlfq_on_arrival
  BY <1>6, ArrivalLevels
<1>7. CASE mlfq_on_tick
  <2>1. ~mlfq_boost
    BY <1>7, NoBoost DEF mlfq_on_tick, mlfq_boost, policy_tick
  <2> QED
    BY <1>7, <2>1, TickLevels DEF mlfq_on_tick
<1>8. CASE mlfq_next_process
  <2>1. PICK next \in Procs \cup {NULL} : MayReturn(next) /\ handle_dispatch(next)
    BY <1>8, DispatchKeeps, DispatchNoneKeeps
       DEF mlfq_next_process, mlfq_dispatch, mlfq_dispatch_none, MLFQHistory
  <2>2. UNCHANGED << priority, allotment_used >>
    BY <1>8 DEF mlfq_next_process, mlfq_dispatch, mlfq_dispatch_none, mlfqVars
  <2>3. /\ pc = "dispatch" /\ pc' = "execute" /\ gantt_log' = gantt_log
        /\ running_process' = next
    BY <2>1 DEF handle_dispatch
  <2>4. \A q \in Procs : procs'[q].state = IF q = next THEN "RUNNING"
                                           ELSE IF q = running_process THEN "READY"
                                           ELSE procs[q].state
    BY <1>1, <2>1, DispatchEffect
  <2>5. p \in Active
    <3>1. p \in Procs /\ (p = next \/ procs'[p].state = "READY")
      BY <2>1, <2>3 DEF Active, Ready
    <3>2. p = next => p \in Candidates
      BY <2>1, <3>1 DEF MayReturn
    <3> QED
      BY <2>4, <3>1, <3>2 DEF Active, Ready, Candidates
  <2> QED
    BY <1>3, <2>2, <2>3, <2>5, ChargedSame DEF Uncharged, Ticks
<1>9. CASE mlfq_on_finish
  <2>1. /\ UNCHANGED << procs, running_process, gantt_log, priority, allotment_used >>
        /\ pc = "finish" /\ pc' = "done"
    BY <1>9 DEF mlfq_on_finish, on_finish
  <2> QED
    BY <1>3, <2>1, ChargedSame DEF Uncharged, Ticks, Active, Ready
<1>10. CASE UNCHANGED << vars, mlfqVars >>
  <2>1. UNCHANGED << procs, running_process, gantt_log, pc, priority, allotment_used >>
    BY <1>10 DEF vars, mlfqVars
  <2> QED
    BY <1>3, <2>1, ChargedSame DEF Uncharged, Ticks, Active, Ready
<1> QED
  BY <1>4, <1>5, <1>6, <1>7, <1>8, <1>9, <1>10 DEF MLFQNext

LEMMA MLFQLevelsStep == MLFQLevels /\ [MLFQNext]_<< vars, mlfqVars >> => MLFQLevels'
<1> SUFFICES ASSUME MLFQLevels, [MLFQNext]_<< vars, mlfqVars >> PROVE MLFQLevels'
  OBVIOUS
<1>1. MLFQHistory' /\ [Next]_vars
  BY MLFQHistoryStep, MLFQStepIsEngineStep DEF MLFQLevels, MLFQHistory
<1>2. WorkKept'
  BY <1>1, WorkStep DEF MLFQLevels, MLFQHistory, History
<1>3. TimerBehind'
  BY TimerStays DEF MLFQLevels
<1>4. LevelKept'
  BY <1>1, LevelsStep
<1> QED
  BY <1>1, <1>2, <1>3, <1>4 DEF MLFQLevels

(***************************************************************************)
(* LevelFollowsCPUTime, rule 4: where no boost comes in between, the level *)
(* of a process and what it has used of its allotment are a function of    *)
(* its CPU time, however arrivals, quanta and preemptions cut that up.     *)
(***************************************************************************)
THEOREM LevelsFollowTheCPU == MLFQSpec => []LevelFollowsCPUTime
<1>1. MLFQLevels => LevelFollowsCPUTime
  <2> SUFFICES ASSUME MLFQLevels, config.boost_period > Makespan, NEW p \in Active
               PROVE  /\ Above(priority[p]) <= Charged(p)
                      /\ allotment_used[p] < config.allotments[priority[p]]
                      /\ IF priority[p] < Lowest
                           THEN allotment_used[p] = Charged(p) - Above(priority[p])
                           ELSE allotment_used[p] = (Charged(p) - Above(Lowest))
                                                      % config.allotments[Lowest]
    BY DEF LevelFollowsCPUTime, Active
  <2> USE DEF MLFQLevels, MLFQHistory
  <2>1. PICK end : OneAfterTheOther(end) /\ Makespan = end[NumProcs]
    BY MakespanSteps DEF MLFQInductive, EngineInv
  <2>2. Makespan \in Nat /\ config.boost_period \in Nat
    BY <2>1, NumProcsAssumption, ConfigFacts DEF OneAfterTheOther, MLFQInductive, MLFQTypeOK
  <2>3. LevelOf(p)
    BY <2>1, <2>2 DEF LevelKept
  <2>4. p \in Procs
    BY ActiveFacts DEF MLFQInductive
  <2>5. PICK l \in Levels : l = priority[p]
    BY <2>4 DEF MLFQInductive, MLFQTypeOK
  <2>6. PICK u \in Nat : u = allotment_used[p]
    BY <2>4 DEF MLFQInductive, MLFQTypeOK
  <2>7. /\ Lowest \in Nat /\ l \in 0 .. Lowest
        /\ Above(l) \in Nat /\ Above(Lowest) \in Nat
        /\ config.allotments[Lowest] \in Nat \ {0}
    BY ConfigFacts, AboveSteps DEF MLFQInductive, MLFQTypeOK
  <2>8. CASE l < Lowest
    <3>1. Charged(p) = Above(l) + u /\ u < config.allotments[l]
      BY <2>3, <2>5, <2>6, <2>8 DEF LevelOf
    <3> QED
      BY <2>5, <2>6, <2>7, <2>8, <3>1
  <2>9. CASE l = Lowest
    <3>1. ~(priority[p] < Lowest)
      BY <2>5, <2>7, <2>9
    <3>2. PICK m \in Nat \ {0} : m = config.allotments[Lowest]
      BY <2>7
    <3>3. PICK k \in Nat : Charged(p) = Above(Lowest) + k * config.allotments[Lowest] + allotment_used[p]
      BY <2>3, <3>1, Zenon DEF LevelOf
    <3>4. u < m
      BY <2>3, <2>5, <2>6, <2>9, <3>2 DEF LevelOf
    <3>5. PICK w \in Nat : w = k * m
      BY <3>2
    <3>6. Charged(p) = Above(Lowest) + w + u /\ (w + u) % m = u
      BY <2>6, <3>2, <3>3, <3>4, <3>5, Remainder
    <3>7. Charged(p) - Above(Lowest) = w + u /\ Above(Lowest) <= Charged(p)
      BY <2>7, <3>6
    <3> QED
      BY <2>5, <2>6, <2>9, <3>1, <3>2, <3>4, <3>6, <3>7
  <2> QED
    BY <2>7, <2>8, <2>9
<1> QED
  BY <1>1, MLFQLevelsInit, MLFQLevelsStep, PTL DEF MLFQSpec
=============================================================================
