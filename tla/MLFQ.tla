-------------------------------- MODULE MLFQ --------------------------------
(***************************************************************************)
(* The Multi-Level Feedback Queue policy, src/algorithms/mlfq.c.  Queue 0  *)
(* has the highest priority; each queue is a sequence, head first.         *)
(***************************************************************************)
EXTENDS Engine

CONSTANT Configs   \* the configurations parse_mlfq_config may produce

\* What parse_mlfq_config guarantees of the configuration it fills in.
ASSUME ConfigsAssumption ==
  \A c \in Configs :
    /\ c.num_queues \in Nat \ {0}
    /\ c.quantums \in [0 .. c.num_queues - 1 -> Nat \ {0}]
    /\ c.allotments \in [0 .. c.num_queues - 1 -> Nat \ {0}]
    /\ c.boost_period \in Nat \ {0}

VARIABLES
  config,            \* config.mlfq_config
  queues,            \* MLFQState.queues
  boost_timer,       \* MLFQState.boost_timer
  current_quantum,   \* MLFQState.current_quantum
  priority,          \* Process.priority, of each process
  allotment_used     \* Process.allotment_used, of each process

mlfqVars == << config, queues, boost_timer, current_quantum, priority, allotment_used >>

Levels == 0 .. config.num_queues - 1
Lowest == config.num_queues - 1

\* The processes that stand in queue l.
InQueue(l) == {queues[l][i] : i \in 1 .. Len(queues[l])}

\* Mutant: the process joins no queue.
enqueue_lost(l, p) == UNCHANGED queues

enqueue(l, p) == queues' = [queues EXCEPT ![l] = Append(@, p)]

MLFQInit ==
  /\ Init
  /\ config \in Configs
  /\ queues = [l \in Levels |-> << >>]
  /\ boost_timer = 0
  /\ current_quantum = 0
  /\ priority = [p \in Procs |-> 0]
  /\ allotment_used = [p \in Procs |-> 0]

mlfq_on_init ==
  /\ on_init
  /\ queues' = [l \in Levels |-> << >>]
  /\ boost_timer' = 0
  /\ current_quantum' = 0
  /\ UNCHANGED << config, priority, allotment_used >>

\* Mutant: an arrival never preempts.
ArrivalPreempts_never == FALSE

ArrivalPreempts == running_process # NULL /\ 0 < priority[running_process]

\* Rule 3, and the preemption of a running process of lower priority.
mlfq_on_arrival ==
  LET p == next_arrival_idx + 1
  IN  /\ arrive(ArrivalPreempts)
      /\ priority' = [priority EXCEPT ![p] = 0]
      /\ allotment_used' = [allotment_used EXCEPT ![p] = 0]
      /\ enqueue(0, p)
      /\ UNCHANGED << config, boost_timer, current_quantum >>

BoostDue == boost_timer + 1 >= config.boost_period

\* The queues from level 0 down, one after the other.
AllQueues ==
  LET upto[l \in Levels] == IF l = 0 THEN queues[0] ELSE upto[l - 1] \o queues[l]
  IN  upto[Lowest]

\* Mutant: the running process keeps its priority.
Lifted_queued == UNION {InQueue(l) : l \in Levels \ {0}}

\* The processes whose priority a boost sets.
Lifted == (UNION {InQueue(l) : l \in Levels \ {0}}) \cup {running_process}

\* Mutant: the processes of queue 0 keep what they used of their allotment.
Forgiven_lifted == Lifted

Forgiven == Lifted \cup InQueue(0)

\* Rule 5: every queued process joins queue 0, and the running one joins it last.
mlfq_boost ==
  /\ BoostDue
  /\ policy_tick(TRUE)
  /\ queues' = [l \in Levels |-> IF l = 0 THEN Append(AllQueues, running_process) ELSE << >>]
  /\ priority' = [p \in Procs |-> IF p \in Lifted THEN 0 ELSE priority[p]]
  /\ allotment_used' = [p \in Procs |-> IF p \in Forgiven THEN 0 ELSE allotment_used[p]]
  /\ boost_timer' = 0
  /\ UNCHANGED << config, current_quantum >>

AllotmentOver ==
  allotment_used[running_process] + 1 >= config.allotments[priority[running_process]]

\* Mutant: < for <=.
QuantumOver_late == current_quantum - 1 < 0

QuantumOver == current_quantum - 1 <= 0

\* The tick of a process that is not boosted: it has used one more time unit.
UseTick ==
  /\ ~BoostDue
  /\ boost_timer' = boost_timer + 1
  /\ current_quantum' = current_quantum - 1
  /\ UNCHANGED config

\* Rule 4: an exhausted allotment costs a level, except at the lowest.
mlfq_demote ==
  LET level == IF priority[running_process] < Lowest THEN priority[running_process] + 1
               ELSE priority[running_process]
  IN  /\ policy_tick(TRUE)
      /\ UseTick
      /\ AllotmentOver
      /\ priority' = [priority EXCEPT ![running_process] = level]
      /\ allotment_used' = [allotment_used EXCEPT ![running_process] = 0]
      /\ enqueue(level, running_process)

\* Mutant: a process that yields starts a new allotment.
UseAllotment_forgiven ==
  allotment_used' = [allotment_used EXCEPT ![running_process] =
                       IF QuantumOver \/ preempt_requested THEN 0 ELSE @ + 1]

UseAllotment == allotment_used' = [allotment_used EXCEPT ![running_process] = @ + 1]

\* Rule 2, or an arrival of higher priority: back to the end of the same queue.
mlfq_requeue ==
  /\ policy_tick(TRUE)
  /\ UseTick
  /\ ~AllotmentOver
  /\ QuantumOver \/ preempt_requested
  /\ UseAllotment
  /\ enqueue(priority[running_process], running_process)
  /\ UNCHANGED priority

mlfq_continue ==
  /\ policy_tick(FALSE)
  /\ UseTick
  /\ ~AllotmentOver
  /\ ~QuantumOver /\ ~preempt_requested
  /\ UseAllotment
  /\ UNCHANGED << queues, priority >>

\* The head of the first queue that has one, with a fresh quantum.
mlfq_dispatch(l) ==
  /\ queues[l] # << >>
  /\ \A k \in Levels : k < l => queues[k] = << >>
  /\ handle_dispatch(Head(queues[l]))
  /\ queues' = [queues EXCEPT ![l] = Tail(@)]
  /\ current_quantum' = config.quantums[l]
  /\ UNCHANGED << config, boost_timer, priority, allotment_used >>

mlfq_dispatch_none ==
  /\ \A l \in Levels : queues[l] = << >>
  /\ handle_dispatch(NULL)
  /\ UNCHANGED mlfqVars

mlfq_on_finish ==
  /\ on_finish
  /\ queues' = [l \in Levels |-> << >>]
  /\ UNCHANGED << config, boost_timer, current_quantum, priority, allotment_used >>

mlfq_on_tick == mlfq_boost \/ mlfq_demote \/ mlfq_requeue \/ mlfq_continue

mlfq_next_process == (\E l \in Levels : mlfq_dispatch(l)) \/ mlfq_dispatch_none

MLFQNext ==
  \/ Mechanism /\ UNCHANGED mlfqVars
  \/ mlfq_on_init
  \/ mlfq_on_arrival
  \/ mlfq_on_tick
  \/ mlfq_next_process
  \/ mlfq_on_finish

MLFQSpec == MLFQInit /\ [][MLFQNext]_<< vars, mlfqVars >> /\ WF_<< vars, mlfqVars >>(MLFQNext)
-----------------------------------------------------------------------------
MLFQTypeOK ==
  /\ config \in Configs
  /\ queues \in [Levels -> Seq(Procs)]
  /\ boost_timer \in 0 .. config.boost_period
  /\ current_quantum \in Int
  /\ priority \in [Procs -> Levels]
  /\ allotment_used \in [Procs -> Nat]

Ready == {p \in Procs : procs[p].state = "READY"}

(***************************************************************************)
(* The queues, the priority fields and the process states are updated at   *)
(* different places (arrival, four ways to end a tick, dispatch), and stay *)
(* in step: every READY process stands in exactly one queue, once, the one *)
(* of its priority; the running process stands in a queue only between the *)
(* tick that preempts it and the dispatch.  Nobody is lost or doubled.     *)
(***************************************************************************)
Slots == UNION {{<< l, i >> : i \in 1 .. Len(queues[l])} : l \in Levels}

QueuesPartitionReady ==
  /\ \A a, b \in Slots : queues[a[1]][a[2]] = queues[b[1]][b[2]] => a = b
  /\ \A a \in Slots : priority[queues[a[1]][a[2]]] = a[1]
  /\ UNION {InQueue(l) : l \in Levels}
       = Ready \cup (IF preempt_requested /\ pc = "dispatch" THEN {running_process} ELSE {})

MLFQInv == MLFQTypeOK /\ QueuesPartitionReady

(***************************************************************************)
(* Rule 1, docs/design-notes.md:139: whenever a time unit is executed, no  *)
(* READY process has a higher priority than the one on the CPU, although   *)
(* only arrivals, allotments, quanta and boosts ever ask for a preemption. *)
(***************************************************************************)
HighestPriorityRuns ==
  pc = "execute" /\ running_process # NULL =>
    \A p \in Ready : priority[running_process] <= priority[p]

\* The CPU time of p that its ticks have charged: a unit is charged at the next tick.
Charged(p) ==
  Cardinality(Ticks(p))
    - (IF p = running_process /\ pc \in {"completion", "arrival", "tick"} THEN 1 ELSE 0)

\* The allotments of the levels above level l.
Above(l) ==
  LET sum[k \in Levels] == IF k = 0 THEN 0 ELSE sum[k - 1] + config.allotments[k - 1]
  IN  sum[l]

(***************************************************************************)
(* Rule 4, docs/design-notes.md:142: where no boost comes in between, the  *)
(* level of a process and what is left of its allotment are a function of  *)
(* the CPU time it has used, however that time was cut up by arrivals,     *)
(* quanta and fresh quanta after a preemption.                             *)
(***************************************************************************)
LevelFollowsCPUTime ==
  config.boost_period > Makespan =>
    \A p \in Ready \cup ({running_process} \ {NULL}) :
      /\ Above(priority[p]) <= Charged(p)
      /\ allotment_used[p] < config.allotments[priority[p]]
      /\ IF priority[p] < Lowest
           THEN allotment_used[p] = Charged(p) - Above(priority[p])
           ELSE allotment_used[p] = (Charged(p) - Above(Lowest)) % config.allotments[Lowest]

(***************************************************************************)
(* Rule 5, tests/README.md:189: a boost leaves every process that has      *)
(* arrived and not finished, the running one included, in queue 0 with its *)
(* allotment unused.                                                       *)
(***************************************************************************)
BoostLiftsEveryProcess ==
  [][ pc = "tick" /\ running_process # NULL /\ BoostDue =>
        \A p \in Ready \cup {running_process} :
          priority'[p] = 0 /\ allotment_used'[p] = 0 /\ p \in InQueue(0)' ]_<< vars, mlfqVars >>

\* The last time unit logged for p, 0 if there is none.
LastTick(p) ==
  IF Ticks(p) = {} THEN 0 ELSE CHOOSE t \in Ticks(p) : \A u \in Ticks(p) : u <= t

(***************************************************************************)
(* Rule 2, docs/design-notes.md:140: a process that shares its level with  *)
(* one that has waited for a whole quantum of that level has not had the   *)
(* CPU for all of it.                                                      *)
(***************************************************************************)
QuantumShared ==
  pc = "execute" /\ running_process # NULL =>
    LET q == config.quantums[priority[running_process]]
    IN  \A p \in Ready :
          /\ priority[p] = priority[running_process]
          /\ procs[p].arrival_time + q <= current_time
          /\ LastTick(p) + q <= current_time
          => \E t \in current_time - q + 1 .. current_time : gantt_log[t] # running_process

\* The policy keeps the contract of the engine, so the engine's results hold for it.
ImplementsEngine == Spec

(***************************************************************************)
(* docs/mlfq_design.md:137, "No process starves for more than 50 time      *)
(* units", 50 being the boost period: a process below queue 0 has run, or  *)
(* been boosted, within the last boost period.  Not so in the code, where  *)
(* the boost timer advances only in a tick with a process on the CPU: it   *)
(* stands still in each time unit that begins with a completion.           *)
(***************************************************************************)
NoStarvation ==
  \A p \in Ready : priority[p] > 0 => current_time - LastTick(p) <= config.boost_period
=============================================================================
