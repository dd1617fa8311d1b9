----------------------------- MODULE RoundRobin -----------------------------
(***************************************************************************)
(* The Round Robin policy, src/algorithms/rr.c, with the ready queue of    *)
(* src/utils/queue.c as a sequence, head first.                            *)
(***************************************************************************)
EXTENDS Engine

CONSTANT Quanta   \* the values of --quantum; 0 when the flag is not given

ASSUME QuantaAssumption == Quanta \subseteq Nat

VARIABLES
  quantum,          \* config.quantum
  ready_queue,      \* RRState.ready_queue
  current_quantum   \* RRState.current_quantum

rrVars == << quantum, ready_queue, current_quantum >>

\* Mutant: a stack.
enqueue_front(p) == ready_queue' = << p >> \o ready_queue

enqueue(p) == ready_queue' = Append(ready_queue, p)

is_empty == ready_queue = << >>

\* dequeue returns NULL on an empty queue and leaves it empty.
DequeuedProcess == IF is_empty THEN NULL ELSE Head(ready_queue)
dequeue == ready_queue' = IF is_empty THEN ready_queue ELSE Tail(ready_queue)

RRInit ==
  /\ Init
  /\ quantum \in Quanta
  /\ ready_queue = << >>
  /\ current_quantum = 0

rr_on_init ==
  /\ on_init
  /\ ready_queue' = << >>
  /\ current_quantum' = quantum
  /\ UNCHANGED quantum

rr_on_arrival ==
  /\ arrive(FALSE)
  /\ enqueue(next_arrival_idx + 1)
  /\ UNCHANGED << quantum, current_quantum >>

rr_next_process ==
  /\ handle_dispatch(DequeuedProcess)
  /\ dequeue
  /\ current_quantum' = IF DequeuedProcess # NULL THEN quantum ELSE current_quantum
  /\ UNCHANGED quantum

\* Mutant: < for <=.
SliceOver_late ==
  /\ current_quantum - 1 < 0
  /\ procs[running_process].remaining_time > 0

\* The condition under which rr_on_tick ends the time slice.
SliceOver ==
  /\ current_quantum - 1 <= 0
  /\ procs[running_process].remaining_time > 0

\* Mutants: the process is queued at every tick; it is not queued at all.
requeue_always == enqueue(running_process)
requeue_lost == UNCHANGED ready_queue

requeue == IF SliceOver THEN enqueue(running_process) ELSE UNCHANGED ready_queue

rr_on_tick ==
  /\ policy_tick(SliceOver)
  /\ current_quantum' = current_quantum - 1
  /\ requeue
  /\ UNCHANGED quantum

\* queue_free dequeues until the queue is empty.
rr_on_finish ==
  /\ on_finish
  /\ ready_queue' = << >>
  /\ UNCHANGED << quantum, current_quantum >>

RRNext ==
  \/ Mechanism /\ UNCHANGED rrVars
  \/ rr_on_init
  \/ rr_on_arrival
  \/ rr_on_tick
  \/ rr_next_process
  \/ rr_on_finish

RRSpec == RRInit /\ [][RRNext]_<< vars, rrVars >> /\ WF_<< vars, rrVars >>(RRNext)
-----------------------------------------------------------------------------
RRTypeOK ==
  /\ quantum \in Quanta
  /\ ready_queue \in Seq(Procs)
  /\ current_quantum \in Int

\* The processes that stand in the queue.
Queued == {ready_queue[i] : i \in 1 .. Len(ready_queue)}

(***************************************************************************)
(* The queue and the process states, which rr.c and scheduler.c update     *)
(* separately, never lose or duplicate a process: the queue holds, once    *)
(* each, the READY processes, and between the end of a slice and the       *)
(* dispatch that follows it also the process that still runs.              *)
(***************************************************************************)
QueueHoldsReady ==
  /\ \A i, j \in 1 .. Len(ready_queue) : ready_queue[i] = ready_queue[j] => i = j
  /\ Queued = {p \in Procs : procs[p].state = "READY"}
                \cup (IF preempt_requested THEN {running_process} ELSE {})

RRInv == RRTypeOK /\ QueueHoldsReady

\* The policy keeps the contract of the engine, so the engine's results hold for it.
ImplementsEngine == Spec

\* The last time unit logged for p, 0 if there is none.
LastTick(p) ==
  IF Ticks(p) = {} THEN 0 ELSE CHOOSE t \in Ticks(p) : \A u \in Ticks(p) : u <= t

\* When p last joined the queue: on arrival, or at the end of its last time unit.
JoinTime(p) == IF Ticks(p) = {} THEN procs[p].arrival_time ELSE LastTick(p)

(***************************************************************************)
(* docs/design-notes.md:127.  The queue is in the order in which the       *)
(* processes joined it, and a process that arrives in the time unit in     *)
(* which a slice ends is ahead of the one whose slice it was: stage 2      *)
(* comes before stage 3.                                                   *)
(***************************************************************************)
ArrivalsAheadOfPreempted ==
  \A i, j \in 1 .. Len(ready_queue) : i < j =>
    LET p == ready_queue[i]
        q == ready_queue[j]
    IN  \/ JoinTime(p) < JoinTime(q)
        \/ JoinTime(p) = JoinTime(q) /\ Ticks(p) = {}

\* The length of a time slice: a quantum of 0 still runs a process for one unit.
Slice == IF quantum = 0 THEN 1 ELSE quantum

(***************************************************************************)
(* Fairness of rr.c: a READY process waits at most one slice for each of   *)
(* the other processes, from the moment it joined the queue.               *)
(***************************************************************************)
BoundedWait ==
  \A p \in Procs : procs[p].state = "READY" =>
    current_time - JoinTime(p) <= (NumProcs - 1) * Slice

(***************************************************************************)
(* No process keeps the CPU beyond its slice while another one waits: of   *)
(* the last Slice + 1 time units some unit was not its own, unless the     *)
(* process it would yield to arrived only since.                           *)
(***************************************************************************)
SliceRespected ==
  pc = "execute" /\ running_process # NULL =>
    \A p \in Procs :
      procs[p].state = "READY" /\ JoinTime(p) <= current_time - Slice =>
        \E t \in current_time - Slice + 1 .. current_time :
          gantt_log[t] # running_process
=============================================================================
