---------------------------- MODULE Uniprocessor ----------------------------
(***************************************************************************)
(* What a simulation promises, without its stages, states or policy: the   *)
(* schedule of one CPU.  In each time unit the CPU serves one process that *)
(* has arrived and not finished, and idles only when there is none; a      *)
(* process with no work to do costs one time unit in which nothing is      *)
(* served, and counts as finished at the beginning of it.                  *)
(***************************************************************************)
EXTENDS Integers

CONSTANT Procs

VARIABLES
  arrival,  \* when each process arrives; never changes
  burst,    \* the work each process brings; never changes
  clock,    \* the time units elapsed
  served,   \* the units each process has been served
  finish    \* when each process finished, -1 if it has not

vars == << arrival, burst, clock, served, finish >>

Init ==
  /\ arrival \in [Procs -> Nat]
  /\ burst \in [Procs -> Nat]
  /\ clock = 0
  /\ served = [p \in Procs |-> 0]
  /\ finish = [p \in Procs |-> -1]

Waiting == {p \in Procs : arrival[p] <= clock /\ finish[p] = -1}

\* p has the CPU for one time unit, and finishes with it if that was its last.
Serve(p) ==
  /\ p \in Waiting
  /\ served[p] < burst[p]
  /\ served' = [served EXCEPT ![p] = @ + 1]
  /\ finish' = IF served[p] + 1 = burst[p] THEN [finish EXCEPT ![p] = clock + 1] ELSE finish
  /\ clock' = clock + 1
  /\ UNCHANGED << arrival, burst >>

Pass(p) ==
  /\ p \in Waiting
  /\ burst[p] = 0
  /\ finish' = [finish EXCEPT ![p] = clock]
  /\ clock' = clock + 1
  /\ UNCHANGED << arrival, burst, served >>

Idle ==
  /\ Waiting = {}
  /\ \E p \in Procs : finish[p] = -1
  /\ clock' = clock + 1
  /\ UNCHANGED << arrival, burst, served, finish >>

Next == (\E p \in Procs : Serve(p) \/ Pass(p)) \/ Idle

SafetySpec == Init /\ [][Next]_vars

Spec == SafetySpec /\ WF_vars(Next)
=============================================================================
