-------------------------------- MODULE Queue --------------------------------
(***************************************************************************)
(* The ready queue of src/utils/queue.c: a linked list of allocated nodes  *)
(* with a pointer to each end and a count.  mlfq.c has a copy of it that   *)
(* keeps no count.                                                         *)
(***************************************************************************)
EXTENDS Integers, Sequences

CONSTANTS
  Procs,    \* the processes that are queued
  Nodes,    \* the addresses malloc can return
  NULL

ASSUME QueueAssumption == NULL \notin Procs /\ NULL \notin Nodes

VARIABLES
  head, tail, size,   \* the fields of Queue
  process, next,      \* the fields of every QueueNode, allocated or not
  allocated,          \* the nodes malloc returned and free did not take back
  answer,             \* what the last call of dequeue returned
  order,              \* history: the nodes in the queue, oldest first
  pc                  \* "ready", within queue_free: "freeing", "freed", "exited"

vars == << head, tail, size, process, next, allocated, answer, order, pc >>

\* queue_init.  The memory that malloc will return holds any values.
queue_init ==
  /\ head = NULL
  /\ tail = NULL
  /\ size = 0
  /\ process \in [Nodes -> Procs \cup {NULL}]
  /\ next \in [Nodes -> Nodes \cup {NULL}]
  /\ allocated = {}
  /\ answer = NULL
  /\ order = << >>
  /\ pc = "ready"
-----------------------------------------------------------------------------
\* Mutant: the old last node is not linked to the new one.
Linked_lost(node) == [next EXCEPT ![node] = NULL]

\* The next fields after node is linked at the end.
Linked(node) ==
  IF tail = NULL THEN [next EXCEPT ![node] = NULL]
  ELSE [next EXCEPT ![node] = NULL, ![tail] = node]

enqueue(p) ==
  /\ pc = "ready"
  /\ \E node \in Nodes \ allocated :
       /\ allocated' = allocated \cup {node}
       /\ process' = [process EXCEPT ![node] = p]
       /\ next' = Linked(node)
       /\ head' = IF tail = NULL THEN node ELSE head
       /\ tail' = node
       /\ order' = Append(order, node)
  /\ size' = size + 1
  /\ UNCHANGED << answer, pc >>

\* malloc fails: exit(1).
enqueue_exit ==
  /\ pc = "ready"
  /\ pc' = "exited"
  /\ UNCHANGED << head, tail, size, process, next, allocated, answer, order >>

\* Mutants: tail is left behind; the count is kept.
Removed_dangling ==
  /\ head # NULL
  /\ answer' = process[head]
  /\ head' = next[head]
  /\ allocated' = allocated \ {head}
  /\ size' = size - 1
  /\ order' = Tail(order)
  /\ UNCHANGED << tail, process, next >>

Removed_uncounted ==
  /\ head # NULL
  /\ answer' = process[head]
  /\ head' = next[head]
  /\ tail' = IF next[head] = NULL THEN NULL ELSE tail
  /\ allocated' = allocated \ {head}
  /\ order' = Tail(order)
  /\ UNCHANGED << size, process, next >>

\* dequeue takes the node at head out of the list and frees it.
Removed ==
  /\ head # NULL
  /\ answer' = process[head]
  /\ head' = next[head]
  /\ tail' = IF next[head] = NULL THEN NULL ELSE tail
  /\ allocated' = allocated \ {head}
  /\ size' = size - 1
  /\ order' = Tail(order)
  /\ UNCHANGED << process, next >>

\* dequeue on an empty list
NothingRemoved ==
  /\ head = NULL
  /\ answer' = NULL
  /\ UNCHANGED << head, tail, size, process, next, allocated, order >>

dequeue == pc = "ready" /\ (Removed \/ NothingRemoved) /\ UNCHANGED pc

is_empty == size = 0

queue_free ==
  /\ pc = "ready"
  /\ pc' = "freeing"
  /\ UNCHANGED << head, tail, size, process, next, allocated, answer, order >>

\* One iteration of the loop of queue_free.
queue_free_node ==
  /\ pc = "freeing"
  /\ ~is_empty
  /\ Removed \/ NothingRemoved
  /\ UNCHANGED pc

queue_free_return ==
  /\ pc = "freeing"
  /\ is_empty
  /\ pc' = "freed"
  /\ UNCHANGED << head, tail, size, process, next, allocated, answer, order >>

\* The queue is not used any more.
ended == pc \in {"freed", "exited"} /\ UNCHANGED vars

Next ==
  \/ \E p \in Procs : enqueue(p)
  \/ enqueue_exit
  \/ dequeue
  \/ queue_free
  \/ queue_free_node
  \/ queue_free_return
  \/ ended

Spec == queue_init /\ [][Next]_vars /\ WF_vars(queue_free_node \/ queue_free_return)
-----------------------------------------------------------------------------
QueueTypeOK ==
  /\ {head, tail} \subseteq Nodes \cup {NULL}
  /\ size \in Nat
  /\ process \in [Nodes -> Procs \cup {NULL}]
  /\ next \in [Nodes -> Nodes \cup {NULL}]
  /\ allocated \subseteq Nodes
  /\ answer \in Procs \cup {NULL}
  /\ order \in Seq(Nodes)
  /\ pc \in {"ready", "freeing", "freed", "exited"}

(***************************************************************************)
(* queue.c:40-43.  The list, followed from head, is the nodes in the order *)
(* in which they were queued; tail is its last node, so that neither it    *)
(* nor any link points to freed memory.                                    *)
(***************************************************************************)
ListInOrder ==
  /\ IF order = << >> THEN head = NULL /\ tail = NULL
     ELSE head = order[1] /\ tail = order[Len(order)] /\ next[tail] = NULL
  /\ \A i \in 1 .. Len(order) - 1 : next[order[i]] = order[i + 1]

(***************************************************************************)
(* The nodes of the list, each in it once, are those allocated: none leaks *)
(* and none is used after it was freed, also when malloc hands out its     *)
(* address again.                                                          *)
(***************************************************************************)
ListIsAllocated ==
  /\ allocated = {order[i] : i \in 1 .. Len(order)}
  /\ \A i, j \in 1 .. Len(order) : order[i] = order[j] => i = j

(***************************************************************************)
(* size, by which is_empty and queue_free decide, is the length of the     *)
(* list, by which dequeue decides.                                         *)
(***************************************************************************)
SizeIsLength == size = Len(order)

(***************************************************************************)
(* The three, which are inductive only together: queue.c keeps the ends,   *)
(* the links, the count and the allocated memory of the list in step.      *)
(***************************************************************************)
QueueInv == QueueTypeOK /\ ListInOrder /\ ListIsAllocated /\ SizeIsLength

\* The processes in the list.
Waiting == [i \in 1 .. Len(order) |-> process[order[i]]]

FifoQueue == INSTANCE Fifo WITH Items <- Procs, waiting <- Waiting

\* The queue behaves as the sequence that RoundRobin and MLFQ model it by.
ImplementsFifo == FifoQueue!Spec

(***************************************************************************)
(* queue.c:74.  queue_free, whose loop looks at size while dequeue looks   *)
(* at head, returns, and then nothing is left allocated.                   *)
(***************************************************************************)
QueueFreeReturns == pc = "freeing" ~> pc = "freed" /\ allocated = {}
=============================================================================
