----------------------------- MODULE QueueProofs -----------------------------
(***************************************************************************)
(* The linked list of Queue is a queue, for any processes and any memory:  *)
(* the inductive invariant, and the steps of Fifo that its operations are. *)
(***************************************************************************)
EXTENDS Queue, SequenceTheorems, TLAPS

USE QueueAssumption

\* Linking a free node at the end, whether or not the list is empty, keeps the invariant.
LEMMA EnqueueKeepsInv ==
  ASSUME QueueInv, NEW p \in Procs, enqueue(p)
  PROVE  QueueInv'
<1>1. PICK node \in Nodes \ allocated :
        /\ allocated' = allocated \cup {node}
        /\ process' = [process EXCEPT ![node] = p]
        /\ next' = Linked(node)
        /\ head' = IF tail = NULL THEN node ELSE head
        /\ tail' = node
        /\ order' = Append(order, node)
  BY DEF enqueue
<1>2. /\ size' = size + 1
      /\ UNCHANGED << answer, pc >>
  BY DEF enqueue
<1>3. /\ order \in Seq(Nodes)
      /\ Len(order') = Len(order) + 1
      /\ order'[Len(order) + 1] = node
      /\ \A i \in 1 .. Len(order) : order'[i] = order[i]
  BY <1>1 DEF QueueInv, QueueTypeOK
<1>4. \A i \in 1 .. Len(order) : order[i] \in allocated /\ order[i] # node
  BY <1>1 DEF QueueInv, ListIsAllocated
<1>5. (tail = NULL) <=> (order = << >>)
  BY <1>3 DEF QueueInv, QueueTypeOK, ListInOrder
<1>6. next' = IF tail = NULL THEN [next EXCEPT ![node] = NULL]
              ELSE [next EXCEPT ![node] = NULL, ![tail] = node]
  BY <1>1 DEF Linked
<1>7. QueueTypeOK'
  BY <1>1, <1>2, <1>6 DEF QueueInv, QueueTypeOK
<1>8. ListInOrder'
  <2>1. CASE order = << >>
    BY <2>1, <1>1, <1>3, <1>5, <1>6 DEF QueueInv, QueueTypeOK, ListInOrder
  <2>2. CASE order # << >>
    <3>1. /\ tail = order[Len(order)]
          /\ tail \in Nodes
          /\ tail # node
          /\ head' = order'[1]
      BY <2>2, <1>1, <1>3, <1>4, <1>5 DEF QueueInv, QueueTypeOK, ListInOrder
    <3>2. /\ next'[tail] = node
          /\ next'[node] = NULL
          /\ \A n \in Nodes \ {node, tail} : next'[n] = next[n]
      BY <3>1, <1>1, <1>5, <1>6, <2>2 DEF QueueInv, QueueTypeOK
    <3>3. ASSUME NEW i \in 1 .. Len(order') - 1
          PROVE  next'[order'[i]] = order'[i + 1]
      <4>1. CASE i = Len(order)
        BY <4>1, <3>1, <3>2, <1>3
      <4>2. CASE i < Len(order)
        <5>1. i \in 1 .. Len(order) - 1 /\ i + 1 \in 1 .. Len(order)
          BY <4>2, <1>3
        <5>2. order[i] # tail
          BY <5>1, <3>1, <1>3 DEF QueueInv, ListIsAllocated
        <5>3. next[order[i]] = order[i + 1]
          BY <5>1 DEF QueueInv, ListInOrder
        <5> QED
          BY <5>1, <5>2, <5>3, <3>2, <1>3, <1>4
      <4> QED
        BY <4>1, <4>2, <1>3
    <3> QED
      BY <3>1, <3>2, <3>3, <1>1, <1>3 DEF ListInOrder
  <2> QED
    BY <2>1, <2>2
<1>9. ListIsAllocated'
  BY <1>1, <1>3, <1>4 DEF QueueInv, ListIsAllocated
<1>10. SizeIsLength'
  BY <1>2, <1>3 DEF QueueInv, SizeIsLength
<1> QED
  BY <1>7, <1>8, <1>9, <1>10 DEF QueueInv

LEMMA AtLeastOne == \A n \in Nat : n >= 1 => n = 1 \/ n > 1
OBVIOUS

\* What the invariant says of the two ends of a list that is not empty.
LEMMA Ends ==
  ASSUME QueueInv, head # NULL
  PROVE  /\ order # << >>
         /\ Len(order) \in Nat /\ Len(order) >= 1
         /\ head = order[1]
         /\ head \in Nodes
         /\ next[head] = IF Len(order) = 1 THEN NULL ELSE order[2]
         /\ (next[head] = NULL) <=> (Len(order) = 1)
<1>1. order # << >> /\ head = order[1] /\ tail = order[Len(order)] /\ next[tail] = NULL
  BY DEF QueueInv, ListInOrder
<1>2. order \in Seq(Nodes) /\ Len(order) \in Nat /\ Len(order) >= 1
  BY <1>1 DEF QueueInv, QueueTypeOK
<1>3. head \in Nodes
  BY <1>1, <1>2
<1>4. CASE Len(order) = 1
  BY <1>1, <1>2, <1>3, <1>4
<1>5. CASE Len(order) > 1
  <2>1. next[order[1]] = order[2]
    BY <1>2, <1>5 DEF QueueInv, ListInOrder
  <2>2. order[2] \in Nodes
    BY <1>2, <1>5
  <2> QED
    BY <2>1, <2>2, <1>1, <1>2, <1>3, <1>5
<1>6. Len(order) = 1 \/ Len(order) > 1
  BY <1>2, AtLeastOne
<1> QED
  BY <1>4, <1>5, <1>6

\* Taking out the first node, whether or not it is the last one, keeps the invariant.
LEMMA RemovedKeepsInv ==
  ASSUME QueueInv, Removed, UNCHANGED pc \/ pc' \in {"ready", "freeing", "freed", "exited"}
  PROVE  QueueInv'
<1>1. /\ head # NULL
      /\ answer' = process[head]
      /\ head' = next[head]
      /\ tail' = IF next[head] = NULL THEN NULL ELSE tail
      /\ allocated' = allocated \ {head}
      /\ size' = size - 1
      /\ order' = Tail(order)
      /\ process' = process /\ next' = next
  BY DEF Removed
<1>2. /\ Len(order) \in Nat /\ Len(order) >= 1
      /\ head = order[1]
      /\ head \in Nodes
      /\ next[head] = IF Len(order) = 1 THEN NULL ELSE order[2]
      /\ (next[head] = NULL) <=> (Len(order) = 1)
      /\ order # << >>
  BY <1>1, Ends
<1>3. /\ order \in Seq(Nodes)
      /\ order' \in Seq(Nodes)
      /\ Len(order') = Len(order) - 1
      /\ \A i \in 1 .. Len(order) - 1 : order'[i] = order[i + 1]
  BY <1>1, <1>2 DEF QueueInv, QueueTypeOK
<1>4. QueueTypeOK'
  BY <1>1, <1>2, <1>3 DEF QueueInv, QueueTypeOK, SizeIsLength
<1>5. ListInOrder'
  <2>1. CASE Len(order) = 1
    BY <2>1, <1>1, <1>2, <1>3 DEF ListInOrder
  <2>2. CASE Len(order) > 1
    <3>1. order' # << >> /\ head' = order'[1] /\ tail' = tail
      BY <2>2, <1>1, <1>2, <1>3
    <3>2. tail = order'[Len(order')] /\ next[tail] = NULL
      BY <2>2, <1>2, <1>3 DEF QueueInv, ListInOrder
    <3>3. \A i \in 1 .. Len(order') - 1 : next[order'[i]] = order'[i + 1]
      BY <2>2, <1>2, <1>3 DEF QueueInv, ListInOrder
    <3> QED
      BY <3>1, <3>2, <3>3, <1>1 DEF ListInOrder
  <2>3. Len(order) = 1 \/ Len(order) > 1
    BY <1>2, AtLeastOne
  <2> QED
    BY <2>1, <2>2, <2>3
<1>6. ListIsAllocated'
  <2>1. \A i, j \in 1 .. Len(order') : order'[i] = order'[j] => i = j
    BY <1>2, <1>3 DEF QueueInv, ListIsAllocated
  <2>2. ASSUME NEW n \in allocated'
        PROVE  \E i \in 1 .. Len(order') : n = order'[i]
    <3>1. PICK i \in 1 .. Len(order) : n = order[i]
      BY <2>2, <1>1 DEF QueueInv, ListIsAllocated
    <3>2. i # 1
      BY <3>1, <2>2, <1>1, <1>2
    <3>3. i - 1 \in 1 .. Len(order') /\ order'[i - 1] = n
      BY <3>1, <3>2, <1>2, <1>3
    <3> QED
      BY <3>3
  <2>3. ASSUME NEW i \in 1 .. Len(order')
        PROVE  order'[i] \in allocated'
    <3>1. i + 1 \in 1 .. Len(order) /\ order'[i] = order[i + 1] /\ 1 \in 1 .. Len(order)
      BY <1>2, <1>3
    <3>2. order[i + 1] \in allocated /\ order[i + 1] # order[1]
      BY <3>1, <1>2 DEF QueueInv, ListIsAllocated
    <3> QED
      BY <3>1, <3>2, <1>1, <1>2
  <2> QED
    BY <2>1, <2>2, <2>3 DEF ListIsAllocated
<1>7. SizeIsLength'
  BY <1>1, <1>3 DEF QueueInv, SizeIsLength
<1> QED
  BY <1>4, <1>5, <1>6, <1>7 DEF QueueInv

\* The steps that leave the list alone keep the invariant.
LEMMA ListUnchangedKeepsInv ==
  ASSUME QueueInv,
         UNCHANGED << head, tail, size, process, next, allocated, order >>,
         answer' \in Procs \cup {NULL},
         pc' \in {"ready", "freeing", "freed", "exited"}
  PROVE  QueueInv'
BY DEF QueueInv, QueueTypeOK, ListInOrder, ListIsAllocated, SizeIsLength

LEMMA NextKeepsInv ==
  ASSUME QueueInv, [Next]_vars
  PROVE  QueueInv'
<1>1. /\ answer \in Procs \cup {NULL}
      /\ pc \in {"ready", "freeing", "freed", "exited"}
  BY DEF QueueInv, QueueTypeOK
<1>2. CASE \E p \in Procs : enqueue(p)
  BY <1>2, EnqueueKeepsInv
<1>3. CASE enqueue_exit
  BY <1>1, <1>3, ListUnchangedKeepsInv DEF enqueue_exit
<1>4. CASE dequeue
  <2>1. CASE Removed
    BY <1>4, <2>1, RemovedKeepsInv DEF dequeue
  <2>2. CASE NothingRemoved
    BY <1>1, <1>4, <2>2, ListUnchangedKeepsInv DEF dequeue, NothingRemoved
  <2> QED
    BY <1>4, <2>1, <2>2 DEF dequeue
<1>5. CASE queue_free
  BY <1>1, <1>5, ListUnchangedKeepsInv DEF queue_free
<1>6. CASE queue_free_node
  <2>1. CASE Removed
    BY <1>6, <2>1, RemovedKeepsInv DEF queue_free_node
  <2>2. CASE NothingRemoved
    BY <1>1, <1>6, <2>2, ListUnchangedKeepsInv DEF queue_free_node, NothingRemoved
  <2> QED
    BY <1>6, <2>1, <2>2 DEF queue_free_node
<1>7. CASE queue_free_return
  BY <1>1, <1>7, ListUnchangedKeepsInv DEF queue_free_return
<1>8. CASE ended \/ UNCHANGED vars
  BY <1>1, <1>8, ListUnchangedKeepsInv DEF ended, vars
<1> QED
  BY <1>2, <1>3, <1>4, <1>5, <1>6, <1>7, <1>8 DEF Next

\* The list, its ends, its count and the allocated memory always agree: no node of
\* queue.c leaks, dangles or is counted wrongly.
THEOREM QueueInvariant == Spec => []QueueInv
<1>1. queue_init => QueueInv
  BY DEF queue_init, QueueInv, QueueTypeOK, ListInOrder, ListIsAllocated, SizeIsLength
<1>2. QueueInv /\ [Next]_vars => QueueInv'
  BY NextKeepsInv
<1> QED
  BY <1>1, <1>2, PTL DEF Spec

\* The nodes of the list are those allocated, once each, also when addresses are reused.
THEOREM NoNodeLeaksOrDangles == Spec => []ListIsAllocated
<1>1. QueueInv => ListIsAllocated
  BY DEF QueueInv
<1> QED
  BY <1>1, QueueInvariant, PTL

\* is_empty and queue_free, which look at size, and dequeue, which looks at head, agree.
THEOREM SizeIsExact == Spec => []SizeIsLength
<1>1. QueueInv => SizeIsLength
  BY DEF QueueInv
<1> QED
  BY <1>1, QueueInvariant, PTL
-----------------------------------------------------------------------------
(***************************************************************************)
(* The refinement: Waiting, the processes in the order of the list, is the *)
(* sequence of Fifo.                                                       *)
(***************************************************************************)
LEMMA WaitingIsSequence ==
  ASSUME QueueInv
  PROVE  /\ Waiting \in Seq(Procs \cup {NULL})
         /\ Len(Waiting) = Len(order)
         /\ \A i \in 1 .. Len(order) : Waiting[i] = process[order[i]]
<1>1. /\ order \in Seq(Nodes)
      /\ Len(order) \in Nat
      /\ process \in [Nodes -> Procs \cup {NULL}]
  BY DEF QueueInv, QueueTypeOK
<1>2. \A i \in 1 .. Len(order) : process[order[i]] \in Procs \cup {NULL}
  BY <1>1
<1> QED
  BY <1>1, <1>2 DEF Waiting

\* enqueue puts p behind the waiting processes, although it may reuse the address of a
\* node that was in the list before.
LEMMA EnqueuePuts ==
  ASSUME QueueInv, NEW p \in Procs, enqueue(p)
  PROVE  FifoQueue!Put(p)
<1>1. PICK node \in Nodes \ allocated :
        /\ process' = [process EXCEPT ![node] = p]
        /\ order' = Append(order, node)
  BY DEF enqueue
<1>2. /\ order \in Seq(Nodes)
      /\ Len(order) \in Nat
      /\ process \in [Nodes -> Procs \cup {NULL}]
      /\ \A i \in 1 .. Len(order) : order[i] # node /\ order[i] \in Nodes
  BY <1>1 DEF QueueInv, QueueTypeOK, ListIsAllocated
<1>3. /\ Len(order') = Len(order) + 1
      /\ order'[Len(order) + 1] = node
      /\ \A i \in 1 .. Len(order) : order'[i] = order[i]
  BY <1>1, <1>2
<1>4. \A i \in 1 .. Len(order) : process'[order'[i]] = process[order[i]]
  BY <1>1, <1>2, <1>3
<1>5. process'[order'[Len(order) + 1]] = p
  BY <1>1, <1>2, <1>3
<1>6. Waiting' = Append(Waiting, p)
  <2>1. Waiting' = [i \in 1 .. Len(order) + 1 |-> process'[order'[i]]]
    BY <1>3 DEF Waiting
  <2>2. /\ Waiting \in Seq(Procs \cup {NULL})
        /\ Len(Waiting) = Len(order)
        /\ \A i \in 1 .. Len(order) : Waiting[i] = process[order[i]]
    BY WaitingIsSequence
  <2>3. ASSUME NEW i \in 1 .. Len(order) + 1
        PROVE  process'[order'[i]] = IF i = Len(order) + 1 THEN p ELSE Waiting[i]
    BY <2>2, <1>2, <1>4, <1>5
  <2>4. /\ Waiting' \in Seq(Procs \cup {NULL})
        /\ Len(Waiting') = Len(order) + 1
        /\ \A i \in 1 .. Len(order) + 1 :
             Waiting'[i] = IF i = Len(order) + 1 THEN p ELSE Waiting[i]
    <3>1. \A i \in 1 .. Len(order) + 1 : process'[order'[i]] \in Procs \cup {NULL}
      BY <1>2, <2>2, <2>3
    <3> QED
      BY <3>1, <2>1, <2>3, <1>2
  <2>5. /\ Append(Waiting, p) \in Seq(Procs \cup {NULL})
        /\ Len(Append(Waiting, p)) = Len(order) + 1
        /\ \A i \in 1 .. Len(order) + 1 :
             Append(Waiting, p)[i] = IF i = Len(order) + 1 THEN p ELSE Waiting[i]
    BY <2>2, <1>2
  <2> QED
    BY <2>4, <2>5, SeqEqual
<1>7. answer' = answer
  BY DEF enqueue
<1> QED
  BY <1>6, <1>7 DEF FifoQueue!Put

\* Both outcomes of dequeue answer what the sequence answers.
LEMMA RemovedTakes ==
  ASSUME QueueInv, Removed
  PROVE  FifoQueue!Take
<1>1. /\ head # NULL
      /\ answer' = process[head]
      /\ order' = Tail(order)
      /\ process' = process
  BY DEF Removed
<1>2. /\ order # << >>
      /\ Len(order) \in Nat /\ Len(order) >= 1
      /\ head = order[1]
  BY <1>1, Ends
<1>3. /\ Waiting \in Seq(Procs \cup {NULL})
      /\ Len(Waiting) = Len(order)
      /\ \A i \in 1 .. Len(order) : Waiting[i] = process[order[i]]
  BY WaitingIsSequence
<1>4. Waiting # << >> /\ answer' = Head(Waiting)
  BY <1>1, <1>2, <1>3
<1>5. Waiting' = Tail(Waiting)
  <2>1. /\ Len(order') = Len(order) - 1
        /\ \A i \in 1 .. Len(order) - 1 : order'[i] = order[i + 1]
    BY <1>1, <1>2 DEF QueueInv, QueueTypeOK
  <2>2. Waiting' = [i \in 1 .. Len(order) - 1 |-> process[order[i + 1]]]
    BY <2>1, <1>1 DEF Waiting
  <2>3. /\ Waiting' \in Seq(Procs \cup {NULL})
        /\ Len(Waiting') = Len(order) - 1
        /\ \A i \in 1 .. Len(order) - 1 : Waiting'[i] = Waiting[i + 1]
    <3>1. \A i \in 1 .. Len(order) - 1 :
            /\ process[order[i + 1]] = Waiting[i + 1]
            /\ Waiting[i + 1] \in Procs \cup {NULL}
      BY <1>2, <1>3
    <3> QED
      BY <3>1, <2>2, <1>2
  <2>4. /\ Tail(Waiting) \in Seq(Procs \cup {NULL})
        /\ Len(Tail(Waiting)) = Len(order) - 1
        /\ \A i \in 1 .. Len(order) - 1 : Tail(Waiting)[i] = Waiting[i + 1]
    BY <1>2, <1>3, <1>4, HeadTailProperties
  <2> QED
    BY <2>3, <2>4, SeqEqual
<1> QED
  BY <1>4, <1>5 DEF FifoQueue!Take

LEMMA NothingRemovedTakesNothing ==
  ASSUME QueueInv, NothingRemoved
  PROVE  FifoQueue!TakeNothing
<1>1. head = NULL /\ answer' = NULL /\ order' = order /\ process' = process
  BY DEF NothingRemoved
<1>2. order = << >>
  <2>1. SUFFICES ASSUME order # << >> PROVE FALSE
    OBVIOUS
  <2>2. head = order[1] /\ order \in Seq(Nodes)
    BY <2>1 DEF QueueInv, QueueTypeOK, ListInOrder
  <2> QED
    BY <1>1, <2>1, <2>2
<1>3. Waiting = << >>
  BY <1>2 DEF Waiting
<1>4. Waiting' = Waiting
  BY <1>1 DEF Waiting
<1> QED
  BY <1>1, <1>3, <1>4 DEF FifoQueue!TakeNothing

LEMMA StepIsFifoStep ==
  ASSUME QueueInv, [Next]_vars
  PROVE  [FifoQueue!Next]_FifoQueue!vars
<1>1. ASSUME UNCHANGED << process, answer, order >>
      PROVE  UNCHANGED FifoQueue!vars
  BY <1>1 DEF FifoQueue!vars, Waiting
<1>2. CASE \E p \in Procs : enqueue(p)
  BY <1>2, EnqueuePuts DEF FifoQueue!Next
<1>3. CASE enqueue_exit \/ queue_free \/ queue_free_return \/ ended \/ UNCHANGED vars
  BY <1>1, <1>3 DEF enqueue_exit, queue_free, queue_free_return, ended, vars
<1>4. CASE dequeue \/ queue_free_node
  <2>1. Removed \/ NothingRemoved
    BY <1>4 DEF dequeue, queue_free_node
  <2> QED
    BY <2>1, RemovedTakes, NothingRemovedTakesNothing DEF FifoQueue!Next
<1> QED
  BY <1>2, <1>3, <1>4 DEF Next

\* The linked list of queue.c is the sequence by which the models of the policies use it.
THEOREM QueueIsFifo == Spec => ImplementsFifo
<1>1. queue_init => FifoQueue!Init
  BY DEF queue_init, FifoQueue!Init, Waiting
<1>2. QueueInv /\ [Next]_vars => [FifoQueue!Next]_FifoQueue!vars
  BY StepIsFifoStep
<1> QED
  BY <1>1, <1>2, QueueInvariant, PTL DEF Spec, ImplementsFifo, FifoQueue!Spec
=============================================================================
