-------------------------------- MODULE Fifo --------------------------------
(***************************************************************************)
(* What a ready queue promises: items leave it in the order in which they  *)
(* were put, and an empty one answers NULL.                                *)
(***************************************************************************)
EXTENDS Sequences

CONSTANTS Items, NULL

VARIABLES
  waiting,  \* the items in the queue, oldest first
  answer    \* what the last request for an item answered

vars == << waiting, answer >>

Init == waiting = << >> /\ answer = NULL

Put(item) == waiting' = Append(waiting, item) /\ UNCHANGED answer

Take ==
  /\ waiting # << >>
  /\ answer' = Head(waiting)
  /\ waiting' = Tail(waiting)

TakeNothing ==
  /\ waiting = << >>
  /\ answer' = NULL
  /\ UNCHANGED waiting

Next == (\E item \in Items : Put(item)) \/ Take \/ TakeNothing

Spec == Init /\ [][Next]_vars
=============================================================================
