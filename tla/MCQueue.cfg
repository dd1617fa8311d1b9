\* Two processes can be told apart; three nodes make a first, an inner and a last one.
CONSTANTS
  Procs = {p1, p2}
  Nodes = {n1, n2, n3}
  NULL = NULL
SPECIFICATION Spec
INVARIANTS
  QueueInv
PROPERTIES
  ImplementsFifo
  QueueFreeReturns
