------------------------------- MODULE MCQueue -------------------------------
(***************************************************************************)
(* The ready queue with few nodes, which malloc reuses.                    *)
(***************************************************************************)
EXTENDS Queue
=============================================================================
