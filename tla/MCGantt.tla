------------------------------- MODULE MCGantt -------------------------------
(***************************************************************************)
(* The Gantt chart of short runs.                                          *)
(***************************************************************************)
EXTENDS Gantt, TLC

MCLabelLength == "A" :> 1 @@ "Alice" :> 5 @@ "" :> 0

\* The names A, Alice and |.
MCNames == {<< "A" >>, << "Alice" >>, << "", "" >>}
=============================================================================
