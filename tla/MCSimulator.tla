----------------------------- MODULE MCSimulator -----------------------------
(***************************************************************************)
(* Command lines, workloads and MLFQ configurations for TLC.               *)
(***************************************************************************)
EXTENDS Simulator

\* P1:0:5   |:0:1   P1:0:-5   P1:0:5:9   P2:x:3   P:
MCTokens == [colons : {2}, process : {"served", "negative", "none"}, bars : {FALSE}]
              \cup {[colons |-> 2, process |-> "served", bars |-> TRUE],
                    [colons |-> 3, process |-> "served", bars |-> FALSE],
                    [colons |-> 1, process |-> "none", bars |-> FALSE]}

Piece(full, comment, process, bars) ==
  [full |-> full, comment |-> comment, process |-> process, bars |-> bars]

\* P1 0 5, | 0 1 and P1 0 -5, which are also what the rest of a long line may look like;
\* then a short comment, and what fills the buffer of a long comment and of a long line.
MCPieces ==
  { Piece(FALSE, FALSE, "served", FALSE), Piece(FALSE, FALSE, "served", TRUE),
    Piece(FALSE, FALSE, "negative", FALSE), Piece(FALSE, TRUE, "none", FALSE),
    Piece(TRUE, TRUE, "none", FALSE), Piece(TRUE, FALSE, "served", FALSE) }

\* An algorithm that allocates nothing and one that does; compare mode runs all five, and
\* no name at all is as good as an unknown one.
MCAlgorithmNames == {"FCFS", "MLFQ"}

Line(word, values) == [word |-> word, values |-> values]

MCLines == { Line("Q", << 3, 1 >>), Line("Q", << 1 >>),
             Line("Q", << Invalid, 1 >>), Line("Q", << 1, Invalid >>),
             Line("BOOST_PERIOD", << 5 >>), Line("BOOST_PERIOD", << Invalid >>),
             Line("BOOST_PERIOD", << >>) }

\* Files without a level, every line after a level, two files that fill or exceed the
\* levels, and an invalid line that is ignored because all levels are defined.
MCConfigFiles ==
  LET q1 == Line("Q", << 1, 2 >>)
      q2 == Line("Q", << 3, 1 >>)
      boost == Line("BOOST_PERIOD", << 5 >>)
  IN  { << >>, << boost, Line("other", << >>), Line("BOOST_PERIOD", << 7 >>) >> }
        \cup { << q1, line >> : line \in MCLines }
        \cup { << Line("Q", << 1 >>), q2 >>, << q1, q2, q1 >>, << q1, q2, q2, q1 >>,
               << q1, q1, q2, Line("Q", << 1, Invalid >>), boost >> }
=============================================================================
