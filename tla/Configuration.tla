---------------------------- MODULE Configuration ----------------------------
(***************************************************************************)
(* parse_mlfq_config, src/core/parser.c: the configuration of the MLFQ     *)
(* policy, the built-in one or that of a file.                             *)
(*                                                                         *)
(* A line of the file is its first word and the values that follow it, at  *)
(* most two; Invalid is a word that is not a positive int.  Comments and   *)
(* empty lines are lines whose first word is neither of the two known.  A  *)
(* line is what one fgets reads: of one that does not fit the buffer of    *)
(* 256 characters, the rest is a line of its own.                          *)
(***************************************************************************)
EXTENDS Integers, Sequences, FiniteSets, Functions

CONSTANTS
  ConfigFiles,       \* the files that --mlfq-config may name
  MAX_MLFQ_QUEUES,   \* 10
  Invalid            \* what strtol does not accept, or what is not positive

Values == (Nat \ {0}) \cup {Invalid}

ASSUME ConfigFilesAssumption ==
  /\ MAX_MLFQ_QUEUES \in Nat \ (0 .. 2)   \* the built-in configuration has 3 levels
  /\ Invalid \notin Nat
  /\ ConfigFiles \subseteq Seq([word : {"Q", "BOOST_PERIOD", "other"}, values : Seq(Values)])
  /\ \A file \in ConfigFiles : \A i \in DOMAIN file : Len(file[i].values) <= 2

VARIABLES
  parsing,     \* "none", "file" while lines are read, "done", or "rejected" by exit(1)
  lines,       \* the lines fgets has still to read
  config,      \* *config
  queue_idx    \* the local variable

configVars == << parsing, lines, config, queue_idx >>

\* An element of the arrays of *config that has not been assigned.
Unassigned == 0

\* The built-in configuration.
DefaultLevels ==
  [l \in 0 .. MAX_MLFQ_QUEUES - 1 |-> IF l < 3 THEN << 2, 4, 8 >>[l + 1] ELSE Unassigned]

DefaultConfig == [ num_queues   |-> 3,
                   quantums     |-> DefaultLevels,
                   allotments   |-> DefaultLevels,
                   boost_period |-> 50 ]

NoConfig == [ num_queues   |-> 0,
              quantums     |-> [l \in 0 .. MAX_MLFQ_QUEUES - 1 |-> Unassigned],
              allotments   |-> [l \in 0 .. MAX_MLFQ_QUEUES - 1 |-> Unassigned],
              boost_period |-> 0 ]

ConfigInit ==
  /\ parsing = "none"
  /\ lines = << >>
  /\ config = NoConfig
  /\ queue_idx = 0

\* No --mlfq-config, or a file that cannot be opened.
config_default ==
  /\ parsing' = "done"
  /\ config' = DefaultConfig
  /\ UNCHANGED << lines, queue_idx >>

config_open(file) ==
  /\ parsing' = "file"
  /\ lines' = file
  /\ config' = DefaultConfig
  /\ queue_idx' = 0

\* fgets has read the next line, and the parser does not give up.
NextLine ==
  /\ parsing = "file"
  /\ lines # << >>
  /\ lines' = Tail(lines)
  /\ UNCHANGED parsing

\* Mutant: the size of the arrays is not looked at.
DefinesLevel_unbounded(line) == line.word = "Q" /\ Len(line.values) = 2

\* A line for the next level; a Q beyond the last level is ignored.
DefinesLevel(line) ==
  line.word = "Q" /\ queue_idx < MAX_MLFQ_QUEUES /\ Len(line.values) = 2

SetsBoost(line) == line.word = "BOOST_PERIOD" /\ line.values # << >>

\* The values of the line that are looked at.
Examined(line) ==
  IF DefinesLevel(line) THEN Range(line.values)
  ELSE IF SetsBoost(line) THEN {line.values[1]}
  ELSE {}

config_level ==
  LET line == Head(lines)
  IN  /\ NextLine
      /\ DefinesLevel(line) /\ Invalid \notin Examined(line)
      /\ config' = [config EXCEPT !.quantums[queue_idx] = line.values[1],
                                  !.allotments[queue_idx] = line.values[2]]
      /\ queue_idx' = queue_idx + 1

config_boost ==
  LET line == Head(lines)
  IN  /\ NextLine
      /\ SetsBoost(line) /\ Invalid \notin Examined(line)
      /\ config' = [config EXCEPT !.boost_period = line.values[1]]
      /\ UNCHANGED queue_idx

config_ignore ==
  LET line == Head(lines)
  IN  /\ NextLine
      /\ ~DefinesLevel(line) /\ ~SetsBoost(line)
      /\ UNCHANGED << config, queue_idx >>

\* fclose and exit(1)
config_reject ==
  /\ parsing = "file"
  /\ lines # << >>
  /\ Invalid \in Examined(Head(lines))
  /\ parsing' = "rejected"
  /\ UNCHANGED << lines, config, queue_idx >>

config_return ==
  /\ parsing = "file"
  /\ lines = << >>
  /\ parsing' = "done"
  /\ config' = [config EXCEPT !.num_queues = IF queue_idx > 0 THEN queue_idx ELSE 3]
  /\ UNCHANGED << lines, queue_idx >>
-----------------------------------------------------------------------------
\* What the MLFQ policy assumes of its configuration (ConfigsAssumption of MLFQ).
Usable(c) ==
  /\ c.num_queues \in 1 .. MAX_MLFQ_QUEUES
  /\ \A l \in 0 .. c.num_queues - 1 : c.quantums[l] > 0 /\ c.allotments[l] > 0
  /\ c.boost_period > 0

\* The lines of a file that define a level.
LevelLines(file) == {i \in 1 .. Len(file) : file[i].word = "Q" /\ Len(file[i].values) = 2}

\* Line i of the file defines level l: l others define one before.
IsLevel(file, i, l) ==
  i \in LevelLines(file) /\ Cardinality({j \in LevelLines(file) : j < i}) = l

\* The lines of a file that set the boost period.
BoostLines(file) == {i \in 1 .. Len(file) : SetsBoost(file[i])}

(***************************************************************************)
(* src/core/parser.c:91-166.  Whatever the file says, the policy gets a    *)
(* configuration it can run with: as many levels as lines define one, up   *)
(* to the size of the arrays, in the order of the file, or the built-in    *)
(* ones if there is none; no level is left unassigned, none is mixed from  *)
(* two lines, and nothing of an earlier reading is left in it.  The boost  *)
(* period is that of the last line that sets it, or the built-in one.      *)
(***************************************************************************)
Describes(c, file) ==
  LET levels == Cardinality(LevelLines(file))
  IN  /\ c.num_queues = IF levels = 0 THEN 3
                        ELSE IF levels > MAX_MLFQ_QUEUES THEN MAX_MLFQ_QUEUES
                        ELSE levels
      /\ \A l \in 0 .. c.num_queues - 1 :
           IF levels = 0
             THEN << c.quantums[l], c.allotments[l] >> = << DefaultLevels[l], DefaultLevels[l] >>
             ELSE \E i \in 1 .. Len(file) :
                    IsLevel(file, i, l) /\ << c.quantums[l], c.allotments[l] >> = file[i].values
      /\ IF BoostLines(file) = {} THEN c.boost_period = DefaultConfig.boost_period
         ELSE \E i \in BoostLines(file) :
                (\A j \in BoostLines(file) : j <= i) /\ c.boost_period = file[i].values[1]
=============================================================================
