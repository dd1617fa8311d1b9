-------------------------- MODULE SimulatorProofs ---------------------------
(***************************************************************************)
(* Theorems about the program as a whole, for every command line, input,   *)
(* configuration file and number of failing allocations: what main owns on *)
(* every way out, what the parsers make of their input, and what each      *)
(* simulation starts from.                                                 *)
(***************************************************************************)
EXTENDS Simulator, Foundations
-----------------------------------------------------------------------------
(***************************************************************************)
(* The way through main: which parts follow which, and what is settled     *)
(* when one of them begins.                                                *)
(***************************************************************************)
Loaded == {"run", "compare", "configure", "schedule", "report", "final", "lost"}

Simulation == {"configure", "schedule", "report"}

ArgsType == [algorithm : {""} \cup AlgorithmNames, compare_mode : BOOLEAN,
             processes_str : BOOLEAN, input_file : BOOLEAN, mlfq_config : BOOLEAN]

\* Ranges.
FlowTypes ==
  /\ parsing \in {"none", "file", "done", "rejected"}
  /\ processes \in {"procs", "copy"} /\ gantt_log \in {"NULL", "empty", "bars", "entries"}
  /\ options \in 0 .. MaxOptions /\ failures \in 0 .. MaxFailures
  /\ status \in {-1, 0, 1} /\ (status # -1 <=> pc = "exited")

\* The parts of main.
Order ==
  /\ pc \in {"args", "loading", "exited"} \cup Loaded
  /\ pc = "args" => loading = "none"
  /\ pc = "loading" => loading \in {"string", "file"}
  /\ pc \in Loaded => loading = "done"
  /\ pc \in {"args", "loading", "run"} => parsing = "none"
  /\ pc = "run" => ~args.compare_mode
  /\ pc = "compare" => args.compare_mode
  /\ parsing = "file" => pc = "configure"
  /\ pc = "schedule" => parsing = "done"
  /\ pc \notin Simulation \cup {"exited", "lost"} => gantt_log = "NULL"
  /\ pc \in Simulation => processes = IF args.compare_mode THEN "copy" ELSE "procs"

\* The results of compare mode.
RowsKept ==
  /\ rows \in Seq(Row) /\ Len(rows) <= NumAlgorithms
  /\ pc \in {"args", "loading", "run"} => rows = << >>
  /\ pc \in Simulation => Len(rows) < NumAlgorithms

Flow == args \in ArgsType /\ FlowTypes /\ Order /\ RowsKept

LEMMA AlgorithmCount == NumAlgorithms = 5
BY DEF NumAlgorithms, Algorithms

LEMMA FlowInit == Init => Flow
<1> SUFFICES ASSUME Init PROVE Flow
  OBVIOUS
<1>1. FlowTypes
  BY BoundsAssumption DEF Init, LoadInit, ConfigInit, FlowTypes
<1>4. args \in ArgsType
  <2>1. NoArgs \in ArgsType
    BY DEF NoArgs, ArgsType
  <2> QED
    BY <2>1 DEF Init
<1>2. Order
  BY DEF Init, LoadInit, ConfigInit, Order, Loaded, Simulation
<1>3. RowsKept
  BY AlgorithmCount DEF Init, RowsKept, Simulation
<1> QED
  BY <1>1, <1>2, <1>3, <1>4 DEF Flow

LEMMA ArgsStep == args \in ArgsType /\ [Next]_vars => args' \in ArgsType
<1> SUFFICES ASSUME args \in ArgsType, [Next]_vars PROVE args' \in ArgsType
  OBVIOUS
<1>1. ASSUME NEW name \in AlgorithmNames, opt_algorithm(name) PROVE args' \in ArgsType
  BY <1>1 DEF ArgsType, opt_algorithm
<1>2. ASSUME NEW s \in Strings, opt_string(s) PROVE args' \in ArgsType
  BY <1>2 DEF ArgsType, opt_string, Strings
<1>3. CASE opt_compare
  BY <1>3 DEF ArgsType, opt_compare
<1>4. CASE UNCHANGED args
  BY <1>4
<1>5. \/ UNCHANGED args \/ opt_compare
      \/ \E name \in AlgorithmNames : opt_algorithm(name)
      \/ \E s \in Strings : opt_string(s)
  BY DEF Next, parse_args, opt_rejected, load_string, load_string_fails, load_file, load_nothing,
     load_item, load_return, run_single, run_algorithm, run_algorithm_fails, NextAlgorithm,
     configure, configure_default, configure_open, configure_line, configure_reject,
     configure_return, schedule, schedule_endless, schedule_exits, schedule_unknown, report,
     report_no_entries, report_unsplit, Report, report_row,
     print_comparison_table, return, ended, vars, mainVars, argVars
<1> QED
  BY <1>1, <1>2, <1>3, <1>4, <1>5

\* The entries of a run: some may be lost, but not the log.
LEMMA LogRun ==
  ASSUME FlowTypes, log_run
  PROVE  /\ failures' \in 0 .. MaxFailures /\ failures <= failures'
         /\ gantt_log' \in {"NULL", "empty", "bars", "entries"}
         /\ gantt_log' = "NULL" <=> gantt_log = "NULL"
         /\ gantt_log # "NULL" /\ gantt_log' = "bars" =>
              /\ Barred(Simulated) # {}
              /\ \E lost \in Nat :
                   /\ failures' = failures + lost
                   /\ Cardinality(DOMAIN Simulated \ Barred(Simulated)) <= lost
<1>1. failures \in 0 .. MaxFailures /\ MaxFailures \in Nat
  BY BoundsAssumption DEF FlowTypes
<1>2. CASE gantt_log = "NULL"
  BY <1>1, <1>2 DEF log_run, FlowTypes
<1>3. CASE gantt_log # "NULL"
  <2>1. PICK lost \in 0 .. (IF Simulated = << >> THEN 0 ELSE MaxFailures - failures) :
          failures' = failures + lost /\ gantt_log' \in Logs(Simulated, lost)
    BY <1>3 DEF log_run
  <2>2. lost \in Nat /\ lost <= MaxFailures - failures
    BY <1>1, <2>1
  <2>3. /\ gantt_log' \in {"empty", "bars", "entries"}
        /\ gantt_log' = "bars" =>
             /\ Barred(Simulated) # {}
             /\ Cardinality(DOMAIN Simulated \ Barred(Simulated)) <= lost
    BY <2>1 DEF Logs
  <2> QED
    BY <1>1, <1>3, <2>1, <2>2, <2>3
<1> QED
  BY <1>2, <1>3

LEMMA FlowTypesStep == FlowTypes /\ [Next]_vars => FlowTypes'
<1> SUFFICES ASSUME FlowTypes, [Next]_vars PROVE FlowTypes'
  OBVIOUS
<1> USE BoundsAssumption DEF FlowTypes
<1>1. CASE parse_args
  <2>1. ASSUME NEW name \in AlgorithmNames, opt_algorithm(name) PROVE FlowTypes'
    BY <1>1, <2>1 DEF parse_args, opt_algorithm, Option, simVars, loadVars, configVars
  <2>2. ASSUME NEW s \in Strings, opt_string(s) PROVE FlowTypes'
    BY <1>1, <2>2 DEF parse_args, opt_string, Option, Strings, simVars, loadVars, configVars
  <2>3. CASE opt_compare
    BY <1>1, <2>3 DEF parse_args, opt_compare, Option, simVars, loadVars, configVars
  <2>4. CASE opt_rejected
    BY <1>1, <2>4 DEF parse_args, opt_rejected, Option, exit, simVars, loadVars, configVars
  <2> QED
    BY <1>1, <2>1, <2>2, <2>3, <2>4 DEF parse_args
<1>2. CASE load_string
  BY <1>2 DEF load_string, string_begin, argVars, simVars, configVars
<1>3. CASE load_string_fails
  BY <1>3 DEF load_string_fails, malloc_fails, exit, argVars, simVars, loadVars, configVars
<1>4. CASE load_file
  BY <1>4 DEF load_file, file_begin, argVars, simVars, configVars
<1>5. CASE load_nothing
  BY <1>5 DEF load_nothing, exit, argVars, simVars, loadVars, configVars
<1>6. CASE load_item
  BY <1>6 DEF load_item, string_token, file_line, mainVars, argVars, simVars, configVars
<1>7. CASE load_return
  BY <1>7 DEF load_return, string_return, file_return, argVars, simVars, configVars
<1>8. CASE run_single
  BY <1>8 DEF run_single, init_scheduler_state, malloc_fails, argVars, loadVars, configVars
<1>9. CASE run_algorithm
  BY <1>9 DEF run_algorithm, init_scheduler_state, malloc_fails, NextAlgorithm, prepare, argVars,
     configVars
<1>10. CASE run_algorithm_fails
  BY <1>10 DEF run_algorithm_fails, NextAlgorithm, malloc_fails, argVars, configVars
<1>11. CASE configure
  <2>1. CASE configure_default
    BY <2>1 DEF configure_default, config_default, argVars, simVars, loadVars
  <2>2. CASE configure_open
    BY <2>2 DEF configure_open, config_open, argVars, simVars, loadVars
  <2>3. CASE configure_line
    BY <2>3 DEF configure_line, config_level, config_boost, config_ignore, NextLine, mainVars,
       argVars, simVars, loadVars
  <2>4. CASE configure_reject
    BY <2>4 DEF configure_reject, config_reject, exit, argVars, simVars, loadVars
  <2>5. CASE configure_return
    BY <2>5 DEF configure_return, config_return, argVars, simVars, loadVars
  <2> QED
    BY <1>11, <2>1, <2>2, <2>3, <2>4, <2>5 DEF configure
<1>12. CASE schedule
  BY <1>12, LogRun DEF schedule, argVars, configVars
<1>13. CASE schedule_endless
  BY <1>13 DEF schedule_endless, argVars, simVars, loadVars, configVars
<1>14. CASE schedule_unknown
  BY <1>14 DEF schedule_unknown, fail_unknown, exit, argVars, simVars, loadVars, configVars
<1>15. CASE report \/ report_no_entries \/ report_unsplit
  BY <1>15 DEF report, report_no_entries, report_unsplit, Report, malloc_fails, argVars,
     loadVars, configVars
<1>16. CASE report_row
  BY <1>16 DEF report_row, argVars, loadVars, configVars
<1>17. CASE print_comparison_table
  BY <1>17 DEF print_comparison_table, argVars, simVars, loadVars, configVars
<1>18. CASE return
  BY <1>18 DEF return, exit, argVars, simVars, loadVars, configVars
<1>19. CASE schedule_exits
  BY <1>19 DEF schedule_exits, malloc_fails, exit, argVars, simVars, loadVars, configVars
<1>20. CASE UNCHANGED vars
  BY <1>20 DEF vars, mainVars, argVars, simVars, loadVars, configVars
<1> QED
  BY <1>1, <1>2, <1>3, <1>4, <1>5, <1>6, <1>7, <1>8, <1>9, <1>10, <1>11, <1>12, <1>13, <1>14,
     <1>15, <1>16, <1>17, <1>18, <1>19, <1>20 DEF Next, ended

LEMMA OrderStep == args \in ArgsType /\ Order /\ [Next]_vars => Order'
<1> SUFFICES ASSUME args \in ArgsType, Order, [Next]_vars PROVE Order'
  OBVIOUS
<1> USE DEF Order, Loaded, Simulation
<1>1. CASE parse_args
  <2>1. ASSUME NEW name \in AlgorithmNames, opt_algorithm(name) PROVE Order'
    BY <1>1, <2>1 DEF parse_args, opt_algorithm, Option, simVars, loadVars, configVars
  <2>2. ASSUME NEW s \in Strings, opt_string(s) PROVE Order'
    BY <1>1, <2>2 DEF parse_args, opt_string, Option, Strings, simVars, loadVars, configVars
  <2>3. CASE opt_compare
    BY <1>1, <2>3 DEF parse_args, opt_compare, Option, simVars, loadVars, configVars
  <2>4. CASE opt_rejected
    BY <1>1, <2>4 DEF parse_args, opt_rejected, Option, exit, simVars, loadVars, configVars
  <2> QED
    BY <1>1, <2>1, <2>2, <2>3, <2>4 DEF parse_args
<1>2. CASE load_string
  BY <1>2 DEF load_string, string_begin, argVars, simVars, configVars
<1>3. CASE load_string_fails
  BY <1>3 DEF load_string_fails, malloc_fails, exit, argVars, simVars, loadVars, configVars
<1>4. CASE load_file
  BY <1>4 DEF load_file, file_begin, argVars, simVars, configVars
<1>5. CASE load_nothing
  BY <1>5 DEF load_nothing, exit, argVars, simVars, loadVars, configVars
<1>6. CASE load_item
  BY <1>6 DEF load_item, string_token, file_line, mainVars, argVars, simVars, configVars
<1>7. CASE load_return
  BY <1>7 DEF load_return, string_return, file_return, argVars, simVars, configVars
<1>8. CASE run_single
  BY <1>8 DEF run_single, init_scheduler_state, malloc_fails, argVars, loadVars, configVars
<1>9. CASE run_algorithm
  BY <1>9 DEF run_algorithm, init_scheduler_state, malloc_fails, NextAlgorithm, prepare, argVars,
     configVars
<1>10. CASE run_algorithm_fails
  BY <1>10 DEF run_algorithm_fails, NextAlgorithm, malloc_fails, argVars, configVars
<1>11. CASE configure
  <2>1. CASE configure_default
    BY <2>1 DEF configure_default, config_default, argVars, simVars, loadVars
  <2>2. CASE configure_open
    BY <2>2 DEF configure_open, config_open, argVars, simVars, loadVars
  <2>3. CASE configure_line
    BY <2>3 DEF configure_line, config_level, config_boost, config_ignore, NextLine, mainVars,
       argVars, simVars, loadVars
  <2>4. CASE configure_reject
    BY <2>4 DEF configure_reject, config_reject, exit, argVars, simVars, loadVars
  <2>5. CASE configure_return
    BY <2>5 DEF configure_return, config_return, argVars, simVars, loadVars
  <2> QED
    BY <1>11, <2>1, <2>2, <2>3, <2>4, <2>5 DEF configure
<1>12. CASE schedule
  BY <1>12 DEF schedule, argVars, configVars
<1>13. CASE schedule_endless
  BY <1>13 DEF schedule_endless, argVars, simVars, loadVars, configVars
<1>14. CASE schedule_unknown
  BY <1>14 DEF schedule_unknown, fail_unknown, exit, argVars, simVars, loadVars, configVars
<1>15. CASE report \/ report_no_entries \/ report_unsplit
  BY <1>15 DEF report, report_no_entries, report_unsplit, Report, malloc_fails, argVars,
     loadVars, configVars
<1>16. CASE report_row
  BY <1>16 DEF report_row, argVars, loadVars, configVars
<1>17. CASE print_comparison_table
  BY <1>17 DEF print_comparison_table, argVars, simVars, loadVars, configVars
<1>18. CASE return
  BY <1>18 DEF return, exit, argVars, simVars, loadVars, configVars
<1>19. CASE schedule_exits
  BY <1>19 DEF schedule_exits, malloc_fails, exit, argVars, simVars, loadVars, configVars
<1>20. CASE UNCHANGED vars
  BY <1>20 DEF vars, mainVars, argVars, simVars, loadVars, configVars
<1> QED
  BY <1>1, <1>2, <1>3, <1>4, <1>5, <1>6, <1>7, <1>8, <1>9, <1>10, <1>11, <1>12, <1>13, <1>14,
     <1>15, <1>16, <1>17, <1>18, <1>19, <1>20 DEF Next, ended

LEMMA RowsStep == Order /\ RowsKept /\ [Next]_vars => RowsKept'
<1> SUFFICES ASSUME Order, RowsKept, [Next]_vars PROVE RowsKept'
  OBVIOUS
<1> USE AlgorithmCount DEF RowsKept, Order, Simulation, Row
<1>1. CASE parse_args
  <2>1. ASSUME NEW name \in AlgorithmNames, opt_algorithm(name) PROVE RowsKept'
    BY <1>1, <2>1 DEF parse_args, opt_algorithm, Option, simVars, loadVars, configVars
  <2>2. ASSUME NEW s \in Strings, opt_string(s) PROVE RowsKept'
    BY <1>1, <2>2 DEF parse_args, opt_string, Option, Strings, simVars, loadVars, configVars
  <2>3. CASE opt_compare
    BY <1>1, <2>3 DEF parse_args, opt_compare, Option, simVars, loadVars, configVars
  <2>4. CASE opt_rejected
    BY <1>1, <2>4 DEF parse_args, opt_rejected, Option, exit, simVars, loadVars, configVars
  <2> QED
    BY <1>1, <2>1, <2>2, <2>3, <2>4 DEF parse_args
<1>2. CASE load_string
  BY <1>2 DEF load_string, string_begin, argVars, simVars, configVars
<1>3. CASE load_string_fails
  BY <1>3 DEF load_string_fails, malloc_fails, exit, argVars, simVars, loadVars, configVars
<1>4. CASE load_file
  BY <1>4 DEF load_file, file_begin, argVars, simVars, configVars
<1>5. CASE load_nothing
  BY <1>5 DEF load_nothing, exit, argVars, simVars, loadVars, configVars
<1>6. CASE load_item
  BY <1>6 DEF load_item, string_token, file_line, mainVars, argVars, simVars, configVars
<1>7. CASE load_return
  BY <1>7 DEF load_return, string_return, file_return, argVars, simVars, configVars
<1>8. CASE run_single
  BY <1>8 DEF run_single, init_scheduler_state, malloc_fails, argVars, loadVars, configVars
<1>9. CASE run_algorithm
  BY <1>9 DEF run_algorithm, init_scheduler_state, malloc_fails, NextAlgorithm, prepare, argVars,
     configVars
<1>10. CASE run_algorithm_fails
  BY <1>10 DEF run_algorithm_fails, NextAlgorithm, malloc_fails, argVars, configVars
<1>11. CASE configure
  <2>1. CASE configure_default
    BY <2>1 DEF configure_default, config_default, argVars, simVars, loadVars
  <2>2. CASE configure_open
    BY <2>2 DEF configure_open, config_open, argVars, simVars, loadVars
  <2>3. CASE configure_line
    BY <2>3 DEF configure_line, config_level, config_boost, config_ignore, NextLine, mainVars,
       argVars, simVars, loadVars
  <2>4. CASE configure_reject
    BY <2>4 DEF configure_reject, config_reject, exit, argVars, simVars, loadVars
  <2>5. CASE configure_return
    BY <2>5 DEF configure_return, config_return, argVars, simVars, loadVars
  <2> QED
    BY <1>11, <2>1, <2>2, <2>3, <2>4, <2>5 DEF configure
<1>12. CASE schedule
  BY <1>12 DEF schedule, argVars, configVars
<1>13. CASE schedule_endless
  BY <1>13 DEF schedule_endless, argVars, simVars, loadVars, configVars
<1>14. CASE schedule_unknown
  BY <1>14 DEF schedule_unknown, fail_unknown, exit, argVars, simVars, loadVars, configVars
<1>15. CASE report \/ report_no_entries \/ report_unsplit
  BY <1>15 DEF report, report_no_entries, report_unsplit, Report, malloc_fails, argVars,
     loadVars, configVars
<1>16. CASE report_row
  BY <1>16 DEF report_row, argVars, loadVars, configVars
<1>17. CASE print_comparison_table
  BY <1>17 DEF print_comparison_table, argVars, simVars, loadVars, configVars
<1>18. CASE return
  BY <1>18 DEF return, exit, argVars, simVars, loadVars, configVars
<1>19. CASE schedule_exits
  BY <1>19 DEF schedule_exits, malloc_fails, exit, argVars, simVars, loadVars, configVars
<1>20. CASE UNCHANGED vars
  BY <1>20 DEF vars, mainVars, argVars, simVars, loadVars, configVars
<1> QED
  BY <1>1, <1>2, <1>3, <1>4, <1>5, <1>6, <1>7, <1>8, <1>9, <1>10, <1>11, <1>12, <1>13, <1>14,
     <1>15, <1>16, <1>17, <1>18, <1>19, <1>20 DEF Next, ended

LEMMA FlowStep == Flow /\ [Next]_vars => Flow'
BY ArgsStep, FlowTypesStep, OrderStep, RowsStep DEF Flow

-----------------------------------------------------------------------------
(***************************************************************************)
(* What main owns: how many blocks of each kind, in each part of main.     *)
(***************************************************************************)
\* The blocks in `freed` are freed, those in `new` allocated.
Moved(freed, new) ==
  /\ heap' \in [Blocks -> Nat]
  /\ \A b \in Blocks \ (freed \cup new) : heap'[b] = heap[b]
  /\ \A b \in freed \cap Blocks : heap'[b] = heap[b] - 1
  /\ \A b \in new \cap Blocks : heap'[b] = heap[b] + 1

LEMMA AfterMoves ==
  ASSUME heap \in [Blocks -> Nat], NEW STATE freed, NEW STATE new, heap' = After(freed, new),
         \A b \in Blocks : b \in freed => heap[b] > 0 /\ b \notin new
  PROVE  Moved(freed, new)
<1>1. \A b \in Blocks :
        heap[b] - (IF b \in freed THEN 1 ELSE 0) + (IF b \in new THEN 1 ELSE 0) \in Nat
  OBVIOUS
<1> QED
  BY <1>1 DEF After, Moved

\* The blocks allocated in each part of main that the program does not leave.
MainOwns ==
  /\ \A s \in Strings : heap[s] = dups[s]
  /\ heap["procs"] = IF pc = "args" THEN 0 ELSE 1
  /\ heap["data"]  = IF loading = "string" THEN 1 ELSE 0
  /\ heap["fp"]    = IF loading = "file" \/ parsing = "file" THEN 1 ELSE 0
  /\ heap["log"]   = IF gantt_log = "NULL" THEN 0 ELSE 1
  /\ heap["copy"]  = IF pc \in Simulation /\ args.compare_mode THEN 1 ELSE 0
  /\ heap["policy"] = 0

\* An option's pointer is set when its string has been duplicated.
MemoryTypes ==
  /\ heap \in [Blocks -> Nat] /\ dups \in [Strings -> Nat]
  /\ \A s \in Strings : args[s] <=> dups[s] > 0

\* The array of entries that a single run can leave, and none can but at its end.
EntriesOwned ==
  /\ heap["entries"] \in {0, 1}
  /\ heap["entries"] = 1 => pc \in {"final", "exited"} /\ ~args.compare_mode

\* The inductive invariant of the memory.
MemoryKept ==
  /\ MemoryTypes /\ EntriesOwned
  /\ pc \notin {"exited", "lost"} => MainOwns
  /\ pc = "exited" /\ status = 0 =>
       \A b \in Blocks \ {"entries"} :
         heap[b] = IF b \in Strings /\ dups[b] > 1 THEN dups[b] - 1 ELSE 0

LEMMA MemoryInit == Init => MemoryKept
<1> SUFFICES ASSUME Init PROVE MemoryKept
  OBVIOUS
<1>1. \A s \in Strings : dups[s] = 0 /\ ~args[s]
  <2>1. ~args.processes_str /\ ~args.input_file /\ ~args.mlfq_config
    BY DEF Init, NoArgs
  <2> QED
    BY <2>1 DEF Init, Strings
<1>2. \A b \in Blocks : heap[b] = 0
  BY DEF Init
<1>3. MemoryTypes
  BY <1>1, <1>2 DEF Init, MemoryTypes
<1>4. MainOwns
  BY <1>1, <1>2 DEF Init, LoadInit, ConfigInit, MainOwns, Blocks,
   Strings, Simulation
<1>5. EntriesOwned
  BY <1>2 DEF EntriesOwned, Blocks
<1> QED
  BY <1>3, <1>4, <1>5 DEF Init, MemoryKept

LEMMA MemoryStep == Flow /\ MemoryKept /\ [Next]_vars => MemoryKept'
<1> SUFFICES ASSUME Flow, MemoryKept, [Next]_vars PROVE MemoryKept'
  OBVIOUS
<1> USE DEF Flow, FlowTypes, Order, Loaded, Simulation, MemoryKept, MemoryTypes, EntriesOwned,
            MainOwns, Blocks, Strings
<1>1. CASE parse_args
  <2>1. ASSUME NEW s \in Strings, opt_string(s) PROVE MemoryKept'
    <3>1. Moved({}, {s})
      BY <2>1, AfterMoves DEF opt_string
    <3>2. /\ dups' \in [Strings -> Nat]
          /\ dups'[s] = dups[s] + 1 /\ \A t \in Strings \ {s} : dups'[t] = dups[t]
      BY <2>1 DEF opt_string
    <3>3. args'[s] = TRUE /\ \A t \in Strings \ {s} : args'[t] = args[t]
      BY <2>1 DEF opt_string, ArgsType
    <3>4. pc = "args" /\ pc' = "args" /\ UNCHANGED << loading, parsing, status, gantt_log >>
      BY <1>1, <2>1 DEF parse_args, opt_string, Option, simVars, loadVars, configVars
    <3>5. MemoryTypes'
      BY <3>1, <3>2, <3>3 DEF Moved
    <3>6. MainOwns'
      <4>1. ASSUME NEW t \in Strings PROVE heap'[t] = dups'[t]
        <5>1. heap[t] = dups[t]
          BY <3>4
        <5>2. t \in Blocks
          OBVIOUS
        <5> HIDE DEF Flow, MemoryKept, Strings, Blocks
        <5>3. CASE t = s
          <6>1. heap'[t] = heap[t] + 1
            BY <3>1, <5>2, <5>3 DEF Moved
          <6> QED
            BY <3>2, <5>1, <5>3, <6>1
        <5>4. CASE t # s
          <6>1. heap'[t] = heap[t]
            BY <3>1, <5>2, <5>4 DEF Moved
          <6> QED
            BY <3>2, <5>1, <5>4, <6>1
        <5> QED
          BY <5>3, <5>4
      <4>2. \A b \in Blocks \ Strings : heap'[b] = heap[b]
        BY <3>1 DEF Moved
      <4> QED
        BY <3>4, <4>1, <4>2
    <3>7. EntriesOwned'
      BY <3>1, <3>4 DEF Moved
    <3> QED
      BY <3>4, <3>5, <3>6, <3>7
  <2>2. ASSUME NEW name \in AlgorithmNames, opt_algorithm(name) PROVE MemoryKept'
    <3>1. \A s \in Strings : args'[s] = args[s]
      BY <2>2 DEF opt_algorithm, ArgsType
    <3> QED
      BY <1>1, <2>2, <3>1 DEF parse_args, opt_algorithm, Option, simVars, loadVars, configVars
  <2>3. CASE opt_compare
    <3>1. \A s \in Strings : args'[s] = args[s]
      BY <2>3 DEF opt_compare, ArgsType
    <3> QED
      BY <1>1, <2>3, <3>1 DEF parse_args, opt_compare, Option, simVars, loadVars, configVars
  <2>4. CASE opt_rejected
    BY <1>1, <2>4 DEF parse_args, opt_rejected, Option, exit, simVars, loadVars, configVars
  <2> QED
    BY <1>1, <2>1, <2>2, <2>3, <2>4 DEF parse_args
<1>2. CASE load_string
  <2>1. heap' = After({}, {"procs", "data"})
    BY <1>2 DEF load_string
  <2>2. Moved({}, {"procs", "data"})
    BY <1>2, <2>1, AfterMoves DEF load_string
  <2> QED
    BY <1>2, <2>2 DEF load_string, Moved, string_begin, argVars, simVars, configVars
<1>3. CASE load_string_fails
  BY <1>3 DEF load_string_fails, malloc_fails, exit, argVars, simVars, loadVars, configVars
<1>4. CASE load_file
  <2>1. heap' = After({}, {"procs", "fp"})
    BY <1>4 DEF load_file
  <2>2. Moved({}, {"procs", "fp"})
    BY <1>4, <2>1, AfterMoves DEF load_file
  <2> QED
    BY <1>4, <2>2 DEF load_file, Moved, file_begin, argVars, simVars, configVars
<1>5. CASE load_nothing
  <2>1. heap' = After(ArgStrings, {})
    BY <1>5 DEF load_nothing
  <2>2. Moved(ArgStrings, {})
    BY <1>5, <2>1, AfterMoves DEF load_nothing, ArgStrings
  <2> QED
    BY <1>5, <2>2 DEF load_nothing, Moved, exit, ArgStrings, argVars, simVars, loadVars,
       configVars
<1>6. CASE load_item
  BY <1>6 DEF load_item, string_token, file_line, mainVars, argVars, simVars, configVars
<1>7. CASE load_return
  <2>1. CASE loading = "string"
    <3>1. heap' = After({"data"}, {})
      BY <2>1, <1>7 DEF load_return
    <3>2. Moved({"data"}, {})
      BY <2>1, <1>7, <3>1, AfterMoves DEF load_return
    <3> QED
      BY <2>1, <1>7, <3>2 DEF load_return, Moved, string_return, file_return, argVars, simVars,
         configVars
  <2>2. CASE loading = "file"
    <3>1. heap' = After({"fp"}, {})
      BY <2>2, <1>7 DEF load_return
    <3>2. Moved({"fp"}, {})
      BY <2>2, <1>7, <3>1, AfterMoves DEF load_return
    <3>3. /\ pc = "loading" /\ pc' = IF args.compare_mode THEN "compare" ELSE "run"
          /\ UNCHANGED << args, dups, parsing, gantt_log, status >>
          /\ loading = "file" /\ loading' = "done"
      BY <2>2, <1>7 DEF load_return, string_return, file_return, argVars, simVars, configVars
    <3>4. MemoryTypes' /\ EntriesOwned'
      BY <3>2, <3>3 DEF Moved
    <3>5. MainOwns'
      BY <3>2, <3>3 DEF Moved
    <3> QED
      BY <3>3, <3>4, <3>5
  <2> QED
    BY <1>7, <2>1, <2>2 DEF load_return
<1>8. CASE run_single
  <2>1. pc = "run" /\ pc' = "configure" /\ UNCHANGED << args, dups, loading, parsing, status >>
        /\ ~args.compare_mode
    BY <1>8 DEF run_single, argVars, loadVars, configVars
  <2>2. CASE heap' = After({}, {} \cup {"log"}) /\ gantt_log' = "empty"
    <3>1. Moved({}, {} \cup {"log"})
      BY <2>2, AfterMoves
    <3>2. MemoryTypes' /\ EntriesOwned'
      BY <2>1, <3>1 DEF Moved
    <3>3. MainOwns'
      BY <2>1, <2>2, <3>1 DEF Moved
    <3> QED
      BY <2>1, <3>2, <3>3
  <2>3. CASE heap' = After({}, {}) /\ gantt_log' = "NULL"
    <3>1. Moved({}, {})
      BY <2>3, AfterMoves
    <3>2. MemoryTypes' /\ EntriesOwned'
      BY <2>1, <3>1 DEF Moved
    <3>3. MainOwns'
      BY <2>1, <2>3, <3>1 DEF Moved
    <3> QED
      BY <2>1, <3>2, <3>3
  <2> QED
    BY <1>8, <2>2, <2>3 DEF run_single, init_scheduler_state
<1>9. CASE run_algorithm
  <2>1. pc = "compare" /\ pc' = "configure" /\ UNCHANGED << args, dups, loading, parsing, status >>
        /\ args.compare_mode
    BY <1>9 DEF run_algorithm, NextAlgorithm, prepare, argVars, configVars
  <2>2. CASE heap' = After({}, {"copy"} \cup {"log"}) /\ gantt_log' = "empty"
    <3>1. Moved({}, {"copy"} \cup {"log"})
      BY <2>2, AfterMoves
    <3>2. MemoryTypes' /\ EntriesOwned'
      BY <2>1, <3>1 DEF Moved
    <3>3. MainOwns'
      BY <2>1, <2>2, <3>1 DEF Moved
    <3> QED
      BY <2>1, <3>2, <3>3
  <2>3. CASE heap' = After({}, {"copy"}) /\ gantt_log' = "NULL"
    <3>1. Moved({}, {"copy"})
      BY <2>3, AfterMoves
    <3>2. MemoryTypes' /\ EntriesOwned'
      BY <2>1, <3>1 DEF Moved
    <3>3. MainOwns'
      BY <2>1, <2>3, <3>1 DEF Moved
    <3> QED
      BY <2>1, <3>2, <3>3
  <2> QED
    BY <1>9, <2>2, <2>3 DEF run_algorithm, init_scheduler_state
<1>10. CASE run_algorithm_fails
  BY <1>10 DEF run_algorithm_fails, NextAlgorithm, malloc_fails, argVars, configVars
<1>11. CASE configure
  <2>1. CASE configure_default
    BY <2>1 DEF configure_default, config_default, argVars, simVars, loadVars
  <2>2. CASE configure_open
    <3>1. heap' = After({}, {"fp"})
      BY <2>2 DEF configure_open
    <3>2. Moved({}, {"fp"})
      BY <2>2, <3>1, AfterMoves DEF configure_open
    <3>3. pc = "configure" /\ pc' = "configure"
          /\ UNCHANGED << args, dups, loading, gantt_log, status >>
          /\ parsing # "file" /\ parsing' = "file"
      BY <2>2 DEF configure_open, config_open, argVars, simVars, loadVars
    <3>4. MemoryTypes' /\ EntriesOwned'
      BY <3>2, <3>3 DEF Moved
    <3>5. MainOwns'
      BY <3>2, <3>3 DEF Moved
    <3> QED
      BY <3>3, <3>4, <3>5
  <2>3. CASE configure_line
    BY <2>3 DEF configure_line, config_level, config_boost, config_ignore, NextLine, mainVars,
       argVars, simVars, loadVars
  <2>4. CASE configure_reject
    <3>1. heap' = After({"fp"}, {})
      BY <2>4 DEF configure_reject
    <3>2. Moved({"fp"}, {})
      BY <2>4, <3>1, AfterMoves DEF configure_reject, config_reject
    <3> QED
      BY <2>4, <3>2 DEF configure_reject, Moved, config_reject, exit, argVars, simVars, loadVars
  <2>5. CASE configure_return
    <3>1. heap' = After({"fp"}, {})
      BY <2>5 DEF configure_return
    <3>2. Moved({"fp"}, {})
      BY <2>5, <3>1, AfterMoves DEF configure_return, config_return
    <3>3. pc = "configure" /\ pc' = "schedule"
          /\ UNCHANGED << args, dups, loading, gantt_log, status >>
          /\ parsing = "file" /\ parsing' = "done"
      BY <2>5 DEF configure_return, config_return, argVars, simVars, loadVars
    <3>4. MemoryTypes' /\ EntriesOwned'
      BY <3>2, <3>3 DEF Moved
    <3>5. MainOwns'
      BY <3>2, <3>3 DEF Moved
    <3> QED
      BY <3>3, <3>4, <3>5
  <2> QED
    BY <1>11, <2>1, <2>2, <2>3, <2>4, <2>5 DEF configure
<1>12. CASE schedule
  <2>1. /\ pc = "schedule" /\ pc' = "report"
        /\ UNCHANGED << args, dups, heap, loading, parsing, status >>
    BY <1>12 DEF schedule, argVars, configVars
  <2>2. gantt_log' = "NULL" <=> gantt_log = "NULL"
    BY <1>12, LogRun DEF schedule
  <2> QED
    BY <2>1, <2>2
<1>13. CASE schedule_endless
  BY <1>13 DEF schedule_endless, argVars, simVars, loadVars, configVars
<1>14. CASE schedule_unknown
  <2>1. heap' = After({"procs"} \cup ArgStrings, {})
    BY <1>14 DEF schedule_unknown
  <2>2. Moved({"procs"} \cup ArgStrings, {})
    BY <1>14, <2>1, AfterMoves DEF schedule_unknown, ArgStrings
  <2> QED
    BY <1>14, <2>2 DEF schedule_unknown, Moved, fail_unknown, exit, ArgStrings, argVars,
       simVars, loadVars, configVars
<1>15. CASE report \/ report_no_entries \/ report_unsplit
  <2>1. /\ pc = "report" /\ ~args.compare_mode /\ pc' = "final" /\ gantt_log' = "NULL"
        /\ UNCHANGED << args, dups, loading, parsing, status >>
    BY <1>15 DEF report, report_no_entries, report_unsplit, Report, argVars, loadVars, configVars
  <2>2. PICK entries \in {{}, {"entries"}} : heap' = After(cleanup_scheduler_state, entries)
    BY <1>15 DEF report, report_no_entries, report_unsplit, Report
  <2>3. Moved(cleanup_scheduler_state, entries)
    BY <2>1, <2>2, AfterMoves DEF cleanup_scheduler_state
  <2>4. MemoryTypes'
    BY <2>1, <2>3 DEF Moved
  <2>5. EntriesOwned'
    BY <2>1, <2>2, <2>3 DEF Moved, cleanup_scheduler_state
  <2>6. MainOwns'
    BY <2>1, <2>2, <2>3 DEF Moved, cleanup_scheduler_state
  <2> QED
    BY <2>1, <2>4, <2>5, <2>6
<1>16. CASE report_row
  <2>1. heap' = After(FreedByRow, {})
    BY <1>16 DEF report_row
  <2>6. \A b \in Blocks : b \in FreedByRow => heap[b] > 0
    <3>1. pc = "report" /\ args.compare_mode
      BY <1>16 DEF report_row
    <3>2. heap["log"] = (IF gantt_log = "NULL" THEN 0 ELSE 1) /\ heap["copy"] = 1
      BY <3>1
    <3>3. FreedByRow = (IF gantt_log = "NULL" THEN {} ELSE {"log"}) \cup {"copy"}
      BY DEF FreedByRow, cleanup_scheduler_state
    <3> QED
      BY <3>2, <3>3
  <2>2. Moved(FreedByRow, {})
    BY <2>1, <2>6, AfterMoves
  <2>3. pc = "report" /\ pc' = "compare" /\ UNCHANGED << args, dups, loading, parsing, status >>
        /\ args.compare_mode /\ gantt_log' = "NULL"
    BY <1>16 DEF report_row, argVars, loadVars, configVars
  <2>4. MemoryTypes' /\ EntriesOwned'
    BY <2>2, <2>3 DEF Moved, FreedByRow, cleanup_scheduler_state
  <2>5. MainOwns'
    BY <2>2, <2>3 DEF Moved, FreedByRow, cleanup_scheduler_state
  <2> QED
    BY <2>3, <2>4, <2>5
<1>17. CASE print_comparison_table
  BY <1>17 DEF print_comparison_table, argVars, simVars, loadVars, configVars
<1>18. CASE return
  <2>1. Moved({"procs"} \cup ArgStrings, {})
    BY <1>18, AfterMoves DEF return, ArgStrings
  <2>2. MemoryTypes'
    BY <1>18, <2>1 DEF Moved, return, argVars
  <2>4. /\ pc = "final" /\ loading = "done" /\ parsing # "file"
        /\ UNCHANGED << args, dups, loading, parsing >>
    BY <1>18 DEF return, argVars, loadVars, configVars
  <2>5. EntriesOwned'
    BY <1>18, <2>1, <2>4 DEF Moved, return, exit, ArgStrings
  <2>6. gantt_log = "NULL" /\ MainOwns
    BY <2>4
  <2>3. ASSUME NEW b \in Blocks \ {"entries"}
        PROVE  heap'[b] = IF b \in Strings /\ dups'[b] > 1 THEN dups'[b] - 1 ELSE 0
    <3>1. CASE b \in Strings
      <4>1. heap'[b] = heap[b] - (IF args[b] THEN 1 ELSE 0)
        <5>1. b \in Blocks /\ b # "procs"
          BY <3>1
        <5>2. CASE args[b]
          <6>1. b \in ArgStrings
            BY <3>1, <5>2 DEF ArgStrings
          <6> QED
            BY <2>1, <5>1, <5>2, <6>1 DEF Moved
        <5>3. CASE ~args[b]
          BY <2>1, <5>1, <5>3 DEF Moved, ArgStrings
        <5> QED
          BY <5>2, <5>3
      <4>2. heap[b] = dups[b] /\ dups[b] \in Nat /\ (args[b] <=> dups[b] > 0) /\ dups'[b] = dups[b]
        BY <2>4, <3>1
      <4> QED
        BY <3>1, <4>1, <4>2
    <3>2. CASE b \notin Strings
      <4>1. heap'[b] = heap[b] - (IF b = "procs" THEN 1 ELSE 0)
        BY <2>1, <3>2 DEF Moved, ArgStrings
      <4>2. heap[b] = IF b = "procs" THEN 1 ELSE 0
        BY <2>4, <2>6, <3>2
      <4> QED
        BY <3>2, <4>1, <4>2
    <3> QED
      BY <3>1, <3>2
  <2> QED
    BY <1>18, <2>2, <2>3, <2>5 DEF return, exit
<1>19. CASE schedule_exits
  <2>1. pc = "schedule" /\ pc' = "exited" /\ status' = 1 /\ UNCHANGED << args, dups >>
    BY <1>19 DEF schedule_exits, exit, argVars
  <2>2. CASE heap' = heap
    BY <2>1, <2>2
  <2>3. CASE heap' = After({}, {"policy"})
    <3>1. Moved({}, {"policy"})
      BY <2>3, AfterMoves
    <3> QED
      BY <2>1, <3>1 DEF Moved
  <2> QED
    BY <1>19, <2>2, <2>3 DEF schedule_exits
<1>20. CASE UNCHANGED vars
  BY <1>20 DEF vars, mainVars, argVars, simVars, loadVars, configVars
<1> QED
  BY <1>1, <1>2, <1>3, <1>4, <1>5, <1>6, <1>7, <1>8, <1>9, <1>10, <1>11, <1>12, <1>13, <1>14,
     <1>15, <1>16, <1>17, <1>18, <1>19, <1>20 DEF Next, ended
-----------------------------------------------------------------------------
(***************************************************************************)
(* The workload: what the sums over its items, by which an array is sized, *)
(* and the number of those read so far come to, one item at a time.        *)
(***************************************************************************)
\* The items up to k from which a process can be read.
ReadableUpTo(k) == {i \in Readable : i <= k}

LEMMA ReadableCount ==
  ASSUME NEW k \in Nat, Len(input) \in Nat
  PROVE  /\ IsFiniteSet(Readable) /\ Cardinality(Readable) \in Nat
         /\ IsFiniteSet(ReadableUpTo(k)) /\ Cardinality(ReadableUpTo(k)) \in Nat
         /\ ReadableUpTo(0) = {} /\ Cardinality(ReadableUpTo(0)) = 0
         /\ k >= Len(input) => ReadableUpTo(k) = Readable
         /\ Cardinality(ReadableUpTo(k + 1)) =
              Cardinality(ReadableUpTo(k)) + (IF k + 1 \in Readable THEN 1 ELSE 0)
<1>1. IsFiniteSet(1 .. Len(input))
  BY FS_Interval
<1>2. IsFiniteSet(Readable)
  BY <1>1, FS_Subset DEF Readable
<1>3. \A j \in Nat : IsFiniteSet(ReadableUpTo(j))
  BY <1>2, FS_Subset DEF ReadableUpTo
<1>4. ReadableUpTo(0) = {} /\ Cardinality({}) = 0
  BY FS_EmptySet DEF ReadableUpTo, Readable
<1>5. k >= Len(input) => ReadableUpTo(k) = Readable
  BY DEF ReadableUpTo, Readable
<1>6. Cardinality(ReadableUpTo(k + 1)) =
        Cardinality(ReadableUpTo(k)) + (IF k + 1 \in Readable THEN 1 ELSE 0)
  <2>1. CASE k + 1 \in Readable
    <3>1. ReadableUpTo(k + 1) = ReadableUpTo(k) \cup {k + 1} /\ k + 1 \notin ReadableUpTo(k)
      BY <2>1 DEF ReadableUpTo, Readable
    <3> QED
      BY <1>3, <2>1, <3>1, FS_AddElement
  <2>2. CASE k + 1 \notin Readable
    <3>1. ReadableUpTo(k + 1) = ReadableUpTo(k)
      BY <2>2 DEF ReadableUpTo, Readable
    <3> QED
      BY <1>3, <2>2, <3>1, FS_CardinalityType
  <2> QED
    BY <2>1, <2>2
<1> QED
  BY <1>2, <1>3, <1>4, <1>5, <1>6, FS_CardinalityType

\* Two colons for each process that can be read, and the stray ones.
LEMMA ColonsOfProcesses ==
  ASSUME input \in Seq(Tokens)
  PROVE  /\ StrayColons \in Nat
         /\ Colons(input) = StrayColons + 2 * Cardinality(Readable)
<1> DEFINE n == Len(input)
           all == [k \in 1 .. n |-> input[k].colons]
           stray == [k \in 1 .. n |-> input[k].colons - (IF k \in Readable THEN 2 ELSE 0)]
<1>1. n \in Nat /\ IsString /\ \A k \in 1 .. n : input[k] \in Tokens
  BY DEF IsString
<1>2. \A k \in 1 .. n : /\ input[k].colons \in Nat
                        /\ k \in Readable => input[k].colons >= 2
  <2>1. \A token \in Tokens : token.colons \in Nat
    BY InputAssumption
  <2> QED
    BY <1>1, <2>1, InputAssumption DEF Readable
<1>3. all \in [1 .. n -> Int] /\ stray \in [1 .. n -> Int]
  BY <1>2
<1>4. \A k \in 1 .. n : /\ stray[k] \in Nat
                        /\ all[k] = stray[k] + (IF k \in Readable THEN 2 ELSE 0)
  BY <1>2
<1>5. StrayColons = Total(n, stray) /\ Colons(input) = Total(n, all)
  BY <1>1 DEF StrayColons, Colons
<1> HIDE DEF n, all, stray
<1>6. PICK a \in [0 .. n -> Int] : /\ a[0] = 0 /\ \A k \in 1 .. n : a[k] = a[k - 1] + all[k]
                                   /\ Total(n, all) = a[n]
  BY <1>1, <1>3, TotalSteps
<1>7. PICK s \in [0 .. n -> Int] : /\ s[0] = 0 /\ \A k \in 1 .. n : s[k] = s[k - 1] + stray[k]
                                   /\ Total(n, stray) = s[n]
  BY <1>1, <1>3, TotalSteps
<1> DEFINE S == {k \in 0 .. n : s[k] \in Nat /\ a[k] = s[k] + 2 * Cardinality(ReadableUpTo(k))}
<1>8. 0 \in S
  BY <1>1, <1>6, <1>7, ReadableCount DEF n
<1>9. ASSUME NEW k \in 0 .. n - 1, k \in S PROVE k + 1 \in S
  <2>1. k + 1 \in 1 .. n /\ (k + 1) - 1 = k /\ k \in Nat
    BY <1>1
  <2>2. a[k + 1] = a[k] + all[k + 1] /\ s[k + 1] = s[k] + stray[k + 1]
    BY <1>6, <1>7, <2>1
  <2>3. /\ Cardinality(ReadableUpTo(k)) \in Nat /\ Cardinality(ReadableUpTo(k + 1)) \in Nat
        /\ Cardinality(ReadableUpTo(k + 1)) =
             Cardinality(ReadableUpTo(k)) + (IF k + 1 \in Readable THEN 1 ELSE 0)
    <3>1. Len(input) \in Nat
      BY <1>1 DEF n
    <3> QED
      BY <2>1, <3>1, ReadableCount
  <2>4. stray[k + 1] \in Nat /\ all[k + 1] = stray[k + 1] + (IF k + 1 \in Readable THEN 2 ELSE 0)
    BY <1>4, <2>1
  <2>5. s[k] \in Nat /\ a[k] = s[k] + 2 * Cardinality(ReadableUpTo(k))
    BY <1>9
  <2>6. s[k + 1] \in Nat
    BY <2>2, <2>4, <2>5
  <2>7. a[k + 1] = s[k + 1] + 2 * Cardinality(ReadableUpTo(k + 1))
    BY <2>2, <2>3, <2>4, <2>5
  <2> QED
    BY <2>1, <2>6, <2>7
<1>10. n \in S
  <2> HIDE DEF S
  <2>1. \A k \in 0 .. n : k \in S
    BY <1>1, <1>8, <1>9, UpTo
  <2> QED
    BY <1>1, <2>1
<1>11. ReadableUpTo(n) = Readable
  BY <1>1, ReadableCount DEF n
<1> QED
  BY <1>5, <1>6, <1>7, <1>10, <1>11

LEMMA TotalNat ==
  ASSUME NEW n \in Nat, NEW f \in [1 .. n -> Nat]
  PROVE  Total(n, f) \in Nat
<1>1. PICK sum \in [0 .. n -> Int] :
        /\ sum[0] = 0 /\ \A k \in 1 .. n : sum[k] = sum[k - 1] + f[k]
        /\ Total(n, f) = sum[n]
  <2>1. f \in [1 .. n -> Int]
    OBVIOUS
  <2> QED
    BY <2>1, TotalSteps
<1> DEFINE S == {k \in 0 .. n : sum[k] \in Nat}
<1>2. 0 \in S
  BY <1>1
<1>3. ASSUME NEW k \in 0 .. n - 1, k \in S PROVE k + 1 \in S
  <2>1. k + 1 \in 1 .. n /\ (k + 1) - 1 = k
    OBVIOUS
  <2> QED
    BY <1>1, <1>3, <2>1
<1>4. \A k \in 0 .. n : k \in S
  <2> HIDE DEF S
  <2> QED
    BY <1>2, <1>3, UpTo
<1> QED
  BY <1>1, <1>4

LEMMA CountNat ==
  ASSUME NEW tokens \in Seq(Tokens)
  PROVE  count_processes(tokens) \in Nat
<1> DEFINE n == Len(tokens)
           all == [k \in 1 .. n |-> tokens[k].colons]
<1>1. n \in Nat /\ all \in [1 .. n -> Nat]
  <2>1. \A token \in Tokens : token.colons \in Nat
    BY InputAssumption
  <2> QED
    BY <2>1
<1>2. Colons(tokens) = Total(n, all)
  BY DEF Colons
<1> HIDE DEF n, all
<1>3. Colons(tokens) \in Nat
  BY <1>1, <1>2, TotalNat
<1> QED
  BY <1>3 DEF count_processes

(***************************************************************************)
(* The inductive invariant of the parsers.  parsed counts the items behind *)
(* the position that contain a process; so if the array of the string is   *)
(* full the processes that fit into the colons have all been read.         *)
(***************************************************************************)
LoadTypes ==
  /\ loading \in {"none", "string", "file", "done"}
  /\ input \in Seq(Tokens) \cup Seq(Pieces)
  /\ position \in 1 .. Len(input) + 1
  /\ procs \in Seq(Element) /\ parsed \in 0 .. Len(procs) /\ num_procs \in 0 .. Len(procs)

\* The elements of an array that have been read, and the others.
Holds(array) ==
  /\ HoldsParsed(array)
  /\ \A k \in 1 .. parsed : array[k].burst = input[array[k].item].process

\* The array at the end: the k-th element is the k-th item that can be read.
LoadedInOrder ==
  loading = "done" =>
    /\ parsed = Cardinality(Readable)
    /\ Holds(procs)
    /\ parsed <= num_procs /\ num_procs <= Len(procs)
    /\ (num_procs = parsed) <=> (StrayColons < 2)

LoadKept ==
  /\ LoadTypes
  /\ parsed = Cardinality(ReadableUpTo(position - 1))
  /\ Holds(procs)
  /\ loading = "none" => position = 1 /\ procs = << >>
  /\ loading = "string" =>
       input \in Seq(Tokens) /\ num_procs = count_processes(input) /\ Len(procs) = num_procs
  /\ loading = "file" => input \in Seq(Pieces) /\ Len(procs) > 0
  /\ LoadedInOrder

LEMMA InputFacts ==
  ASSUME input \in Seq(Tokens) \cup Seq(Pieces)
  PROVE  Len(input) \in Nat /\ \A i \in 1 .. Len(input) : input[i].process \in Reading
<1>1. \A item \in Tokens \cup Pieces : item.process \in Reading
  BY InputAssumption
<1> QED
  BY <1>1

LEMMA AllocatedFacts ==
  ASSUME NEW n \in Nat
  PROVE  /\ Allocated(n) \in Seq(Element) /\ Len(Allocated(n)) = n
         /\ \A k \in 1 .. n : Allocated(n)[k] = Unset
<1>1. Unset \in Element
  BY DEF Unset, Element
<1> QED
  BY <1>1 DEF Allocated

\* The parsers of an item: the array has room for a process.
LEMMA StoreStep ==
  ASSUME input \in Seq(Tokens) \cup Seq(Pieces), position \in 1 .. Len(input),
         parsed = Cardinality(ReadableUpTo(position - 1)),
         NEW STATE array, array \in Seq(Element), parsed < Len(array), Holds(array),
         Store(array), position' = position + 1, input' = input
  PROVE  /\ procs' \in Seq(Element) /\ Len(procs') = Len(array)
         /\ parsed' \in 0 .. Len(procs')
         /\ parsed' = Cardinality(ReadableUpTo(position))
         /\ Holds(procs)'
<1>1. /\ Len(input) \in Nat /\ \A i \in 1 .. Len(input) : input[i].process \in Reading
      /\ position \in Nat /\ position - 1 \in Nat /\ (position - 1) + 1 = position
  BY InputFacts
<1>2. /\ parsed \in Nat
      /\ Cardinality(ReadableUpTo(position)) = parsed + (IF position \in Readable THEN 1 ELSE 0)
  BY <1>1, ReadableCount
<1>3. Readable' = Readable
  BY DEF Readable
<1>4. CASE position \notin Readable
  <2>1. procs' = array /\ parsed' = parsed
    BY <1>1, <1>4 DEF Store, Readable
  <2>2. Holds(procs)'
    BY <1>3, <2>1 DEF Holds, HoldsParsed, IsReadable
  <2> QED
    BY <1>2, <1>4, <2>1, <2>2
<1>5. CASE position \in Readable
  <2> DEFINE e == init_process(position)
  <2>1. procs' = [array EXCEPT ![parsed + 1] = e] /\ parsed' = parsed + 1
    BY <1>5 DEF Store, Readable
  <2>2. /\ e \in Element /\ e.item = position /\ e.burst = input[position].process
    <3>1. input[position].process \in {"served", "negative"}
      BY <1>1, <1>5 DEF Reading, Readable
    <3> QED
      BY <1>1, <3>1 DEF init_process, Element
  <2> HIDE DEF e
  <2>3. parsed + 1 \in 1 .. Len(array)
    BY <1>2
  <2>4. /\ procs' \in Seq(Element) /\ Len(procs') = Len(array)
        /\ procs'[parsed + 1] = e
        /\ \A k \in 1 .. Len(array) : k # parsed + 1 => procs'[k] = array[k]
    BY <2>1, <2>2, <2>3
  <2>5. IsReadable(position, parsed + 1)
    <3>1. {j \in Readable : j < position} = ReadableUpTo(position - 1)
      BY <1>1 DEF ReadableUpTo, Readable
    <3>2. Cardinality({j \in Readable : j < position}) = (parsed + 1) - 1
      <4>1. Cardinality({j \in Readable : j < position}) = parsed
        BY <3>1, Zenon
      <4>2. parsed = (parsed + 1) - 1
        BY <1>2
      <4> QED
        BY <4>1, <4>2, Zenon
    <3> QED
      BY <1>5, <3>2, Zenon DEF IsReadable
  <2>6. ASSUME NEW k \in 1 .. Len(array)
        PROVE  IF k <= parsed + 1 THEN IsReadable(procs'[k].item, k)
               ELSE procs'[k].item = Unset.item
    <3>1. CASE k = parsed + 1
      BY <1>2, <2>2, <2>4, <2>5, <3>1
    <3>2. CASE k # parsed + 1
      <4>1. procs'[k] = array[k] /\ (k <= parsed + 1 <=> k <= parsed)
        BY <1>2, <2>4, <3>2
      <4>2. IF k <= parsed THEN IsReadable(array[k].item, k) ELSE array[k].item = Unset.item
        BY DEF Holds, HoldsParsed
      <4> QED
        BY <4>1, <4>2
    <3> QED
      BY <3>1, <3>2
  <2>7. ASSUME NEW k \in 1 .. parsed + 1
        PROVE  procs'[k].burst = input'[procs'[k].item].process
    <3>1. CASE k = parsed + 1
      BY <2>2, <2>4, <3>1
    <3>2. CASE k # parsed + 1
      <4>1. k \in 1 .. parsed /\ k \in 1 .. Len(array) /\ procs'[k] = array[k]
        BY <1>2, <2>3, <2>4, <3>2
      <4> QED
        BY <4>1 DEF Holds
    <3> QED
      BY <3>1, <3>2
  <2>8. Holds(procs)'
    <3>1. ASSUME NEW k \in DOMAIN procs'
          PROVE  IF k <= parsed' THEN IsReadable(procs[k].item, k)' ELSE procs'[k].item = Unset.item
      <4>1. IsReadable(procs[k].item, k)' <=> IsReadable(procs'[k].item, k)
        BY <1>3, Zenon DEF IsReadable
      <4>2. k \in 1 .. Len(array)
        BY <2>4
      <4> QED
        BY <2>1, <2>6, <4>1, <4>2
    <3> QED
      BY <2>1, <2>7, <3>1 DEF Holds, HoldsParsed, Unset
  <2> QED
    BY <1>2, <1>5, <2>1, <2>3, <2>4, <2>8
<1> QED
  BY <1>4, <1>5

\* What does not depend on the array.
LEMMA SameInput ==
  ASSUME input' = input
  PROVE  /\ Readable' = Readable /\ StrayColons' = StrayColons
         /\ \A k : ReadableUpTo(k)' = ReadableUpTo(k)
         /\ \A i, k : IsReadable(i, k)' <=> IsReadable(i, k)
<1>1. Readable' = Readable
  BY DEF Readable
<1>2. StrayColons' = StrayColons
  BY <1>1 DEF StrayColons, IsString
<1> QED
  BY <1>1, <1>2, Zenon DEF ReadableUpTo, IsReadable

\* A simulation, and the reset before it, leave alone what the parsers wrote.
LEMMA SameItems ==
  ASSUME LoadKept, UNCHANGED << loading, input, position, parsed, num_procs >>,
         procs' \in Seq(Element), Len(procs') = Len(procs),
         \A k \in 1 .. Len(procs) :
           procs'[k].item = procs[k].item /\ procs'[k].burst = procs[k].burst
  PROVE  LoadKept'
<1>1. LoadTypes'
  BY DEF LoadKept, LoadTypes
<1>2. parsed \in 0 .. Len(procs) /\ Len(procs) \in Nat
  BY DEF LoadKept, LoadTypes
<1>3. \A k \in 1 .. Len(procs) :
        IF k <= parsed THEN IsReadable(procs'[k].item, k) ELSE procs'[k].item = Unset.item
  BY DEF LoadKept, Holds, HoldsParsed
<1>4. HoldsParsed(procs)'
  <2> SUFFICES ASSUME NEW k \in DOMAIN procs'
               PROVE  IF k <= parsed THEN IsReadable(procs[k].item, k)'
                                     ELSE procs'[k].item = Unset.item
    BY DEF HoldsParsed, Unset
  <2>1. IsReadable(procs[k].item, k)' <=> IsReadable(procs'[k].item, k)
    BY SameInput, Zenon DEF IsReadable
  <2>2. k \in 1 .. Len(procs)
    BY <1>1 DEF LoadTypes
  <2> QED
    BY <1>3, <2>1, <2>2
<1>5. \A k \in 1 .. parsed : procs'[k].burst = input[procs'[k].item].process
  BY <1>2 DEF LoadKept, Holds
<1>6. Holds(procs)'
  BY <1>4, <1>5 DEF Holds
<1>7. ReadableUpTo(position - 1)' = ReadableUpTo(position - 1)
  BY SameInput, Zenon DEF ReadableUpTo
<1>8. LoadedInOrder'
  BY <1>6, SameInput DEF LoadedInOrder, LoadKept
<1>9. loading = "none" => procs' = << >>
  BY EmptySeq DEF LoadKept
<1> QED
  BY <1>1, <1>6, <1>7, <1>8, <1>9 DEF LoadKept, count_processes

LEMMA LoadBegins == LoadInit => LoadKept
<1> SUFFICES ASSUME LoadInit PROVE LoadKept
  OBVIOUS
<1>1. LoadTypes
  BY DEF LoadInit, LoadTypes
<1>2. position - 1 = 0 /\ Cardinality(ReadableUpTo(0)) = 0
  BY ReadableCount DEF LoadInit
<1>3. Holds(procs)
  BY DEF LoadInit, Holds, HoldsParsed
<1> QED
  BY <1>1, <1>2, <1>3 DEF LoadInit, LoadKept, LoadedInOrder

\* A fresh array for an input of which nothing has been read.
LEMMA BeginStep ==
  ASSUME LoadKept, loading = "none", input' \in Seq(Tokens) \cup Seq(Pieces),
         NEW STATE n, n \in Nat, procs' = Allocated(n),
         num_procs' \in 0 .. n, UNCHANGED << position, parsed >>, loading' \in {"string", "file"}
  PROVE  /\ LoadTypes' /\ Holds(procs)'
         /\ parsed' = Cardinality(ReadableUpTo(position - 1)')
<1>1. position = 1 /\ parsed = 0
  <2>1. position = 1 /\ Len(input) \in Nat /\ parsed = Cardinality(ReadableUpTo(position - 1))
    BY InputFacts DEF LoadKept, LoadTypes
  <2>2. position - 1 = 0
    BY <2>1
  <2> QED
    BY <2>1, <2>2, ReadableCount
<1>2. /\ procs' \in Seq(Element) /\ Len(procs') = n
      /\ \A k \in 1 .. n : procs'[k] = Unset
  BY AllocatedFacts
<1>3. LoadTypes'
  <2>1. Len(input') \in Nat
    OBVIOUS
  <2> QED
    BY <1>1, <1>2, <2>1 DEF LoadTypes
<1>4. Holds(procs)'
  BY <1>1, <1>2 DEF Holds, HoldsParsed
<1>5. ReadableUpTo(position - 1)' = {}
  BY <1>1 DEF ReadableUpTo, Readable
<1> QED
  BY <1>1, <1>3, <1>4, <1>5, FS_EmptySet

LEMMA StringBegins ==
  ASSUME LoadKept, NEW tokens \in Seq(Tokens), string_begin(tokens)
  PROVE  LoadKept'
<1> DEFINE n == count_processes(tokens)
<1>1. /\ loading = "none" /\ loading' = "string" /\ input' = tokens
      /\ num_procs' = n /\ procs' = Allocated(n) /\ UNCHANGED << position, parsed >>
  BY DEF string_begin
<1>2. n \in Nat
  BY CountNat
<1> HIDE DEF n
<1>3. /\ LoadTypes' /\ Holds(procs)'
      /\ parsed' = Cardinality(ReadableUpTo(position - 1)')
  BY <1>1, <1>2, BeginStep
<1>4. Len(procs') = n
  BY <1>1, <1>2, AllocatedFacts
<1> QED
  BY <1>1, <1>3, <1>4 DEF LoadKept, LoadedInOrder, n

LEMMA FileBegins ==
  ASSUME LoadKept, NEW pieces \in Seq(Pieces), file_begin(pieces)
  PROVE  LoadKept'
<1>1. /\ loading = "none" /\ loading' = "file" /\ input' = pieces
      /\ procs' = Allocated(InitialCapacity) /\ UNCHANGED << position, parsed, num_procs >>
  BY DEF file_begin
<1>2. InitialCapacity \in Nat \ {0}
  BY InputAssumption
<1>3. num_procs = 0
  BY <1>1 DEF LoadKept, LoadTypes
<1>4. /\ LoadTypes' /\ Holds(procs)'
      /\ parsed' = Cardinality(ReadableUpTo(position - 1)')
  BY <1>1, <1>2, <1>3, BeginStep
<1>5. Len(procs') = InitialCapacity
  BY <1>1, <1>2, AllocatedFacts
<1> QED
  BY <1>1, <1>2, <1>4, <1>5 DEF LoadKept, LoadedInOrder

\* Once the array of the string is full, or the string is over, everything has been read.
LEMMA StringReturns ==
  ASSUME LoadKept, string_return
  PROVE  LoadKept'
<1>1. /\ loading = "string" /\ loading' = "done" /\ ~MoreTokens
      /\ UNCHANGED << input, position, procs, parsed, num_procs >>
  BY DEF string_return
<1>2. /\ input \in Seq(Tokens) /\ num_procs = Colons(input) \div 2 /\ Len(procs) = num_procs
      /\ Len(input) \in Nat /\ position \in 1 .. Len(input) + 1
      /\ parsed = Cardinality(ReadableUpTo(position - 1))
      /\ parsed \in Nat /\ num_procs \in Nat /\ parsed <= num_procs
  BY <1>1, InputFacts DEF LoadKept, LoadTypes, count_processes
<1> DEFINE R == Cardinality(Readable)
<1>3. /\ StrayColons \in Nat /\ Colons(input) = StrayColons + 2 * R
      /\ R \in Nat /\ IsFiniteSet(Readable)
  BY <1>2, ColonsOfProcesses, ReadableCount
<1>4. parsed = R
  <2>1. CASE position > Len(input)
    <3>1. ReadableUpTo(position - 1) = Readable
      <4>1. position - 1 \in Nat /\ position - 1 >= Len(input)
        BY <1>2, <2>1
      <4> QED
        BY <1>2, <4>1, ReadableCount
    <3> QED
      BY <1>2, <3>1
  <2>2. CASE parsed >= num_procs
    <3>1. ReadableUpTo(position - 1) \subseteq Readable
      BY DEF ReadableUpTo
    <3>2. parsed <= R
      BY <1>2, <1>3, <3>1, FS_Subset
    <3> HIDE DEF R
    <3>3. R <= num_procs
      BY <1>2, <1>3
    <3> QED
      BY <1>2, <1>3, <2>2, <3>2, <3>3
  <2> QED
    BY <1>1, <1>2, <2>1, <2>2 DEF MoreTokens
<1>5. num_procs = parsed <=> StrayColons < 2
  <2> HIDE DEF R
  <2> QED
    BY <1>2, <1>3, <1>4
<1>6. Readable' = Readable /\ StrayColons' = StrayColons
  BY <1>1, SameInput
<1>7. LoadTypes' /\ Holds(procs)' /\ ReadableUpTo(position - 1)' = ReadableUpTo(position - 1)
  BY <1>1, <1>6, Zenon DEF LoadKept, LoadTypes, Holds, HoldsParsed, IsReadable, ReadableUpTo, Unset
<1>8. LoadedInOrder'
  BY <1>1, <1>2, <1>4, <1>5, <1>6, <1>7 DEF LoadedInOrder, Holds
<1> QED
  BY <1>1, <1>2, <1>7, <1>8 DEF LoadKept

LEMMA TokenStep ==
  ASSUME LoadKept, string_token
  PROVE  LoadKept'
<1>1. /\ loading = "string" /\ MoreTokens /\ Store(procs) /\ position' = position + 1
      /\ UNCHANGED << loading, input, num_procs >>
  BY DEF string_token, strtok
<1>2. /\ input \in Seq(Tokens) /\ num_procs = count_processes(input) /\ Len(procs) = num_procs
      /\ Len(input) \in Nat /\ position \in 1 .. Len(input) /\ parsed \in Nat
      /\ parsed < Len(procs) /\ procs \in Seq(Element) /\ num_procs \in Nat
      /\ parsed = Cardinality(ReadableUpTo(position - 1)) /\ Holds(procs)
  BY <1>1, InputFacts DEF LoadKept, LoadTypes, MoreTokens
<1>3. /\ procs' \in Seq(Element) /\ Len(procs') = Len(procs)
      /\ parsed' \in 0 .. Len(procs')
      /\ parsed' = Cardinality(ReadableUpTo(position))
      /\ Holds(procs)'
  BY <1>1, <1>2, StoreStep
<1>4. LoadTypes'
  BY <1>1, <1>2, <1>3 DEF LoadTypes
<1>5. parsed' = Cardinality(ReadableUpTo(position - 1)')
  <2>1. ReadableUpTo(position - 1)' = ReadableUpTo(position)
    <3>1. position' - 1 = position
      BY <1>1, <1>2
    <3> QED
      BY <1>1, <3>1, SameInput, Zenon DEF ReadableUpTo
  <2> QED
    BY <1>3, <2>1
<1> QED
  BY <1>1, <1>2, <1>3, <1>4, <1>5 DEF LoadKept, LoadedInOrder

LEMMA GrownFacts ==
  ASSUME LoadKept, Len(procs) > 0
  PROVE  /\ Grown \in Seq(Element) /\ parsed < Len(Grown) /\ Len(Grown) >= Len(procs)
         /\ Holds(Grown)
<1>1. /\ procs \in Seq(Element) /\ Len(procs) \in Nat /\ parsed \in 0 .. Len(procs) /\ Holds(procs)
  BY DEF LoadKept, LoadTypes
<1>2. CASE parsed >= Len(procs)
  <2> DEFINE fresh == Allocated(Len(procs))
  <2>1. /\ fresh \in Seq(Element) /\ Len(fresh) = Len(procs)
        /\ \A k \in 1 .. Len(procs) : fresh[k] = Unset
    BY <1>1, AllocatedFacts
  <2>2. Grown = procs \o fresh
    BY <1>2 DEF Grown
  <2> HIDE DEF fresh
  <2>3. /\ Grown \in Seq(Element) /\ Len(Grown) = Len(procs) + Len(procs)
        /\ \A k \in 1 .. Len(procs) : Grown[k] = procs[k]
        /\ \A k \in Len(procs) + 1 .. Len(Grown) : Grown[k] = fresh[k - Len(procs)]
    <3>1. /\ procs \o fresh \in Seq(Element) /\ Len(procs \o fresh) = Len(procs) + Len(procs)
          /\ \A k \in 1 .. Len(procs) + Len(procs) :
               (procs \o fresh)[k] = IF k <= Len(procs) THEN procs[k] ELSE fresh[k - Len(procs)]
      BY <1>1, <2>1, ConcatProperties
    <3> DEFINE both == procs \o fresh
    <3> HIDE DEF both
    <3>2. /\ both \in Seq(Element) /\ Len(both) = Len(procs) + Len(procs)
          /\ \A k \in 1 .. Len(procs) + Len(procs) :
               both[k] = IF k <= Len(procs) THEN procs[k] ELSE fresh[k - Len(procs)]
      BY <3>1 DEF both
    <3> QED
      BY <1>1, <2>2, <3>2 DEF both
  <2>4. ASSUME NEW k \in Len(procs) + 1 .. Len(Grown) PROVE Grown[k] = Unset
    <3>1. k - Len(procs) \in 1 .. Len(procs)
      BY <1>1, <2>3
    <3> QED
      BY <2>1, <2>3, <3>1
  <2>5. ASSUME NEW k \in 1 .. Len(Grown)
        PROVE  IF k <= parsed THEN IsReadable(Grown[k].item, k) ELSE Grown[k].item = Unset.item
    BY <1>1, <1>2, <2>3, <2>4 DEF Holds, HoldsParsed
  <2>6. \A k \in 1 .. parsed : Grown[k].burst = input[Grown[k].item].process
    BY <1>1, <2>3 DEF Holds
  <2> QED
    BY <1>1, <1>2, <2>3, <2>5, <2>6 DEF Holds, HoldsParsed
<1>3. CASE parsed < Len(procs)
  BY <1>1, <1>3 DEF Grown
<1> QED
  BY <1>1, <1>2, <1>3

LEMMA LineStep ==
  ASSUME LoadKept, file_line
  PROVE  LoadKept'
<1>1. /\ loading = "file" /\ position <= Len(input) /\ Store(Grown) /\ position' = position + 1
      /\ UNCHANGED << loading, input, num_procs >>
  BY DEF file_line
<1>2. /\ input \in Seq(Pieces) /\ Len(procs) > 0 /\ num_procs \in 0 .. Len(procs)
      /\ Len(input) \in Nat /\ position \in 1 .. Len(input) /\ Len(procs) \in Nat
      /\ parsed = Cardinality(ReadableUpTo(position - 1))
  BY <1>1, InputFacts DEF LoadKept, LoadTypes
<1>3. /\ Grown \in Seq(Element) /\ parsed < Len(Grown) /\ Len(Grown) >= Len(procs) /\ Holds(Grown)
      /\ Len(Grown) \in Nat
  BY <1>2, GrownFacts
<1>4. /\ procs' \in Seq(Element) /\ Len(procs') = Len(Grown)
      /\ parsed' \in 0 .. Len(procs')
      /\ parsed' = Cardinality(ReadableUpTo(position))
      /\ Holds(procs)'
  BY <1>1, <1>2, <1>3, StoreStep
<1>5. LoadTypes'
  BY <1>1, <1>2, <1>3, <1>4 DEF LoadTypes
<1>6. parsed' = Cardinality(ReadableUpTo(position - 1)')
  <2>1. ReadableUpTo(position - 1)' = ReadableUpTo(position)
    <3>1. position' - 1 = position
      BY <1>1, <1>2
    <3> QED
      BY <1>1, <3>1, SameInput, Zenon DEF ReadableUpTo
  <2> QED
    BY <1>4, <2>1
<1> QED
  BY <1>1, <1>2, <1>3, <1>4, <1>5, <1>6 DEF LoadKept, LoadedInOrder

\* A file has no colons that count.
LEMMA NoStrayColons ==
  ASSUME input \in Seq(Pieces)
  PROVE  StrayColons = 0
<1>1. CASE IsString
  <2>1. Len(input) \in Nat /\ \A i \in 1 .. Len(input) : input[i] \in Tokens \cap Pieces
    BY <1>1 DEF IsString
  <2>2. Tokens \cap Pieces = {}
    <3> SUFFICES ASSUME NEW item \in Tokens \cap Pieces PROVE FALSE
      OBVIOUS
    <3>1. /\ item \in [colons : Nat, process : Reading, bars : BOOLEAN]
          /\ item \in [full : BOOLEAN, comment : BOOLEAN, process : Reading, bars : BOOLEAN]
      BY InputAssumption
    <3>2. /\ DOMAIN item = {"colons", "process", "bars"}
          /\ DOMAIN item = {"full", "comment", "process", "bars"}
      BY <3>1
    <3>3. "colons" \in DOMAIN item /\ "colons" \notin DOMAIN item
      BY <3>2
    <3> QED
      BY <3>3
  <2>3. Len(input) = 0
    BY <2>1, <2>2
  <2>4. StrayColons =
          Total(0, [k \in 1 .. 0 |-> input[k].colons - (IF k \in Readable THEN 2 ELSE 0)])
    BY <1>1, <2>3 DEF StrayColons
  <2>5. \A f \in [1 .. 0 -> Int] : Total(0, f) = 0
    BY TotalSteps
  <2> DEFINE none == [k \in 1 .. 0 |-> input[k].colons - (IF k \in Readable THEN 2 ELSE 0)]
  <2>6. none \in [1 .. 0 -> Int]
    OBVIOUS
  <2> HIDE DEF none
  <2> QED
    BY <2>4, <2>5, <2>6 DEF none
<1>2. CASE ~IsString
  BY <1>2 DEF StrayColons
<1> QED
  BY <1>1, <1>2

LEMMA FileReturns ==
  ASSUME LoadKept, file_return
  PROVE  LoadKept'
<1>1. /\ loading = "file" /\ loading' = "done" /\ position > Len(input) /\ num_procs' = parsed
      /\ UNCHANGED << input, position, procs, parsed >>
  BY DEF file_return
<1>2. /\ input \in Seq(Pieces) /\ Len(input) \in Nat /\ position \in 1 .. Len(input) + 1
      /\ parsed = Cardinality(ReadableUpTo(position - 1)) /\ parsed \in 0 .. Len(procs)
  BY <1>1, InputFacts DEF LoadKept, LoadTypes
<1>3. parsed = Cardinality(Readable)
  <2>1. position - 1 \in Nat /\ position - 1 >= Len(input)
    BY <1>1, <1>2
  <2>2. ReadableUpTo(position - 1) = Readable
    BY <1>2, <2>1, ReadableCount
  <2> QED
    BY <1>2, <2>2
<1>4. StrayColons = 0
  BY <1>2, NoStrayColons
<1>5. Readable' = Readable /\ StrayColons' = StrayColons
  BY <1>1, SameInput
<1>6. LoadTypes'
  BY <1>1, <1>2 DEF LoadKept, LoadTypes
<1>7. Holds(procs)' /\ ReadableUpTo(position - 1)' = ReadableUpTo(position - 1)
  BY <1>1, <1>5, Zenon DEF LoadKept, Holds, HoldsParsed, IsReadable, ReadableUpTo, Unset
<1>8. LoadedInOrder'
  BY <1>1, <1>2, <1>3, <1>4, <1>5, <1>7 DEF LoadedInOrder, Holds
<1> QED
  BY <1>1, <1>2, <1>6, <1>7, <1>8 DEF LoadKept

LEMMA InputsAreSequences ==
  ASSUME NEW items, NEW s \in Inputs(items)
  PROVE  s \in Seq(items)
<1>1. PICK n \in 0 .. MaxItems : s \in [1 .. n -> items]
  BY DEF Inputs
<1>2. n \in Nat
  BY <1>1, InputAssumption
<1> QED
  BY <1>1, <1>2
-----------------------------------------------------------------------------
(***************************************************************************)
(* What a simulation starts from: resetting the fields of a process, or    *)
(* using them up, leaves what was read of it alone.                        *)
(***************************************************************************)
LEMMA ElementFields ==
  ASSUME NEW e \in Element, NEW f \in {"initial", "used"}
  PROVE  LET d == [e EXCEPT !.fields = f]
         IN  d \in Element /\ d.item = e.item /\ d.burst = e.burst /\ d.fields = f
BY DEF Element

LEMMA UsedFacts ==
  ASSUME NEW array \in Seq(Element)
  PROVE  /\ Used(array) \in Seq(Element) /\ Len(Used(array)) = Len(array)
         /\ \A k \in 1 .. Len(array) :
              Used(array)[k].item = array[k].item /\ Used(array)[k].burst = array[k].burst
<1> DEFINE u == [k \in 1 .. Len(array) |-> [array[k] EXCEPT !.fields = "used"]]
<1>1. Used(array) = u /\ Len(array) \in Nat
  BY DEF Used
<1>2. \A k \in 1 .. Len(array) : array[k] \in Element
  OBVIOUS
<1>3. \A k \in 1 .. Len(array) :
        u[k] \in Element /\ u[k].item = array[k].item /\ u[k].burst = array[k].burst
  BY <1>2, ElementFields
<1>4. u \in Seq(Element) /\ Len(u) = Len(array)
  BY <1>1, <1>3
<1> HIDE DEF u
<1> QED
  BY <1>1, <1>3, <1>4

LEMMA ResetFacts ==
  ASSUME NEW array \in Seq(Element)
  PROVE  /\ Reset(array) \in Seq(Element) /\ Len(Reset(array)) = Len(array)
         /\ \A k \in 1 .. Len(array) :
              /\ Reset(array)[k].item = array[k].item /\ Reset(array)[k].burst = array[k].burst
              /\ k <= num_procs => Reset(array)[k].fields = "initial"
<1> DEFINE u == [k \in 1 .. Len(array) |->
                   IF k <= num_procs THEN [array[k] EXCEPT !.fields = "initial"] ELSE array[k]]
<1>1. Reset(array) = u /\ Len(array) \in Nat
  BY DEF Reset
<1>2. \A k \in 1 .. Len(array) : array[k] \in Element
  OBVIOUS
<1>3. \A k \in 1 .. Len(array) :
        /\ u[k] \in Element /\ u[k].item = array[k].item /\ u[k].burst = array[k].burst
        /\ k <= num_procs => u[k].fields = "initial"
  BY <1>2, ElementFields
<1>4. u \in Seq(Element) /\ Len(u) = Len(array)
  BY <1>1, <1>3
<1> HIDE DEF u
<1> QED
  BY <1>1, <1>3, <1>4

LEMMA LoadStep == LoadKept /\ [Next]_vars => LoadKept'
<1> SUFFICES ASSUME LoadKept, [Next]_vars PROVE LoadKept'
  OBVIOUS
<1>0. procs \in Seq(Element)
  BY DEF LoadKept, LoadTypes
<1>1. CASE load_string
  <2>1. PICK tokens \in Inputs(Tokens) : string_begin(tokens)
    BY <1>1 DEF load_string
  <2> QED
    BY <2>1, InputsAreSequences, StringBegins
<1>2. CASE load_file
  <2>1. PICK pieces \in Inputs(Pieces) : file_begin(pieces)
    BY <1>2 DEF load_file
  <2> QED
    BY <2>1, InputsAreSequences, FileBegins
<1>3. CASE load_item
  BY <1>3, TokenStep, LineStep DEF load_item
<1>4. CASE load_return
  BY <1>4, StringReturns, FileReturns DEF load_return
<1>5. CASE run_algorithm \/ run_algorithm_fails
  <2>1. procs' = Reset(procs) /\ UNCHANGED << loading, input, position, parsed, num_procs >>
    BY <1>5 DEF run_algorithm, run_algorithm_fails, NextAlgorithm, prepare
  <2> QED
    BY <1>0, <2>1, ResetFacts, SameItems
<1>6. CASE schedule
  <2>1. /\ procs' = Used(procs) \/ procs' = procs
        /\ UNCHANGED << loading, input, position, parsed, num_procs >>
    BY <1>6 DEF schedule
  <2> QED
    BY <1>0, <2>1, UsedFacts, SameItems
<1>7. CASE UNCHANGED loadVars
  <2>1. UNCHANGED << loading, input, position, parsed, num_procs, procs >>
    BY <1>7 DEF loadVars
  <2> QED
    BY <1>0, <2>1, SameItems
<1>8. \/ load_string \/ load_file \/ load_item \/ load_return
      \/ run_algorithm \/ run_algorithm_fails \/ schedule \/ UNCHANGED loadVars
  BY DEF Next, parse_args, load_string_fails, load_nothing, run_single, configure,
     configure_default, configure_open, configure_line, configure_reject, configure_return,
     schedule_endless, schedule_exits, schedule_unknown, report, report_no_entries,
     report_unsplit, Report, report_row, print_comparison_table, return, ended, vars
<1> QED
  BY <1>1, <1>2, <1>3, <1>4, <1>5, <1>6, <1>7, <1>8

\* How many readable items are before it tells an item from the others.
LEMMA Ranks ==
  ASSUME Len(input) \in Nat, NEW i \in Readable
  PROVE  LET before(h) == {r \in Readable : r < h}
         IN  /\ Cardinality(before(i)) \in Nat
             /\ Cardinality(before(i)) < Cardinality(Readable)
             /\ \A j \in Readable :
                  /\ i < j => Cardinality(before(i)) < Cardinality(before(j))
                  /\ Cardinality(before(j)) = Cardinality(before(i)) => j = i
<1> DEFINE before(h) == {r \in Readable : r < h}
<1>1. IsFiniteSet(Readable) /\ Cardinality(Readable) \in Nat /\ Readable \subseteq 1 .. Len(input)
  BY ReadableCount DEF Readable
<1>2. \A h : before(h) \subseteq Readable
  OBVIOUS
<1>3. ASSUME NEW h PROVE IsFiniteSet(before(h)) /\ Cardinality(before(h)) \in Nat
  BY <1>1, <1>2, FS_Subset, FS_CardinalityType
<1>4. \A h \in Readable : h \in Nat
  BY <1>1
\* An item is not before itself.
<1>5. ASSUME NEW g \in Readable, NEW S \in SUBSET Readable, before(g) \subseteq S, g \in S
      PROVE  Cardinality(before(g)) < Cardinality(S)
  <2>1. g \notin before(g)
    BY <1>4
  <2> HIDE DEF before
  <2>2. IsFiniteSet(S)
    BY <1>1, FS_Subset
  <2>3. Cardinality(before(g) \cup {g}) = Cardinality(before(g)) + 1
    BY <1>3, <2>1, FS_AddElement
  <2>4. Cardinality(before(g) \cup {g}) <= Cardinality(S)
    <3>1. before(g) \cup {g} \subseteq S
      BY <1>5
    <3> QED
      BY <2>2, <3>1, FS_Subset
  <2>5. Cardinality(S) \in Nat /\ Cardinality(before(g)) \in Nat
    BY <1>3, <2>2, FS_CardinalityType
  <2> QED
    BY <2>3, <2>4, <2>5
<1>6. ASSUME NEW g \in Readable, NEW h \in Readable, g < h
      PROVE  Cardinality(before(g)) < Cardinality(before(h))
  <2>1. before(g) \subseteq before(h) /\ g \in before(h) /\ before(h) \in SUBSET Readable
    BY <1>4, <1>6
  <2> HIDE DEF before
  <2> QED
    BY <1>5, <2>1
<1>7. Cardinality(before(i)) < Cardinality(Readable)
  <2> HIDE DEF before
  <2> QED
    BY <1>2, <1>5
<1>8. ASSUME NEW j \in Readable, Cardinality(before(j)) = Cardinality(before(i)) PROVE j = i
  <2> HIDE DEF before
  <2>1. ~(i < j) /\ ~(j < i)
    BY <1>3, <1>6, <1>8
  <2> QED
    BY <1>4, <2>1
<1> QED
  <2> HIDE DEF before
  <2>1. /\ Cardinality(before(i)) \in Nat
        /\ Cardinality(before(i)) < Cardinality(Readable)
        /\ \A j \in Readable :
             /\ i < j => Cardinality(before(i)) < Cardinality(before(j))
             /\ Cardinality(before(j)) = Cardinality(before(i)) => j = i
    BY <1>3, <1>6, <1>7, <1>8
  <2> QED
    BY <2>1 DEF before

\* The k-th element is the k-th item: so the items are in order, and none is left out.
LEMMA InOrder ==
  ASSUME LoadKept, loading = "done"
  PROVE  /\ \A k \in 1 .. parsed : procs[k].item \in Readable
         /\ \A j, k \in 1 .. parsed : j < k => procs[j].item < procs[k].item
         /\ \A i \in Readable : \E k \in 1 .. parsed : procs[k].item = i
<1> DEFINE rank(i) == Cardinality({r \in Readable : r < i})
<1>1. /\ Len(input) \in Nat /\ Len(procs) \in Nat /\ parsed \in Nat /\ parsed <= Len(procs)
      /\ parsed = Cardinality(Readable) /\ HoldsParsed(procs) /\ DOMAIN procs = 1 .. Len(procs)
  BY InputFacts DEF LoadKept, LoadTypes, LoadedInOrder, Holds
<1>2. ASSUME NEW k \in 1 .. parsed
      PROVE  procs[k].item \in Readable /\ rank(procs[k].item) = k - 1
  <2>1. k \in DOMAIN procs /\ k <= parsed
    BY <1>1
  <2>2. IsReadable(procs[k].item, k)
    BY <1>1, <2>1 DEF HoldsParsed
  <2> QED
    BY <2>2, Zenon DEF IsReadable
<1>3. \A i \in Readable : i \in Nat
  BY <1>1 DEF Readable
<1>4. ASSUME NEW i \in Readable, NEW j \in Readable
      PROVE  /\ rank(i) \in Nat /\ rank(i) < parsed
             /\ i < j => rank(i) < rank(j)
             /\ rank(j) = rank(i) => j = i
  BY <1>1, Ranks
<1> HIDE DEF rank
<1>5. ASSUME NEW j \in 1 .. parsed, NEW k \in 1 .. parsed, j < k
      PROVE  procs[j].item < procs[k].item
  <2>1. rank(procs[j].item) = j - 1 /\ rank(procs[k].item) = k - 1
    BY <1>2
  <2>2. procs[j].item \in Readable /\ procs[k].item \in Readable
    BY <1>2
  <2>3. procs[k].item < procs[j].item => rank(procs[k].item) < rank(procs[j].item)
    BY <1>4, <2>2
  <2>4. procs[k].item # procs[j].item
    BY <1>1, <1>5, <2>1
  <2>5. ~(procs[k].item < procs[j].item)
    BY <1>1, <1>5, <2>1, <2>3
  <2> QED
    BY <1>3, <2>2, <2>4, <2>5
<1>6. ASSUME NEW i \in Readable PROVE \E k \in 1 .. parsed : procs[k].item = i
  <2>1. rank(i) \in Nat /\ rank(i) < parsed
    BY <1>4
  <2>2. rank(i) + 1 \in 1 .. parsed /\ (rank(i) + 1) - 1 = rank(i)
    BY <1>1, <2>1
  <2>3. procs[rank(i) + 1].item \in Readable /\ rank(procs[rank(i) + 1].item) = rank(i)
    BY <1>2, <2>2
  <2> QED
    BY <1>4, <2>2, <2>3
<1> QED
  BY <1>2, <1>5, <1>6

(***************************************************************************)
(* docs/design-notes.md:83-91.  Whatever the input, the array holds every  *)
(* process that is written in it, in order and once each, and nothing else *)
(* but what the rest of a line too long for the buffer looks like; and the *)
(* count is exact unless two or more colons of a string belong to no       *)
(* process.                                                                *)
(***************************************************************************)
THEOREM EveryProcessIsLoaded == Spec => []LoadedAsWritten
<1>1. Init => LoadKept
  BY LoadBegins DEF Init
<1>2. LoadKept => LoadedAsWritten
  <2> SUFFICES ASSUME LoadKept, loading = "done"
               PROVE  LET loaded == {procs[k].item : k \in 1 .. parsed}
                      IN  /\ Written \subseteq loaded /\ loaded \subseteq Written \cup Tails
                          /\ \A j, k \in 1 .. parsed : j < k => procs[j].item < procs[k].item
                          /\ \A k \in 1 .. parsed : procs[k].burst = input[procs[k].item].process
                          /\ \A k \in parsed + 1 .. Len(procs) : procs[k].item = Unset.item
                          /\ parsed <= num_procs /\ num_procs <= Len(procs)
                          /\ (num_procs = parsed) <=> (StrayColons < 2)
    BY DEF LoadedAsWritten
  <2>1. /\ Len(procs) \in Nat /\ parsed \in Nat /\ DOMAIN procs = 1 .. Len(procs)
        /\ Holds(procs) /\ parsed <= num_procs /\ num_procs <= Len(procs)
        /\ (num_procs = parsed) <=> (StrayColons < 2)
    BY DEF LoadKept, LoadTypes, LoadedInOrder
  <2>2. ASSUME NEW k \in parsed + 1 .. Len(procs) PROVE procs[k].item = Unset.item
    <3>1. k \in DOMAIN procs /\ ~(k <= parsed)
      BY <2>1
    <3> QED
      BY <2>1, <3>1 DEF Holds, HoldsParsed
  <2>3. \A k \in 1 .. parsed : procs[k].burst = input[procs[k].item].process
    BY <2>1 DEF Holds
  <2> QED
    BY <2>1, <2>2, <2>3, InOrder DEF Written
<1> QED
  BY <1>1, <1>2, LoadStep, PTL DEF Spec

-----------------------------------------------------------------------------
(***************************************************************************)
(* The one block that a run with status 0 can leave: only if its log holds *)
(* nothing but '|', so that every other name was dropped from it.          *)
(***************************************************************************)
LogKept ==
  ~args.compare_mode =>
    /\ pc = "report" /\ gantt_log = "bars" => SeparatorsOnly
    /\ heap["entries"] > 0 => SeparatorsOnly

LEMMA FirstElements ==
  ASSUME NEW array \in Seq(Element), NEW n \in 0 .. Len(array)
  PROVE  /\ DOMAIN SubSeq(array, 1, n) = 1 .. n
         /\ \A k \in 1 .. n : SubSeq(array, 1, n)[k] = array[k]
<1> DEFINE first == SubSeq(array, 1, n)
<1>1. n \in Nat /\ \A k \in 1 .. n : array[k] \in Element
  OBVIOUS
<1>2. /\ first \in Seq(Element) /\ Len(first) = IF 1 <= n THEN n - 1 + 1 ELSE 0
      /\ \A k \in 1 .. n - 1 + 1 : first[k] = array[1 + k - 1]
  BY <1>1, SubSeqProperties
<1> HIDE DEF first
<1>3. DOMAIN first = 1 .. n /\ \A k \in 1 .. n : first[k] = array[k]
  BY <1>1, <1>2
<1> QED
  BY <1>3 DEF first

LEMMA EntriesUntouched ==
  ASSUME heap["entries"] \in Nat, NEW STATE freed, NEW STATE new, heap' = After(freed, new),
         "entries" \notin freed, "entries" \notin new
  PROVE  heap'["entries"] = heap["entries"]
<1>1. "entries" \in Blocks
  BY DEF Blocks
<1> QED
  BY <1>1 DEF After

\* A single run: the log it leaves.
LEMMA RunLog ==
  ASSUME Flow, LoadKept, schedule, ~args.compare_mode, gantt_log' = "bars"
  PROVE  SeparatorsOnly'
<1>1. /\ pc = "schedule" /\ log_run /\ processes = "procs" /\ processes' = "procs"
      /\ procs' = Used(procs) /\ UNCHANGED << input, num_procs >>
  BY DEF schedule, Flow, Order, Simulation
<1>2. procs \in Seq(Element) /\ num_procs \in 0 .. Len(procs)
  BY DEF LoadKept, LoadTypes
<1>3. /\ procs' \in Seq(Element) /\ Len(procs') = Len(procs)
      /\ \A k \in 1 .. Len(procs) : procs'[k].item = procs[k].item
  BY <1>1, <1>2, UsedFacts
<1>4. /\ Simulated = SubSeq(procs, 1, num_procs) /\ Simulated' = SubSeq(procs', 1, num_procs)
      /\ DOMAIN Simulated = 1 .. num_procs /\ DOMAIN Simulated' = 1 .. num_procs
      /\ \A k \in 1 .. num_procs : Simulated[k] = procs[k] /\ Simulated'[k] = procs'[k]
  <2>1. Simulated = SubSeq(procs, 1, num_procs) /\ Simulated' = SubSeq(procs', 1, num_procs)
    BY <1>1 DEF Simulated
  <2>2. /\ DOMAIN SubSeq(procs, 1, num_procs) = 1 .. num_procs
        /\ \A k \in 1 .. num_procs : SubSeq(procs, 1, num_procs)[k] = procs[k]
    BY <1>2, FirstElements
  <2>3. /\ DOMAIN SubSeq(procs', 1, num_procs) = 1 .. num_procs
        /\ \A k \in 1 .. num_procs : SubSeq(procs', 1, num_procs)[k] = procs'[k]
    <3>1. num_procs \in 0 .. Len(procs')
      BY <1>2, <1>3
    <3> QED
      BY <1>3, <3>1, FirstElements
  <2> QED
    BY <2>1, <2>2, <2>3, Zenon
<1>5. ASSUME NEW k \in 1 .. num_procs PROVE Simulated'[k].item = Simulated[k].item
  <2>1. k \in 1 .. Len(procs) /\ Simulated'[k] = procs'[k] /\ Simulated[k] = procs[k]
    BY <1>2, <1>4
  <2> QED
    BY <1>3, <2>1, Zenon
<1>6. Barred(Simulated)' = Barred(Simulated)
  <2>1. ASSUME NEW k \in 1 .. num_procs
        PROVE  Simulated'[k].item = Unset.item \/ input'[Simulated'[k].item].bars
               <=> Simulated[k].item = Unset.item \/ input[Simulated[k].item].bars
    BY <1>1, <1>5
  <2>2. Barred(Simulated)' = {k \in 1 .. num_procs :
                               Simulated'[k].item = Unset.item \/ input'[Simulated'[k].item].bars}
    BY <1>4, Zenon DEF Barred, Unset
  <2>3. Barred(Simulated) = {k \in 1 .. num_procs :
                               Simulated[k].item = Unset.item \/ input[Simulated[k].item].bars}
    BY <1>4, Zenon DEF Barred
  <2> QED
    BY <2>1, <2>2, <2>3, Zenon
<1>7. /\ Barred(Simulated) # {}
      /\ \E lost \in Nat : /\ failures' = failures + lost
                            /\ Cardinality(DOMAIN Simulated \ Barred(Simulated)) <= lost
  BY <1>1, LogRun DEF Flow
<1>8. Cardinality(DOMAIN Simulated \ Barred(Simulated)) <= failures'
  <2> DEFINE others == Cardinality(DOMAIN Simulated \ Barred(Simulated))
  <2>1. others \in Nat
    <3>1. IsFiniteSet(DOMAIN Simulated)
      BY <1>2, <1>4, FS_Interval
    <3> QED
      BY <3>1, FS_Subset, FS_CardinalityType
  <2>2. failures \in Nat
    BY BoundsAssumption DEF Flow, FlowTypes
  <2>3. \E lost \in Nat : failures' = failures + lost /\ others <= lost
    BY <1>7
  <2> HIDE DEF others
  <2>4. others <= failures'
    BY <2>1, <2>2, <2>3
  <2> QED
    BY <2>4 DEF others
<1> QED
  BY <1>4, <1>6, <1>7, <1>8 DEF SeparatorsOnly

LEMMA LogStep ==
  Flow /\ LoadKept /\ MemoryKept /\ MemoryKept' /\ LogKept /\ [Next]_vars => LogKept'
<1> SUFFICES ASSUME Flow, LoadKept, MemoryKept, MemoryKept', LogKept, [Next]_vars,
                    ~args'.compare_mode
             PROVE  /\ pc' = "report" /\ gantt_log' = "bars" => SeparatorsOnly'
                    /\ heap'["entries"] > 0 => SeparatorsOnly'
  BY DEF LogKept
<1>1. /\ heap["entries"] \in {0, 1} /\ (heap["entries"] = 1 => pc \in {"final", "exited"})
      /\ heap'["entries"] \in {0, 1} /\ (heap'["entries"] = 1 => pc' \in {"final", "exited"})
  BY DEF MemoryKept, EntriesOwned
<1>2. CASE schedule
  <2>1. pc' = "report" /\ ~args.compare_mode
    BY <1>2 DEF schedule, argVars
  <2> QED
    BY <1>1, <1>2, <2>1, RunLog
<1>3. CASE report_no_entries
  <2>1. /\ pc = "report" /\ pc' = "final" /\ gantt_log = "bars" /\ ~args.compare_mode
        /\ UNCHANGED << processes, copy, procs, num_procs, input, failures >>
    BY <1>3 DEF report_no_entries, Report, loadVars
  <2>2. SeparatorsOnly
    BY <2>1 DEF LogKept
  <2> QED
    BY <2>1, <2>2 DEF SeparatorsOnly, Barred, Simulated, Unset
\* The array stays where it is.
<1>4. CASE /\ UNCHANGED << args, processes, copy, procs, num_procs, input, failures >>
           /\ heap'["entries"] = heap["entries"]
           /\ pc' = "report" => pc = "report" /\ gantt_log' = gantt_log
  <2>1. SeparatorsOnly' <=> SeparatorsOnly
    BY <1>4 DEF SeparatorsOnly, Barred, Simulated, Unset
  <2> QED
    BY <1>4, <2>1 DEF LogKept
\* There is none.
<1>5. CASE pc' # "report" /\ heap'["entries"] = 0
  BY <1>5
<1>6. ASSUME ~schedule, ~report_no_entries, pc' \in {"report", "final", "exited"}
      PROVE  \/ /\ UNCHANGED << args, processes, copy, procs, num_procs, input, failures >>
                /\ heap'["entries"] = heap["entries"]
                /\ pc' = "report" => pc = "report" /\ gantt_log' = gantt_log
             \/ pc' # "report" /\ heap'["entries"] = 0
  <2>0. /\ "entries" \notin ArgStrings /\ "entries" \notin cleanup_scheduler_state
        /\ heap["entries"] \in Nat
    BY <1>1 DEF ArgStrings, Strings, cleanup_scheduler_state
  <2>1. CASE parse_args
    <3>1. opt_rejected /\ pc = "args" /\ heap' = heap
      BY <1>6, <2>1 DEF parse_args, Option, opt_algorithm, opt_string, opt_compare, opt_rejected
    <3>2. pc' = "exited"
      BY <3>1 DEF opt_rejected, exit
    <3> QED
      BY <1>1, <3>1, <3>2
  <2>2. CASE load_string_fails
    BY <1>1, <2>2 DEF load_string_fails, exit
  <2>3. CASE load_nothing
    BY <1>1, <2>0, <2>3, EntriesUntouched DEF load_nothing, exit
  <2>4. CASE load_string \/ load_file \/ load_item \/ load_return
    BY <1>6, <2>4 DEF load_string, load_file, load_item, load_return, mainVars
  <2>5. CASE run_single \/ run_algorithm \/ run_algorithm_fails
    BY <1>6, <2>5 DEF run_single, run_algorithm, run_algorithm_fails, NextAlgorithm
  <2>6. CASE configure
    <3>1. configure_reject /\ pc = "configure"
      BY <1>6, <2>6 DEF configure, configure_default, configure_open, configure_line,
         configure_reject, configure_return, mainVars
    <3> QED
      BY <1>1, <2>0, <3>1, EntriesUntouched DEF configure_reject, exit
  <2>7. CASE schedule_endless
    BY <1>6, <2>7 DEF schedule_endless
  <2>8. CASE schedule_exits
    <3>1. pc = "schedule" /\ pc' = "exited" /\ (heap' = heap \/ heap' = After({}, {"policy"}))
      BY <2>8 DEF schedule_exits, exit
    <3>2. heap'["entries"] = heap["entries"]
      BY <2>0, <3>1, EntriesUntouched
    <3> QED
      BY <1>1, <3>1, <3>2
  <2>9. CASE schedule_unknown
    BY <1>1, <2>0, <2>9, EntriesUntouched DEF schedule_unknown, fail_unknown, exit
  <2>10. CASE report \/ report_unsplit
    <3>1. pc = "report" /\ pc' = "final" /\ heap' = After(cleanup_scheduler_state, {})
      BY <2>10 DEF report, report_unsplit, Report
    <3> QED
      BY <1>1, <2>0, <3>1, EntriesUntouched
  <2>11. CASE report_row
    BY <1>6, <2>11 DEF report_row
  <2>12. CASE print_comparison_table
    BY <1>1, <2>12 DEF print_comparison_table
  <2>13. CASE return
    <3>1. /\ pc' = "exited" /\ heap' = After({"procs"} \cup ArgStrings, {})
          /\ UNCHANGED << args, processes, copy, procs, num_procs, input, failures >>
      BY <2>13 DEF return, exit, argVars, simVars, loadVars
    <3>2. heap'["entries"] = heap["entries"]
      BY <2>0, <3>1, EntriesUntouched
    <3> QED
      BY <3>1, <3>2
  <2>14. CASE UNCHANGED vars
    BY <2>14 DEF vars, mainVars, argVars, simVars, loadVars
  <2> QED
    BY <1>6, <2>1, <2>2, <2>3, <2>4, <2>5, <2>6, <2>7, <2>8, <2>9, <2>10, <2>11, <2>12, <2>13,
       <2>14 DEF Next, ended
<1>7. CASE pc' \notin {"report", "final", "exited"}
  BY <1>1, <1>7
<1> QED
  BY <1>2, <1>3, <1>4, <1>5, <1>6, <1>7

(***************************************************************************)
(* docs/design-notes.md:10.  Compare mode owns between two algorithms what *)
(* it owned before the first, and a program that ends with status 0 has    *)
(* freed everything, whichever allocations failed, but the earlier strings *)
(* of repeated options and, of a single run whose log holds only '|', the  *)
(* array of src/core/gantt.c:83.                                           *)
(***************************************************************************)
THEOREM EverythingIsReturned == Spec => []MemoryReturned
<1>1. Init => LoadKept /\ LogKept
  BY LoadBegins DEF Init, LogKept, Blocks
<1>2. Flow /\ MemoryKept /\ LogKept => MemoryReturned
  <2> SUFFICES ASSUME Flow, MemoryKept, LogKept PROVE MemoryReturned
    OBVIOUS
  <2>1. heap \in [Blocks -> Nat]
    BY DEF MemoryKept, MemoryTypes
  <2>2. ASSUME pc = "compare", NEW b \in Blocks
        PROVE  heap[b] = IF b \in Strings THEN dups[b] ELSE IF b = "procs" THEN 1 ELSE 0
    <3>1. MainOwns /\ EntriesOwned
      BY <2>2 DEF MemoryKept
    <3>2. loading = "done" /\ parsing # "file" /\ gantt_log = "NULL"
      BY <2>2 DEF Flow, Order, Loaded, Simulation
    <3> QED
      BY <2>2, <3>1, <3>2 DEF MainOwns, EntriesOwned, Blocks, Strings, Simulation
  <2>3. ASSUME pc = "exited", status = 0, NEW b \in Blocks
        PROVE  \/ heap[b] = (IF b \in Strings /\ dups[b] > 1 THEN dups[b] - 1 ELSE 0)
               \/ b = "entries" /\ heap[b] = 1 /\ ~args.compare_mode /\ SeparatorsOnly
    <3>1. CASE b = "entries"
      <4>1. heap[b] \in {0, 1} /\ (heap[b] = 1 => ~args.compare_mode) /\ b \notin Strings
        BY <3>1 DEF MemoryKept, EntriesOwned, Strings
      <4> QED
        BY <3>1, <4>1 DEF LogKept
    <3>2. CASE b # "entries"
      BY <2>3, <3>2 DEF MemoryKept
    <3> QED
      BY <3>1, <3>2
  <2> QED
    BY <2>1, <2>2, <2>3 DEF MemoryReturned
<1> QED
  BY <1>1, <1>2, FlowInit, FlowStep, MemoryInit, MemoryStep, LoadStep, LogStep, PTL DEF Spec
-----------------------------------------------------------------------------
(***************************************************************************)
(* The comparison: the copy each algorithm is given.                       *)
(***************************************************************************)
\* The copy an algorithm of the comparison is given, until it has run.
CopyKept ==
  /\ copy \in Seq(Element)
  /\ pc \in {"configure", "schedule"} /\ args.compare_mode =>
       /\ Len(copy) = num_procs
       /\ HoldsParsed(copy)
       /\ \A k \in DOMAIN copy : copy[k].fields = "initial"

LEMMA CopyStep == Flow /\ LoadKept /\ LoadKept' /\ CopyKept /\ [Next]_vars => CopyKept'
<1> SUFFICES ASSUME Flow, LoadKept, LoadKept', CopyKept, [Next]_vars PROVE CopyKept'
  OBVIOUS
<1>1. CASE run_algorithm
  <2>1. /\ procs' = Reset(procs) /\ copy' = SubSeq(procs', 1, num_procs)
        /\ UNCHANGED << loading, input, position, parsed, num_procs >>
        /\ pc = "compare"
    BY <1>1 DEF run_algorithm, NextAlgorithm, prepare
  <2>2. /\ loading = "done" /\ num_procs \in 0 .. Len(procs) /\ procs \in Seq(Element)
        /\ parsed <= num_procs /\ HoldsParsed(procs)' /\ parsed \in Nat /\ Len(procs) \in Nat
    BY <2>1 DEF Flow, Order, Loaded, LoadKept, LoadTypes, LoadedInOrder, Holds
  <2>3. /\ procs' \in Seq(Element) /\ Len(procs') = Len(procs)
        /\ \A k \in 1 .. Len(procs) : k <= num_procs => procs'[k].fields = "initial"
    BY <2>1, <2>2, ResetFacts
  <2>4. /\ copy' \in Seq(Element) /\ Len(copy') = num_procs
        /\ \A k \in 1 .. num_procs : copy'[k] = procs'[k]
    <3>1. \A k \in 1 .. num_procs : procs'[k] \in Element
      BY <2>2, <2>3
    <3>2. /\ copy' \in Seq(Element) /\ Len(copy') = IF 1 <= num_procs THEN num_procs - 1 + 1 ELSE 0
          /\ \A k \in 1 .. num_procs - 1 + 1 : copy'[k] = procs'[1 + k - 1]
      BY <2>1, <2>2, <3>1, SubSeqProperties
    <3> QED
      BY <2>2, <3>2
  <2>5. \A k \in DOMAIN copy' : k \in 1 .. num_procs /\ k \in DOMAIN procs' /\ copy'[k] = procs'[k]
    BY <2>2, <2>3, <2>4
  <2>6. HoldsParsed(copy)'
    BY <2>2, <2>5 DEF HoldsParsed
  <2>7. \A k \in DOMAIN copy' : copy'[k].fields = "initial"
    BY <2>2, <2>3, <2>5
  <2> QED
    BY <2>1, <2>4, <2>6, <2>7 DEF CopyKept
<1>2. CASE schedule
  <2>1. pc' = "report" /\ (copy' = Used(copy) \/ copy' = copy)
    BY <1>2 DEF schedule
  <2> QED
    BY <2>1, UsedFacts DEF CopyKept
<1>3. CASE report_row
  BY <1>3 DEF report_row, CopyKept
<1>4. CASE /\ UNCHANGED << copy, args, input, parsed, num_procs >>
           /\ pc' \in {"configure", "schedule"} /\ args.compare_mode
                => pc \in {"configure", "schedule"}
  BY <1>4, SameInput DEF CopyKept, HoldsParsed
<1>5. CASE copy' = copy /\ pc' \notin {"configure", "schedule"}
  BY <1>5 DEF CopyKept
<1>6. ASSUME ~run_algorithm, ~schedule, ~report_row
      PROVE  \/ /\ UNCHANGED << copy, args, input, parsed, num_procs >>
                /\ pc' \in {"configure", "schedule"} /\ args.compare_mode
                     => pc \in {"configure", "schedule"}
             \/ copy' = copy /\ pc' \notin {"configure", "schedule"}
  <2>1. CASE parse_args
    BY <2>1 DEF parse_args, Option, opt_algorithm, opt_string, opt_compare, opt_rejected, exit,
       simVars
  <2>2. CASE load_string \/ load_file \/ load_string_fails \/ load_nothing
    BY <2>2 DEF load_string, load_file, load_string_fails, load_nothing, exit, simVars
  <2>3. CASE load_item \/ load_return
    BY <2>3 DEF load_item, load_return, mainVars, simVars, Flow, Order
  <2>4. CASE run_single
    BY <2>4 DEF run_single, Flow, Order, argVars, loadVars
  <2>5. CASE run_algorithm_fails
    BY <2>5 DEF run_algorithm_fails, NextAlgorithm
  <2>6. CASE configure
    BY <2>6 DEF configure, configure_default, configure_open, configure_line, configure_reject,
       configure_return, exit, mainVars, simVars, argVars, loadVars
  <2>7. CASE schedule_endless \/ schedule_exits \/ schedule_unknown
    BY <2>7 DEF schedule_endless, schedule_exits, schedule_unknown, fail_unknown, exit, simVars
  <2>8. CASE \/ report \/ report_no_entries \/ report_unsplit
             \/ print_comparison_table \/ return
    BY <2>8 DEF report, report_no_entries, report_unsplit, Report, print_comparison_table, return,
       exit, simVars
  <2>9. CASE UNCHANGED vars
    BY <2>9 DEF vars, mainVars, simVars, argVars, loadVars
  <2> QED
    BY <1>6, <2>1, <2>2, <2>3, <2>4, <2>5, <2>6, <2>7, <2>8, <2>9 DEF Next, ended
<1> QED
  BY <1>1, <1>2, <1>3, <1>4, <1>5, <1>6

(***************************************************************************)
(* src/core/main.c:32 and :146.  Every algorithm of the comparison starts  *)
(* from all the processes that were loaded, with none of their fields used *)
(* up, after any number of runs and failures before it.                    *)
(***************************************************************************)
THEOREM EveryAlgorithmStartsFresh == Spec => []FreshStart
<1>1. Init => CopyKept
  BY DEF Init, CopyKept
<1>2. Flow /\ CopyKept => FreshStart
  BY DEF Flow, Order, Simulation, CopyKept, FreshStart, Simulated
<1>3. Init => LoadKept
  BY LoadBegins DEF Init
<1> QED
  BY <1>1, <1>2, <1>3, FlowInit, FlowStep, LoadStep, CopyStep, PTL DEF Spec

(***************************************************************************)
(* No index, count or field leaves its range; of the heap it says that no  *)
(* block is freed twice and no file closed twice.                          *)
(***************************************************************************)
THEOREM ProgramTypes == Spec => []TypeOK
<1>1. Init => CopyKept /\ LoadKept
  BY LoadBegins DEF Init, CopyKept
<1>2. Flow /\ MemoryKept /\ LoadKept /\ CopyKept => TypeOK
  BY DEF Flow, FlowTypes, RowsKept, MemoryKept, MemoryTypes, LoadKept, LoadTypes, CopyKept, TypeOK
<1> QED
  BY <1>1, <1>2, FlowInit, FlowStep, MemoryInit, MemoryStep, LoadStep, CopyStep, PTL DEF Spec
-----------------------------------------------------------------------------
(***************************************************************************)
(* The configuration: the levels defined by the lines read so far.         *)
(***************************************************************************)
ConfigType == [ num_queues   : Nat,
                quantums     : [0 .. MAX_MLFQ_QUEUES - 1 -> Nat],
                allotments   : [0 .. MAX_MLFQ_QUEUES - 1 -> Nat],
                boost_period : Nat ]

LEMMA DefaultFacts ==
  /\ DefaultConfig \in ConfigType
  /\ \A l \in 0 .. 2 : DefaultLevels[l] \in Nat \ {0} /\ l \in 0 .. MAX_MLFQ_QUEUES - 1
  /\ Usable(DefaultConfig)
<1>1. MAX_MLFQ_QUEUES \in Nat \ (0 .. 2)
  BY ConfigFilesAssumption
<1>2. << 2, 4, 8 >>[1] = 2 /\ << 2, 4, 8 >>[2] = 4 /\ << 2, 4, 8 >>[3] = 8
  OBVIOUS
<1>3. ASSUME NEW l \in 0 .. MAX_MLFQ_QUEUES - 1
      PROVE  DefaultLevels[l] \in Nat /\ (l < 3 => DefaultLevels[l] > 0)
  <2>1. DefaultLevels[l] = IF l < 3 THEN << 2, 4, 8 >>[l + 1] ELSE Unassigned
    BY DEF DefaultLevels
  <2>2. l < 3 => l = 0 \/ l = 1 \/ l = 2
    BY <1>1
  <2> QED
    BY <1>2, <2>1, <2>2 DEF Unassigned
<1>4. DefaultLevels \in [0 .. MAX_MLFQ_QUEUES - 1 -> Nat]
  BY <1>3 DEF DefaultLevels
<1>5. \A l \in 0 .. 2 : DefaultLevels[l] \in Nat \ {0} /\ l \in 0 .. MAX_MLFQ_QUEUES - 1
  BY <1>1, <1>3
<1>6. DefaultConfig \in ConfigType
  BY <1>4 DEF DefaultConfig, ConfigType
<1>7. Usable(DefaultConfig)
  BY <1>1, <1>5 DEF DefaultConfig, Usable
<1> QED
  BY <1>5, <1>6, <1>7

\* The number of lines of the file that have been read.
LinesRead(file) == Len(file) - Len(lines)

\* The lines among the first n that define a level.
LevelsUpTo(file, n) == {i \in LevelLines(file) : i <= n}

\* A line of a file.
Line == [word : {"Q", "BOOST_PERIOD", "other"}, values : Seq(Values)]

LEMMA FileFacts ==
  ASSUME NEW file \in ConfigFiles
  PROVE  file \in Seq(Line) /\ Len(file) \in Nat /\ \A i \in 1 .. Len(file) : file[i] \in Line
<1>1. file \in Seq(Line)
  BY ConfigFilesAssumption DEF Line
<1> QED
  BY <1>1

LEMMA LevelCount ==
  ASSUME NEW file \in ConfigFiles, NEW n \in Nat
  PROVE  /\ Cardinality(LevelsUpTo(file, n)) \in Nat
         /\ Cardinality(LevelsUpTo(file, 0)) = 0
         /\ n >= Len(file) => LevelsUpTo(file, n) = LevelLines(file)
         /\ LevelsUpTo(file, n) = {j \in LevelLines(file) : j < n + 1}
         /\ Cardinality(LevelsUpTo(file, n + 1)) =
              Cardinality(LevelsUpTo(file, n)) + (IF n + 1 \in LevelLines(file) THEN 1 ELSE 0)
<1>0. LevelLines(file) \subseteq 1 .. Len(file) /\ Len(file) \in Nat
  BY FileFacts DEF LevelLines
<1>1. IsFiniteSet(LevelLines(file))
  <2>1. IsFiniteSet(1 .. Len(file))
    BY <1>0, FS_Interval
  <2> QED
    BY <1>0, <2>1, FS_Subset
<1>2. \A j \in Nat : IsFiniteSet(LevelsUpTo(file, j))
  BY <1>1, FS_Subset DEF LevelsUpTo
<1>3. LevelsUpTo(file, 0) = {} /\ Cardinality({}) = 0
  BY <1>0, FS_EmptySet DEF LevelsUpTo
<1>4. n >= Len(file) => LevelsUpTo(file, n) = LevelLines(file)
  BY <1>0 DEF LevelsUpTo
<1>5. LevelsUpTo(file, n) = {j \in LevelLines(file) : j < n + 1}
  BY <1>0 DEF LevelsUpTo
<1>6. CASE n + 1 \in LevelLines(file)
  <2>1. /\ LevelsUpTo(file, n + 1) = LevelsUpTo(file, n) \cup {n + 1}
        /\ n + 1 \notin LevelsUpTo(file, n)
    BY <1>0, <1>6 DEF LevelsUpTo
  <2>2. Cardinality(LevelsUpTo(file, n + 1)) = Cardinality(LevelsUpTo(file, n)) + 1
    BY <1>2, <2>1, FS_AddElement
  <2> QED
    BY <1>2, <1>3, <1>4, <1>5, <1>6, <2>2, FS_CardinalityType
<1>7. CASE n + 1 \notin LevelLines(file)
  <2>1. LevelsUpTo(file, n + 1) = LevelsUpTo(file, n)
    BY <1>0, <1>7 DEF LevelsUpTo
  <2>2. Cardinality(LevelsUpTo(file, n)) \in Nat
    BY <1>2, FS_CardinalityType
  <2>3. Cardinality(LevelsUpTo(file, n + 1)) = Cardinality(LevelsUpTo(file, n)) + 0
    BY <2>1, <2>2
  <2> QED
    BY <1>3, <1>4, <1>5, <1>7, <2>2, <2>3
<1> QED
  BY <1>6, <1>7

(***************************************************************************)
(* What has been read of a file: the next line to read, and the levels the *)
(* lines before it define, as many as there is room for.                   *)
(***************************************************************************)
Upcoming(file) ==
  /\ lines \in Seq(Line)
  /\ Len(lines) <= Len(file)
  /\ \A j \in 1 .. Len(lines) : lines[j] = file[LinesRead(file) + j]

\* Level l of the configuration is the one the file defines.
Level(file, l) ==
  \E i \in 1 .. Len(file) : /\ IsLevel(file, i, l)
                            /\ << config.quantums[l], config.allotments[l] >> = file[i].values

LevelsKept(file) ==
  /\ queue_idx = LET levels == Cardinality(LevelsUpTo(file, LinesRead(file)))
                 IN  IF levels > MAX_MLFQ_QUEUES THEN MAX_MLFQ_QUEUES ELSE levels
  /\ \A l \in 0 .. MAX_MLFQ_QUEUES - 1 :
       IF l < queue_idx
         THEN Level(file, l) /\ config.quantums[l] > 0 /\ config.allotments[l] > 0
         ELSE config.quantums[l] = DefaultLevels[l] /\ config.allotments[l] = DefaultLevels[l]

BoostKept(file) ==
  LET read == {i \in BoostLines(file) : i <= LinesRead(file)}
  IN  IF read = {} THEN config.boost_period = DefaultConfig.boost_period
      ELSE \E i \in read :
             (\A j \in read : j <= i) /\ config.boost_period = file[i].values[1]

FileKept(file) ==
  /\ Upcoming(file)
  /\ LevelsKept(file)
  /\ BoostKept(file)
  /\ config \in ConfigType /\ config.boost_period > 0

\* The configuration, and the file it is read from: the same for every simulation.
ConfigKept ==
  /\ parsing = "none" => config_file = {}
  /\ config_file # {} => args.mlfq_config /\ \E file \in ConfigFiles : config_file = {file}
  /\ parsing = "file" => \E file \in ConfigFiles : config_file = {file} /\ FileKept(file)
  /\ parsing = "done" => Usable(config) /\ \A file \in config_file : Describes(config, file)

\* fgets: the next line is the one after those that have been read.
LEMMA NextLineFacts ==
  ASSUME NEW file \in ConfigFiles, Upcoming(file), lines # << >>
  PROVE  /\ LinesRead(file) \in Nat /\ LinesRead(file) + 1 \in 1 .. Len(file)
         /\ Head(lines) = file[LinesRead(file) + 1] /\ Head(lines) \in Line
         /\ lines' = Tail(lines) => /\ Upcoming(file)'
                                    /\ LinesRead(file)' = LinesRead(file) + 1
<1>1. /\ lines \in Seq(Line) /\ Len(lines) \in Nat \ {0} /\ Len(lines) <= Len(file)
      /\ Len(file) \in Nat
      /\ \A j \in 1 .. Len(lines) : lines[j] = file[LinesRead(file) + j]
  BY FileFacts, EmptySeq DEF Upcoming
<1>2. LinesRead(file) \in Nat /\ LinesRead(file) + 1 \in 1 .. Len(file)
  BY <1>1 DEF LinesRead
<1>3. Head(lines) = lines[1] /\ 1 \in 1 .. Len(lines)
  BY <1>1
<1>4. Head(lines) = file[LinesRead(file) + 1] /\ Head(lines) \in Line
  BY <1>1, <1>3
<1>5. ASSUME lines' = Tail(lines)
      PROVE  Upcoming(file)' /\ LinesRead(file)' = LinesRead(file) + 1
  <2>1. /\ lines' \in Seq(Line) /\ Len(lines') = Len(lines) - 1
        /\ \A j \in 1 .. Len(lines') : lines'[j] = lines[j + 1]
    BY <1>1, <1>5, HeadTailProperties
  <2>2. LinesRead(file)' = LinesRead(file) + 1
    BY <1>1, <2>1 DEF LinesRead
  <2>3. ASSUME NEW j \in 1 .. Len(lines') PROVE lines'[j] = file[LinesRead(file)' + j]
    <3>1. j + 1 \in 1 .. Len(lines) /\ LinesRead(file) + (j + 1) = LinesRead(file)' + j
      BY <1>1, <1>2, <2>1, <2>2
    <3> QED
      BY <1>1, <2>1, <3>1
  <2> QED
    BY <1>1, <2>1, <2>2, <2>3 DEF Upcoming
<1> QED
  BY <1>2, <1>4, <1>5

\* The last line that sets the period decides.
LEMMA PeriodStep ==
  ASSUME NEW file \in ConfigFiles, FileKept(file), lines # << >>, lines' = Tail(lines),
         config'.boost_period = IF SetsBoost(Head(lines)) THEN Head(lines).values[1]
                                                          ELSE config.boost_period
  PROVE  BoostKept(file)'
<1> DEFINE n == LinesRead(file)
           read(k) == {i \in BoostLines(file) : i <= k}
<1>1. /\ n \in Nat /\ n + 1 \in 1 .. Len(file) /\ Head(lines) = file[n + 1]
      /\ LinesRead(file)' = n + 1
  BY NextLineFacts DEF FileKept
<1>2. IF read(n) = {} THEN config.boost_period = DefaultConfig.boost_period
      ELSE \E i \in read(n) :
             (\A j \in read(n) : j <= i) /\ config.boost_period = file[i].values[1]
  BY DEF FileKept, BoostKept
<1>3. SUFFICES IF read(n + 1) = {} THEN config'.boost_period = DefaultConfig.boost_period
               ELSE \E i \in read(n + 1) :
                      (\A j \in read(n + 1) : j <= i) /\ config'.boost_period = file[i].values[1]
  BY <1>1 DEF BoostKept
<1> HIDE DEF n
<1>4. BoostLines(file) \subseteq 1 .. Len(file) /\ Len(file) \in Nat
  BY FileFacts DEF BoostLines
<1>5. CASE SetsBoost(Head(lines))
  <2>1. n + 1 \in read(n + 1)
    BY <1>1, <1>5 DEF BoostLines
  <2>2. \A j \in read(n + 1) : j <= n + 1
    OBVIOUS
  <2>3. config'.boost_period = file[n + 1].values[1]
    BY <1>1, <1>5
  <2> QED
    BY <2>1, <2>2, <2>3
<1>6. CASE ~SetsBoost(Head(lines))
  <2>1. n + 1 \notin BoostLines(file)
    BY <1>1, <1>6 DEF BoostLines
  <2>2. read(n + 1) = read(n)
    BY <1>1, <1>4, <2>1
  <2>3. config'.boost_period = config.boost_period
    BY <1>6
  <2> HIDE DEF read
  <2> QED
    BY <1>2, <2>2, <2>3
<1> QED
  BY <1>5, <1>6

LEMMA OpenFacts ==
  ASSUME NEW file \in ConfigFiles, config_open(file)
  PROVE  FileKept(file)'
<1>1. lines' = file /\ config' = DefaultConfig /\ queue_idx' = 0
  BY DEF config_open
<1>2. LinesRead(file)' = 0 /\ Upcoming(file)'
  BY <1>1, FileFacts DEF LinesRead, Upcoming
<1>3. DefaultConfig \in ConfigType /\ config'.boost_period > 0
  BY <1>1, DefaultFacts DEF DefaultConfig
<1>4. LevelsKept(file)'
  <2>1. Cardinality(LevelsUpTo(file, LinesRead(file)))' = 0
    <3>1. Cardinality(LevelsUpTo(file, 0)) = 0
      BY LevelCount
    <3> QED
      BY <1>2, <3>1 DEF LevelsUpTo
  <2>2. MAX_MLFQ_QUEUES \in Nat
    BY ConfigFilesAssumption
  <2> QED
    BY <1>1, <2>1, <2>2 DEF LevelsKept, DefaultConfig
<1>5. BoostKept(file)'
  <2>1. \A i \in BoostLines(file) : ~(i <= 0)
    BY FileFacts DEF BoostLines
  <2> QED
    BY <1>1, <1>2, <2>1 DEF BoostKept
<1> QED
  BY <1>1, <1>2, <1>3, <1>4, <1>5 DEF FileKept

\* A value that is looked at and not Invalid is positive.
LEMMA ValidValue ==
  ASSUME NEW values \in Seq(Values), NEW i \in 1 .. Len(values), values[i] # Invalid
  PROVE  values[i] \in Nat \ {0}
BY DEF Values

LEMMA LevelLineStep ==
  ASSUME NEW file \in ConfigFiles, FileKept(file), lines # << >>, config_level
  PROVE  FileKept(file)'
<1> DEFINE line == Head(lines)
           n == LinesRead(file)
<1>1. /\ lines' = Tail(lines) /\ DefinesLevel(line) /\ Invalid \notin Examined(line)
      /\ config' = [config EXCEPT !.quantums[queue_idx] = line.values[1],
                                  !.allotments[queue_idx] = line.values[2]]
      /\ queue_idx' = queue_idx + 1
  BY DEF config_level, NextLine
<1>2. /\ n \in Nat /\ n + 1 \in 1 .. Len(file) /\ line = file[n + 1] /\ line \in Line
      /\ Upcoming(file)' /\ LinesRead(file)' = n + 1
  BY <1>1, NextLineFacts DEF FileKept
<1> HIDE DEF line, n
<1>3. /\ line.word = "Q" /\ queue_idx < MAX_MLFQ_QUEUES /\ Len(line.values) = 2
      /\ line.values[1] \in Nat \ {0} /\ line.values[2] \in Nat \ {0}
      /\ line.values = << line.values[1], line.values[2] >>
  <2>1. /\ line.word = "Q" /\ queue_idx < MAX_MLFQ_QUEUES /\ Len(line.values) = 2
        /\ line.values \in Seq(Values)
    BY <1>1, <1>2 DEF DefinesLevel, Line
  <2>2. line.values[1] # Invalid /\ line.values[2] # Invalid
    BY <1>1, <2>1 DEF Examined, Range
  <2>3. line.values = << line.values[1], line.values[2] >>
    BY <2>1
  <2> QED
    BY <2>1, <2>2, <2>3, ValidValue
<1> DEFINE c == Cardinality(LevelsUpTo(file, n))
<1>4. n + 1 \in LevelLines(file)
  BY <1>2, <1>3 DEF LevelLines
<1>5. /\ MAX_MLFQ_QUEUES \in Nat /\ c \in Nat /\ c = queue_idx
      /\ Cardinality(LevelsUpTo(file, n + 1)) = c + 1
      /\ IsLevel(file, n + 1, queue_idx)
  <2>1. /\ c \in Nat /\ Cardinality(LevelsUpTo(file, n + 1)) = c + 1
        /\ LevelsUpTo(file, n) = {j \in LevelLines(file) : j < n + 1}
    BY <1>2, <1>4, LevelCount
  <2>2. queue_idx = IF c > MAX_MLFQ_QUEUES THEN MAX_MLFQ_QUEUES ELSE c
    BY DEF FileKept, LevelsKept, n
  <2>3. MAX_MLFQ_QUEUES \in Nat
    BY ConfigFilesAssumption
  <2>4. c = queue_idx
    <3> HIDE DEF c
    <3> QED
      BY <1>3, <2>1, <2>2, <2>3
  <2>5. IsLevel(file, n + 1, queue_idx)
    BY <1>4, <2>1, <2>4, Zenon DEF IsLevel
  <2> QED
    BY <2>1, <2>3, <2>4, <2>5
<1> HIDE DEF c
<1>6. /\ config' \in ConfigType /\ config'.boost_period = config.boost_period
      /\ config'.quantums[queue_idx] = line.values[1]
      /\ config'.allotments[queue_idx] = line.values[2]
      /\ \A l \in 0 .. MAX_MLFQ_QUEUES - 1 : l # queue_idx =>
           /\ config'.quantums[l] = config.quantums[l]
           /\ config'.allotments[l] = config.allotments[l]
  <2>1. config \in ConfigType /\ queue_idx \in 0 .. MAX_MLFQ_QUEUES - 1
    BY <1>3, <1>5 DEF FileKept
  <2> QED
    BY <1>1, <1>3, <2>1 DEF ConfigType
<1>7. ASSUME NEW l \in 0 .. MAX_MLFQ_QUEUES - 1
      PROVE  IF l < queue_idx'
               THEN Level(file, l)' /\ config'.quantums[l] > 0 /\ config'.allotments[l] > 0
               ELSE /\ config'.quantums[l] = DefaultLevels[l]
                    /\ config'.allotments[l] = DefaultLevels[l]
  <2>1. IF l < queue_idx
          THEN Level(file, l) /\ config.quantums[l] > 0 /\ config.allotments[l] > 0
          ELSE config.quantums[l] = DefaultLevels[l] /\ config.allotments[l] = DefaultLevels[l]
    BY DEF FileKept, LevelsKept
  <2>2. CASE l = queue_idx
    <3>1. << config'.quantums[l], config'.allotments[l] >> = file[n + 1].values
      BY <1>2, <1>3, <1>6, <2>2
    <3>2. Level(file, l)'
      BY <1>2, <1>5, <2>2, <3>1 DEF Level
    <3> QED
      BY <1>1, <1>3, <1>5, <1>6, <2>2, <3>2
  <2>3. CASE l # queue_idx
    <3>1. Level(file, l)' <=> Level(file, l)
      BY <1>6, <2>3 DEF Level
    <3> QED
      BY <1>1, <1>5, <1>6, <2>1, <2>3, <3>1
  <2> QED
    BY <2>2, <2>3
<1>8. LevelsKept(file)'
  <2>1. Cardinality(LevelsUpTo(file, LinesRead(file)))' = c + 1
    BY <1>2, <1>5 DEF LevelsUpTo
  <2>2. queue_idx' = c + 1 /\ c + 1 <= MAX_MLFQ_QUEUES /\ c \in Nat /\ MAX_MLFQ_QUEUES \in Nat
    BY <1>1, <1>3, <1>5
  <2> QED
    BY <1>7, <2>1, <2>2 DEF LevelsKept
<1>9. BoostKept(file)'
  <2>1. ~SetsBoost(Head(lines))
    BY <1>3 DEF SetsBoost, line
  <2> QED
    BY <1>1, <1>6, <2>1, PeriodStep
<1> QED
  BY <1>2, <1>6, <1>8, <1>9 DEF FileKept

\* A line that leaves the levels alone: there is no room for it, or it does not define one.
LEMMA OtherLineStep ==
  ASSUME NEW file \in ConfigFiles, FileKept(file), lines # << >>,
         lines' = Tail(lines), UNCHANGED queue_idx,
         config' \in ConfigType, config'.boost_period > 0,
         config'.quantums = config.quantums, config'.allotments = config.allotments,
         config'.boost_period = IF SetsBoost(Head(lines)) THEN Head(lines).values[1]
                                                          ELSE config.boost_period,
         Head(lines).word = "Q" /\ Len(Head(lines).values) = 2 => queue_idx >= MAX_MLFQ_QUEUES
  PROVE  FileKept(file)'
<1> DEFINE n == LinesRead(file)
<1>1. /\ n \in Nat /\ n + 1 \in 1 .. Len(file) /\ Head(lines) = file[n + 1]
      /\ Upcoming(file)' /\ LinesRead(file)' = n + 1
  BY NextLineFacts DEF FileKept
<1>2. queue_idx = LET levels == Cardinality(LevelsUpTo(file, n))
                  IN  IF levels > MAX_MLFQ_QUEUES THEN MAX_MLFQ_QUEUES ELSE levels
  BY DEF FileKept, LevelsKept
<1>3. Cardinality(LevelsUpTo(file, LinesRead(file)))' = Cardinality(LevelsUpTo(file, n + 1))
  BY <1>1 DEF LevelsUpTo
<1> HIDE DEF n
<1>4. n + 1 \in LevelLines(file) => queue_idx >= MAX_MLFQ_QUEUES
  BY <1>1 DEF LevelLines
<1>5. /\ Cardinality(LevelsUpTo(file, n)) \in Nat
      /\ Cardinality(LevelsUpTo(file, n + 1)) =
           Cardinality(LevelsUpTo(file, n)) + (IF n + 1 \in LevelLines(file) THEN 1 ELSE 0)
  BY <1>1, LevelCount
<1>6. MAX_MLFQ_QUEUES \in Nat
  BY ConfigFilesAssumption
<1>7. queue_idx' = LET levels == Cardinality(LevelsUpTo(file, n + 1))
                   IN  IF levels > MAX_MLFQ_QUEUES THEN MAX_MLFQ_QUEUES ELSE levels
  BY <1>2, <1>4, <1>5, <1>6
<1>8. ASSUME NEW l \in 0 .. MAX_MLFQ_QUEUES - 1
      PROVE  IF l < queue_idx'
               THEN Level(file, l)' /\ config'.quantums[l] > 0 /\ config'.allotments[l] > 0
               ELSE /\ config'.quantums[l] = DefaultLevels[l]
                    /\ config'.allotments[l] = DefaultLevels[l]
  <2>1. Level(file, l)' <=> Level(file, l)
    BY DEF Level
  <2>2. IF l < queue_idx
          THEN Level(file, l) /\ config.quantums[l] > 0 /\ config.allotments[l] > 0
          ELSE config.quantums[l] = DefaultLevels[l] /\ config.allotments[l] = DefaultLevels[l]
    BY DEF FileKept, LevelsKept
  <2> QED
    BY <2>1, <2>2
<1>9. LevelsKept(file)'
  BY <1>3, <1>7, <1>8 DEF LevelsKept
<1>10. BoostKept(file)'
  BY PeriodStep
<1> QED
  BY <1>1, <1>9, <1>10 DEF FileKept

LEMMA BoostLineStep ==
  ASSUME NEW file \in ConfigFiles, FileKept(file), lines # << >>, config_boost
  PROVE  FileKept(file)'
<1> DEFINE line == Head(lines)
<1>1. /\ lines' = Tail(lines) /\ SetsBoost(line) /\ Invalid \notin Examined(line)
      /\ config' = [config EXCEPT !.boost_period = line.values[1]]
      /\ UNCHANGED queue_idx
  BY DEF config_boost, NextLine
<1>2. line \in Line /\ config \in ConfigType
  BY NextLineFacts DEF FileKept
<1> HIDE DEF line
<1>3. line.word = "BOOST_PERIOD" /\ 1 \in 1 .. Len(line.values) /\ line.values \in Seq(Values)
  BY <1>1, <1>2, EmptySeq DEF SetsBoost, Line
<1>4. line.values[1] # Invalid
  BY <1>1, <1>3 DEF Examined, DefinesLevel
<1>5. line.values[1] \in Nat \ {0}
  BY <1>3, <1>4, ValidValue
<1>6. /\ config' \in ConfigType /\ config'.boost_period > 0
      /\ config'.quantums = config.quantums /\ config'.allotments = config.allotments
      /\ config'.boost_period = line.values[1]
  BY <1>1, <1>2, <1>5 DEF ConfigType
<1> QED
  BY <1>1, <1>3, <1>6, OtherLineStep DEF line

LEMMA IgnoredLineStep ==
  ASSUME NEW file \in ConfigFiles, FileKept(file), lines # << >>, config_ignore
  PROVE  FileKept(file)'
<1>1. /\ lines' = Tail(lines) /\ ~DefinesLevel(Head(lines)) /\ ~SetsBoost(Head(lines))
      /\ UNCHANGED << config, queue_idx >>
  BY DEF config_ignore, NextLine
<1>2. queue_idx \in Nat /\ MAX_MLFQ_QUEUES \in Nat
  <2>1. LinesRead(file) \in Nat
    BY NextLineFacts DEF FileKept
  <2>2. Cardinality(LevelsUpTo(file, LinesRead(file))) \in Nat
    BY <2>1, LevelCount
  <2> QED
    BY <2>2, ConfigFilesAssumption DEF FileKept, LevelsKept
<1>3. Head(lines).word = "Q" /\ Len(Head(lines).values) = 2 => queue_idx >= MAX_MLFQ_QUEUES
  BY <1>1, <1>2 DEF DefinesLevel
<1>4. config \in ConfigType /\ config.boost_period > 0
  BY DEF FileKept
<1> QED
  BY <1>1, <1>3, <1>4, OtherLineStep

LEMMA ReturnFacts ==
  ASSUME NEW file \in ConfigFiles, FileKept(file), config_return
  PROVE  Usable(config') /\ Describes(config', file)
<1> DEFINE levels == Cardinality(LevelLines(file))
<1>1. /\ lines = << >>
      /\ config' = [config EXCEPT !.num_queues = IF queue_idx > 0 THEN queue_idx ELSE 3]
  BY DEF config_return
<1>2. MAX_MLFQ_QUEUES \in Nat \ (0 .. 2)
  BY ConfigFilesAssumption
<1>3. levels \in Nat /\ queue_idx = IF levels > MAX_MLFQ_QUEUES THEN MAX_MLFQ_QUEUES ELSE levels
  <2>1. Len(file) \in Nat /\ LinesRead(file) = Len(file)
    BY <1>1, FileFacts DEF LinesRead
  <2>2. LevelsUpTo(file, LinesRead(file)) = LevelLines(file)
    BY <2>1, LevelCount
  <2>3. Cardinality(LevelsUpTo(file, LinesRead(file))) \in Nat
    BY <2>1, LevelCount
  <2> QED
    BY <2>2, <2>3 DEF FileKept, LevelsKept
<1> HIDE DEF levels
<1>4. /\ config'.num_queues = IF queue_idx > 0 THEN queue_idx ELSE 3
      /\ config'.quantums = config.quantums /\ config'.allotments = config.allotments
      /\ config'.boost_period > 0 /\ config'.boost_period = config.boost_period
  BY <1>1 DEF FileKept, ConfigType
<1>5. config'.num_queues \in 1 .. MAX_MLFQ_QUEUES
  BY <1>2, <1>3, <1>4
<1>6. ASSUME NEW l \in 0 .. config'.num_queues - 1
      PROVE  /\ config'.quantums[l] > 0 /\ config'.allotments[l] > 0
             /\ IF levels = 0
                  THEN << config'.quantums[l], config'.allotments[l] >>
                         = << DefaultLevels[l], DefaultLevels[l] >>
                  ELSE \E i \in 1 .. Len(file) :
                         /\ IsLevel(file, i, l)
                         /\ << config'.quantums[l], config'.allotments[l] >> = file[i].values
  <2>1. l \in 0 .. MAX_MLFQ_QUEUES - 1
    BY <1>2, <1>5
  <2>2. IF l < queue_idx
          THEN Level(file, l) /\ config.quantums[l] > 0 /\ config.allotments[l] > 0
          ELSE config.quantums[l] = DefaultLevels[l] /\ config.allotments[l] = DefaultLevels[l]
    BY <2>1 DEF FileKept, LevelsKept
  <2>3. CASE levels = 0
    <3>1. l \in 0 .. 2 /\ ~(l < queue_idx)
      BY <1>2, <1>3, <1>4, <2>1, <2>3
    <3>2. DefaultLevels[l] \in Nat \ {0}
      BY <3>1, DefaultFacts
    <3> QED
      BY <1>4, <2>2, <2>3, <3>1, <3>2
  <2>4. CASE levels # 0
    <3>1. l < queue_idx
      BY <1>2, <1>3, <1>4, <2>1, <2>4
    <3> QED
      BY <1>4, <2>2, <2>4, <3>1 DEF Level
  <2> QED
    BY <2>3, <2>4
<1>7. Usable(config')
  BY <1>4, <1>5, <1>6 DEF Usable
<1>8. config'.num_queues = IF levels = 0 THEN 3
                           ELSE IF levels > MAX_MLFQ_QUEUES THEN MAX_MLFQ_QUEUES
                           ELSE levels
  BY <1>2, <1>3, <1>4
\* All the lines have been read.
<1>9. IF BoostLines(file) = {} THEN config'.boost_period = DefaultConfig.boost_period
      ELSE \E i \in BoostLines(file) :
             (\A j \in BoostLines(file) : j <= i) /\ config'.boost_period = file[i].values[1]
  <2>1. Len(file) \in Nat /\ LinesRead(file) = Len(file)
    BY <1>1, FileFacts DEF LinesRead
  <2>2. {i \in BoostLines(file) : i <= LinesRead(file)} = BoostLines(file)
    BY <2>1 DEF BoostLines
  <2>3. BoostKept(file)
    BY DEF FileKept
  <2> QED
    BY <1>4, <2>2, <2>3 DEF BoostKept
<1>10. Describes(config', file)
  BY <1>6, <1>8, <1>9 DEF Describes, levels
<1> QED
  BY <1>7, <1>10

LEMMA ConfigStep == Flow /\ ConfigKept /\ [Next]_vars => ConfigKept'
<1> SUFFICES ASSUME Flow, ConfigKept, [Next]_vars PROVE ConfigKept'
  OBVIOUS
<1>1. CASE configure_default
  <2>1. /\ config_file = {} /\ config_file' = {} /\ parsing' = "done" /\ config' = DefaultConfig
        /\ UNCHANGED args
    BY <1>1 DEF configure_default, config_default, argVars, ConfigKept
  <2> QED
    BY <2>1, DefaultFacts DEF ConfigKept
<1>2. CASE configure_open
  <2>1. PICK file \in IF parsing = "none" THEN ConfigFiles ELSE config_file :
               config_open(file) /\ config_file' = {file}
    BY <1>2 DEF configure_open
  <2>2. file \in ConfigFiles
    BY <2>1 DEF ConfigKept
  <2>3. parsing' = "file" /\ args' = args /\ args.mlfq_config
    BY <1>2, <2>1 DEF configure_open, config_open, argVars
  <2>4. FileKept(file)'
    BY <2>1, <2>2, OpenFacts
  <2> QED
    BY <2>1, <2>2, <2>3, <2>4 DEF ConfigKept
<1>3. CASE configure_line
  <2>1. /\ parsing = "file" /\ parsing' = "file" /\ lines # << >>
        /\ UNCHANGED << config_file, args >>
    BY <1>3 DEF configure_line, config_level, config_boost, config_ignore, NextLine, mainVars,
       argVars
  <2>2. PICK file \in ConfigFiles : config_file = {file} /\ FileKept(file)
    BY <2>1 DEF ConfigKept
  <2>3. FileKept(file)'
    BY <1>3, <2>1, <2>2, LevelLineStep, BoostLineStep, IgnoredLineStep DEF configure_line
  <2> QED
    BY <2>1, <2>2, <2>3 DEF ConfigKept
<1>4. CASE configure_reject
  <2>1. parsing = "file" /\ parsing' = "rejected" /\ UNCHANGED << config_file, args >>
    BY <1>4 DEF configure_reject, config_reject, argVars
  <2> QED
    BY <2>1 DEF ConfigKept
<1>5. CASE configure_return
  <2>1. /\ parsing = "file" /\ parsing' = "done" /\ config_return
        /\ UNCHANGED << config_file, args >>
    BY <1>5 DEF configure_return, config_return, argVars
  <2>2. PICK file \in ConfigFiles : config_file = {file} /\ FileKept(file)
    BY <2>1 DEF ConfigKept
  <2>3. Usable(config') /\ Describes(config', file)
    BY <2>1, <2>2, ReturnFacts
  <2> QED
    BY <2>1, <2>2, <2>3 DEF ConfigKept
<1>6. CASE UNCHANGED << configVars, config_file, args >>
  <2>1. UNCHANGED << parsing, lines, config, queue_idx, config_file, args >>
    BY <1>6 DEF configVars
  <2>2. ASSUME NEW file PROVE FileKept(file)' <=> FileKept(file)
    <3>1. LinesRead(file)' = LinesRead(file)
      BY <2>1 DEF LinesRead
    <3>2. BoostKept(file)' <=> BoostKept(file)
      BY <2>1, <3>1, Zenon DEF BoostKept
    <3>3. LevelsKept(file)' <=> LevelsKept(file)
      BY <2>1, <3>1 DEF LevelsKept, Level, LevelsUpTo
    <3>4. Upcoming(file)' <=> Upcoming(file)
      BY <2>1, <3>1 DEF Upcoming
    <3> QED
      BY <2>1, <3>2, <3>3, <3>4 DEF FileKept
  <2> QED
    BY <2>1, <2>2 DEF ConfigKept
<1>7. CASE parse_args
  <2>1. parsing = "none" /\ parsing' = "none" /\ config_file' = config_file
    BY <1>7 DEF parse_args, opt_algorithm, opt_string, opt_compare, opt_rejected, Option,
       configVars, Flow, Order
  <2> QED
    BY <2>1 DEF ConfigKept
<1>8. \/ parse_args \/ configure_default \/ configure_open \/ configure_line
      \/ configure_reject \/ configure_return \/ UNCHANGED << configVars, config_file, args >>
  BY DEF Next, load_string, load_string_fails, load_file, load_nothing, load_item, load_return,
     run_single, run_algorithm, run_algorithm_fails, NextAlgorithm, configure, schedule,
     schedule_endless, schedule_exits, schedule_unknown, report, report_no_entries,
     report_unsplit, Report, report_row, print_comparison_table, return, ended, vars, mainVars,
     argVars
<1> QED
  BY <1>1, <1>2, <1>3, <1>4, <1>5, <1>6, <1>7, <1>8

(***************************************************************************)
(* src/core/parser.c:91.  Whatever the file says, in any simulation that   *)
(* starts the policy has a configuration it can run with, that of the file *)
(* if it can be opened, its boost period included, also when compare mode  *)
(* reads the file again.                                                   *)
(***************************************************************************)
THEOREM ConfigIsUsable == Spec => []ConfigUsable
<1>1. Init => ConfigKept
  BY DEF Init, ConfigInit, ConfigKept
<1>2. Flow /\ ConfigKept => ConfigUsable
  BY DEF Flow, Order, ConfigKept, ConfigUsable
<1> QED
  BY <1>1, <1>2, FlowInit, FlowStep, ConfigStep, PTL DEF Spec
=============================================================================
