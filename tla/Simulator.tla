------------------------------ MODULE Simulator ------------------------------
(***************************************************************************)
(* The program as a whole, src/core/main.c: the command line, the workload *)
(* and the MLFQ configuration it names, one simulation or the five of      *)
(* compare mode, and the memory main owns on every way out.                *)
(*                                                                         *)
(* A simulation is one step here (Engine and the policy modules are about  *)
(* what happens in it): it returns with the fields of its array used up,   *)
(* or never.  The order of the array, which init_scheduler_state sorts, is *)
(* left out; so is the quantum, any value of which Round Robin can take.   *)
(***************************************************************************)
EXTENDS Workload, Configuration

CONSTANTS
  AlgorithmNames, \* what --algorithm may be given, in upper case
  MaxOptions,     \* bound: the options of the command line
  MaxFailures     \* bound: the calls of malloc and realloc that fail

ASSUME BoundsAssumption == MaxOptions \in Nat /\ MaxFailures \in Nat

Strings == {"processes_str", "input_file", "mlfq_config"}
Blocks  == Strings \cup {"data", "fp", "procs", "copy", "log", "entries", "policy"}

\* algorithms[] of compare mode, which are those that strcasecmp knows.
Algorithms == << "FCFS", "SJF", "STCF", "RR", "MLFQ" >>

NumAlgorithms == Len(Algorithms)

VARIABLES
  pc,            \* the part of main that is next; "exited" after return or exit, "lost" if never
  args,          \* Args; of a string only whether the pointer is set
  options,       \* the options parse_args has read
  dups,          \* history: the calls of strdup for each string
  heap,          \* the blocks and open files of each kind that are not yet freed
  failures,      \* the calls of malloc and realloc that have failed
  config_file,   \* what --mlfq-config names: {file}, or {} if it cannot be opened
  processes,     \* state.config.processes: points to "procs" or to "copy"
  gantt_log,     \* "NULL", or what the log contains: nothing, '|' only, or entries as well
  copy,          \* procs_copy of run_algorithm
  rows,          \* results of compare mode, so far
  status         \* the exit status

argVars == << args, options, dups >>
simVars == << processes, gantt_log, copy, rows >>
mainVars == << pc, argVars, heap, failures, config_file, simVars, status >>
vars == << mainVars, loadVars, configVars >>

\* A row of the comparison: averages, averages of nothing, or -1 if there was no copy.
Row == {"averages", "nan", "failed"}

NoArgs == [algorithm |-> "", compare_mode |-> FALSE,
           processes_str |-> FALSE, input_file |-> FALSE, mlfq_config |-> FALSE]

Init ==
  /\ LoadInit /\ ConfigInit
  /\ pc = "args"
  /\ args = NoArgs
  /\ options = 0
  /\ dups = [s \in Strings |-> 0]
  /\ heap = [b \in Blocks |-> 0]
  /\ failures = 0
  /\ config_file = {}
  /\ processes = "procs"
  /\ gantt_log = "NULL"
  /\ copy = << >>
  /\ rows = << >>
  /\ status = -1
-----------------------------------------------------------------------------
(***************************************************************************)
(* Memory, as sets of blocks.                                              *)
(***************************************************************************)
After(freed, new) ==
  [b \in Blocks |-> heap[b] - (IF b \in freed THEN 1 ELSE 0) + (IF b \in new THEN 1 ELSE 0)]

\* free_args: the strings that the pointers of args lead to.
ArgStrings == {s \in Strings : args[s]}

exit(code) ==
  /\ pc' = "exited"
  /\ status' = code

\* A call of malloc or realloc whose failure the code handles.
malloc_fails == failures < MaxFailures /\ failures' = failures + 1
-----------------------------------------------------------------------------
(***************************************************************************)
(* parse_args                                                              *)
(***************************************************************************)
Option ==
  /\ pc = "args"
  /\ options < MaxOptions
  /\ options' = options + 1

opt_algorithm(name) ==
  /\ Option
  /\ args' = [args EXCEPT !.algorithm = name]
  /\ UNCHANGED << pc, dups, heap, failures, config_file, simVars, status >>

\* --processes, --input and --mlfq-config; an earlier string is forgotten, not freed.
opt_string(s) ==
  /\ Option
  /\ args' = [args EXCEPT ![s] = TRUE]
  /\ dups' = [dups EXCEPT ![s] = @ + 1]
  /\ heap' = After({}, {s})
  /\ UNCHANGED << pc, failures, config_file, simVars, status >>

opt_compare ==
  /\ Option
  /\ args' = [args EXCEPT !.compare_mode = TRUE]
  /\ UNCHANGED << pc, dups, heap, failures, config_file, simVars, status >>

\* An option unknown to getopt_long, or a quantum that is not a positive int:
\* parse_args returns 1 and main does as well.
opt_rejected ==
  /\ Option
  /\ exit(1)
  /\ UNCHANGED << args, dups, heap, failures, config_file, simVars >>

parse_args ==
  /\ \/ \E name \in AlgorithmNames : opt_algorithm(name)
     \/ \E s \in Strings : opt_string(s)
     \/ opt_compare
     \/ opt_rejected
  /\ UNCHANGED << loadVars, configVars >>
-----------------------------------------------------------------------------
(***************************************************************************)
(* load_processes                                                          *)
(***************************************************************************)
load_string ==
  /\ pc = "args"
  /\ args.processes_str
  /\ \E tokens \in Inputs(Tokens) : string_begin(tokens)
  /\ pc' = "loading"
  /\ heap' = After({}, {"procs", "data"})
  /\ UNCHANGED << argVars, failures, config_file, simVars, status, configVars >>

\* The array cannot be allocated: exit(1) in the parser.
load_string_fails ==
  /\ pc = "args"
  /\ args.processes_str
  /\ malloc_fails
  /\ exit(1)
  /\ UNCHANGED << argVars, heap, config_file, simVars, loadVars, configVars >>

load_file ==
  /\ pc = "args"
  /\ ~args.processes_str /\ args.input_file
  /\ \E pieces \in Inputs(Pieces) : file_begin(pieces)
  /\ pc' = "loading"
  /\ heap' = After({}, {"procs", "fp"})
  /\ UNCHANGED << argVars, failures, config_file, simVars, status, configVars >>

\* No workload is named, or the file cannot be opened.
load_nothing ==
  /\ pc = "args"
  /\ ~args.processes_str
  /\ heap' = After(ArgStrings, {})
  /\ exit(1)
  /\ UNCHANGED << argVars, failures, config_file, simVars, loadVars, configVars >>

load_item ==
  /\ pc = "loading"
  /\ string_token \/ file_line
  /\ UNCHANGED << mainVars, configVars >>

load_return ==
  /\ pc = "loading"
  /\ string_return \/ file_return
  /\ heap' = After(IF loading = "string" THEN {"data"} ELSE {"fp"}, {})
  /\ pc' = IF args.compare_mode THEN "compare" ELSE "run"
  /\ UNCHANGED << argVars, failures, config_file, simVars, status, configVars >>
-----------------------------------------------------------------------------
(***************************************************************************)
(* init_scheduler_state, on procs or on the copy run_algorithm makes, and  *)
(* parse_mlfq_config, once for each simulation.                            *)
(***************************************************************************)
\* What it allocates, besides what the caller has; without the log a run has no chart.
init_scheduler_state(allocated) ==
  \/ /\ heap' = After({}, allocated \cup {"log"})
     /\ gantt_log' = "empty"
     /\ UNCHANGED failures
  \/ /\ malloc_fails
     /\ heap' = After({}, allocated)
     /\ gantt_log' = "NULL"

run_single ==
  /\ pc = "run"
  /\ processes' = "procs"
  /\ init_scheduler_state({})
  /\ pc' = "configure"
  /\ UNCHANGED << argVars, config_file, copy, rows, status, loadVars, configVars >>

\* The loop of compare mode that resets the fields of a simulation, and only those.
Reset(array) ==
  [k \in DOMAIN array |->
     IF k <= num_procs THEN [array[k] EXCEPT !.fields = "initial"] ELSE array[k]]

\* The part of compare mode's loop before a simulation.
NextAlgorithm ==
  /\ pc = "compare"
  /\ Len(rows) < NumAlgorithms
  /\ UNCHANGED << argVars, config_file, status,
                  loading, input, position, parsed, num_procs, configVars >>

\* Mutant: an algorithm of the comparison is given the processes as the only one is.
prepare_single == processes' = "procs" /\ UNCHANGED << procs, copy >>

prepare ==
  /\ procs' = Reset(procs)
  /\ processes' = "copy"
  /\ copy' = SubSeq(procs', 1, num_procs)

run_algorithm ==
  /\ NextAlgorithm
  /\ prepare
  /\ init_scheduler_state({"copy"})
  /\ pc' = "configure"
  /\ UNCHANGED rows

run_algorithm_fails ==
  /\ NextAlgorithm
  /\ malloc_fails
  /\ procs' = Reset(procs)
  /\ rows' = Append(rows, "failed")
  /\ UNCHANGED << pc, heap, processes, gantt_log, copy >>

configure_default ==
  /\ pc = "configure"
  /\ parsing # "file"
  /\ ~args.mlfq_config \/ parsing = "none" \/ config_file = {}
  /\ config_default
  /\ pc' = "schedule"
  /\ UNCHANGED << argVars, heap, failures, config_file, simVars, status, loadVars >>

\* The file does not change between two algorithms.
configure_open ==
  /\ pc = "configure"
  /\ parsing # "file"
  /\ args.mlfq_config
  /\ \E file \in IF parsing = "none" THEN ConfigFiles ELSE config_file :
       config_open(file) /\ config_file' = {file}
  /\ heap' = After({}, {"fp"})
  /\ UNCHANGED << pc, argVars, failures, simVars, status, loadVars >>

configure_line ==
  /\ pc = "configure"
  /\ config_level \/ config_boost \/ config_ignore
  /\ UNCHANGED << mainVars, loadVars >>

\* exit(1) within the parser
configure_reject ==
  /\ pc = "configure"
  /\ config_reject
  /\ heap' = After({"fp"}, {})
  /\ exit(1)
  /\ UNCHANGED << argVars, failures, config_file, simVars, loadVars >>

configure_return ==
  /\ pc = "configure"
  /\ config_return
  /\ heap' = After({"fp"}, {})
  /\ pc' = "schedule"
  /\ UNCHANGED << argVars, failures, config_file, simVars, status, loadVars >>

configure == configure_default \/ configure_open \/ configure_line
               \/ configure_reject \/ configure_return
-----------------------------------------------------------------------------
(***************************************************************************)
(* The simulation.  One with a process whose burst is negative, or whose   *)
(* fields are those of a run that is over, never returns: the first never  *)
(* ends, the second never arrives.  One with a process that was never set  *)
(* may do either.                                                          *)
(***************************************************************************)
\* The elements of config.processes.
Simulated == IF processes = "copy" THEN copy ELSE SubSeq(procs, 1, num_procs)

Endless(e) == e.burst = "negative" \/ e.fields = "used"
Undefined(e) == e.burst = "unset" \/ e.fields = "unset"

Algorithm == IF args.compare_mode THEN Algorithms[Len(rows) + 1] ELSE args.algorithm

Known == Algorithm \in Range(Algorithms)

Used(array) == [k \in DOMAIN array |-> [array[k] EXCEPT !.fields = "used"]]

\* The elements that may have a name of '|' only; one that was never set has any name.
Barred(array) ==
  {k \in DOMAIN array : array[k].item = Unset.item \/ input[array[k].item].bars}

\* What the log of a run may contain when `lost` entries were dropped.  Every process is
\* logged in some time unit, by its name or as "-"; the name of one never set may be empty.
Logs(array, lost) ==
  {log \in {"empty", "bars", "entries"} :
     /\ log = "empty" => Cardinality({k \in DOMAIN array : array[k].item # Unset.item}) <= lost
     /\ log = "bars" => Barred(array) # {} /\ Cardinality(DOMAIN array \ Barred(array)) <= lost
     /\ log = "entries" => array # << >>}

\* append_gantt_entry in every time unit: what realloc refuses is dropped.
log_run ==
  IF gantt_log = "NULL" THEN UNCHANGED << gantt_log, failures >>
  ELSE \E lost \in 0 .. (IF Simulated = << >> THEN 0 ELSE MaxFailures - failures) :
         /\ failures' = failures + lost
         /\ gantt_log' \in Logs(Simulated, lost)

schedule ==
  /\ pc = "schedule"
  /\ Known
  /\ \A k \in DOMAIN Simulated : ~Endless(Simulated[k])
  /\ IF processes = "copy"
       THEN copy' = Used(copy) /\ UNCHANGED procs
       ELSE procs' = Used(procs) /\ UNCHANGED copy
  /\ log_run
  /\ pc' = "report"
  /\ UNCHANGED << argVars, heap, config_file, processes, rows, status,
                  loading, input, position, parsed, num_procs, configVars >>

\* exit(1) in the middle of a run: mlfq_on_init cannot allocate its state, or its queues
\* after that, or one of the two enqueue a node.  What the policy has is not freed.
schedule_exits ==
  /\ pc = "schedule"
  /\ malloc_fails
  /\ \/ Algorithm = "MLFQ" /\ heap' \in {heap, After({}, {"policy"})}
     \/ Algorithm = "RR" /\ Simulated # << >> /\ heap' = After({}, {"policy"})
  /\ exit(1)
  /\ UNCHANGED << argVars, config_file, simVars, loadVars, configVars >>

schedule_endless ==
  /\ pc = "schedule"
  /\ Known
  /\ \E k \in DOMAIN Simulated : Endless(Simulated[k]) \/ Undefined(Simulated[k])
  /\ pc' = "lost"
  /\ UNCHANGED << argVars, heap, failures, config_file, simVars, status, loadVars, configVars >>

\* Mutant: the error is reported and the program goes on.
fail_unknown_continues == pc' = "report" /\ UNCHANGED status

fail_unknown == exit(1)

\* The log that init_scheduler_state allocated is not freed.
schedule_unknown ==
  /\ pc = "schedule"
  /\ ~Known
  /\ heap' = After({"procs"} \cup ArgStrings, {})
  /\ fail_unknown
  /\ UNCHANGED << argVars, failures, config_file, simVars, loadVars, configVars >>

\* What it frees; of the fields it resets only the log is looked at again.
cleanup_scheduler_state == IF gantt_log = "NULL" THEN {} ELSE {"log"}

\* Chart and table; `entries` is what render_gantt_chart does not free.
Report(entries) ==
  /\ pc = "report"
  /\ ~args.compare_mode
  /\ heap' = After(cleanup_scheduler_state, entries)
  /\ gantt_log' = "NULL"
  /\ pc' = "final"
  /\ UNCHANGED << argVars, config_file, processes, copy, rows, status, loadVars, configVars >>

\* The entries are drawn and freed, or there is no log to split.
report == Report({}) /\ gantt_log # "bars" /\ UNCHANGED failures

\* The split finds no entry between the '|', and the array it made is forgotten.
report_no_entries == Report({"entries"}) /\ gantt_log = "bars" /\ UNCHANGED failures

\* split_gantt_log cannot allocate the array, or the copy it cuts up.
report_unsplit == Report({}) /\ gantt_log \in {"bars", "entries"} /\ malloc_fails

\* Mutant: the copy is not freed.
FreedByRow_log == cleanup_scheduler_state

FreedByRow == cleanup_scheduler_state \cup {"copy"}

\* The end of run_algorithm: averages, and the memory.
report_row ==
  /\ pc = "report"
  /\ args.compare_mode
  /\ rows' = Append(rows, IF num_procs = 0 THEN "nan" ELSE "averages")
  /\ heap' = After(FreedByRow, {})
  /\ gantt_log' = "NULL"
  /\ copy' = << >>
  /\ pc' = "compare"
  /\ UNCHANGED << argVars, failures, config_file, processes, status, loadVars, configVars >>

print_comparison_table ==
  /\ pc = "compare"
  /\ Len(rows) = NumAlgorithms
  /\ pc' = "final"
  /\ UNCHANGED << argVars, heap, failures, config_file, simVars, status, loadVars, configVars >>

\* The end of main.
return ==
  /\ pc = "final"
  /\ heap' = After({"procs"} \cup ArgStrings, {})
  /\ exit(0)
  /\ UNCHANGED << argVars, failures, config_file, simVars, loadVars, configVars >>

ended == pc \in {"exited", "lost"} /\ UNCHANGED vars

Next ==
  \/ parse_args
  \/ load_string \/ load_string_fails \/ load_file \/ load_nothing
  \/ load_item \/ load_return
  \/ run_single \/ run_algorithm \/ run_algorithm_fails
  \/ configure
  \/ schedule \/ schedule_endless \/ schedule_exits \/ schedule_unknown
  \/ report \/ report_no_entries \/ report_unsplit
  \/ report_row \/ print_comparison_table
  \/ return
  \/ ended

\* One thread that nothing blocks.
Spec == Init /\ [][Next]_vars /\ WF_vars(Next)
-----------------------------------------------------------------------------
(***************************************************************************)
(* Every variable in its range; of the heap it says that no block is freed *)
(* twice and no file closed twice.                                         *)
(***************************************************************************)
TypeOK ==
  /\ loading \in {"none", "string", "file", "done"}
  /\ procs \in Seq(Element) /\ copy \in Seq(Element)
  /\ parsed \in 0 .. Len(procs) /\ num_procs \in 0 .. Len(procs)
  /\ parsing \in {"none", "file", "done", "rejected"}
  /\ heap \in [Blocks -> Nat] /\ dups \in [Strings -> Nat]
  /\ options \in 0 .. MaxOptions /\ failures \in 0 .. MaxFailures
  /\ rows \in Seq(Row) /\ Len(rows) <= NumAlgorithms
  /\ processes \in {"procs", "copy"}
  /\ gantt_log \in {"NULL", "empty", "bars", "entries"}
  /\ status \in {-1, 0, 1} /\ (status # -1 <=> pc = "exited")

(***************************************************************************)
(* src/core/parser.c:91.  Every simulation that starts has a configuration *)
(* MLFQ can run with, that of the file if it can be opened; also the later *)
(* ones of compare mode, which read the file again.                        *)
(***************************************************************************)
ConfigUsable ==
  pc = "schedule" => Usable(config) /\ \A file \in config_file : Describes(config, file)

(***************************************************************************)
(* src/core/main.c:32 and :146.  Every algorithm of the comparison starts  *)
(* where the first one did: with all the processes that were loaded, none  *)
(* of their fields used up by a run before, whatever run was left out for  *)
(* lack of memory.                                                         *)
(***************************************************************************)
FreshStart ==
  pc = "schedule" /\ args.compare_mode =>
    /\ Len(Simulated) = num_procs
    /\ HoldsParsed(Simulated)
    /\ \A k \in DOMAIN Simulated : Simulated[k].fields = "initial"

\* Every name in the log may be of '|' only, if the entries of the others were dropped.
SeparatorsOnly ==
  /\ Barred(Simulated) # {}
  /\ Cardinality(DOMAIN Simulated \ Barred(Simulated)) <= failures

(***************************************************************************)
(* docs/design-notes.md:10.  Compare mode owns between two algorithms what *)
(* it owned before the first, and a program that ends with status 0 has    *)
(* freed everything, whichever of its allocations failed and was survived, *)
(* with two exceptions: the strings of options that were repeated, as      *)
(* parse_args overwrites the pointer to the earlier one; and, of a single  *)
(* run whose names are all '|', the array at src/core/gantt.c:83.          *)
(***************************************************************************)
MemoryReturned ==
  /\ pc = "compare" =>
       heap = [b \in Blocks |-> IF b \in Strings THEN dups[b] ELSE IF b = "procs" THEN 1 ELSE 0]
  /\ pc = "exited" /\ status = 0 =>
       \A b \in Blocks :
         \/ heap[b] = (IF b \in Strings /\ dups[b] > 1 THEN dups[b] - 1 ELSE 0)
         \/ b = "entries" /\ heap[b] = 1 /\ ~args.compare_mode /\ SeparatorsOnly

(***************************************************************************)
(* The program ends, with or without success, unless its workload contains *)
(* a process with a negative burst (README.md:124 rules it out) or one     *)
(* that was announced by its colons and could not be read.                 *)
(***************************************************************************)
Returns ==
  <>(\/ pc = "exited"
     \/ pc = "lost" /\ \E k \in 1 .. num_procs : procs[k].burst # "served")

(***************************************************************************)
(* docs/product-spec.md:51, "It is strictly required that all allocated    *)
(* memory is properly freed prior to application termination", and         *)
(* include/parser.h:30, "regardless of whether the simulation succeeds or  *)
(* fails".                                                                 *)
(***************************************************************************)
AllMemoryFreed == pc = "exited" => heap = [b \in Blocks |-> 0]
=============================================================================
