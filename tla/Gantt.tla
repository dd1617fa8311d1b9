-------------------------------- MODULE Gantt --------------------------------
(***************************************************************************)
(* The Gantt chart of src/core/gantt.c: the log that step_simulation       *)
(* extends by one entry in every time unit, and the chart that is drawn    *)
(* from it after the run.                                                  *)
(*                                                                         *)
(* The log is one string with '|' between the entries.  A string is        *)
(* modelled by the sequence of its pieces between the '|' it contains, so  *)
(* that a process name with a '|' in it has more than one piece.           *)
(***************************************************************************)
EXTENDS Integers, Sequences, FiniteSetsExt, Sums

CONSTANTS
  Entries,        \* what is logged: the names of the processes and "-"
  LabelLength,    \* strlen of each piece
  NoLog,          \* the NULL pointer gantt_log
  ExactLimit,     \* 50, the longest log whose time units are all drawn; its times have at most 3 digits
  ChunkSize,      \* 10, chunk_size
  MaxWidth,       \* 8, max_width_allowed
  MaxTime,        \* bound: the time units of a run
  MaxFailures     \* bound: the calls of realloc that fail; 0: no allocation fails

ASSUME GanttAssumption ==
  /\ ExactLimit \in Nat /\ ChunkSize \in Nat \ {0} /\ MaxWidth \in Nat \ {0}
  /\ ExactLimit < 1000
  /\ MaxTime \in Nat /\ MaxFailures \in Nat
  /\ LabelLength \in [DOMAIN LabelLength -> Nat]
  /\ Entries \subseteq Seq(DOMAIN LabelLength)
  /\ \A entry \in Entries : Len(entry) > 0 /\ entry # << "" >>
  /\ NoLog \notin Seq(DOMAIN LabelLength)

VARIABLES
  gantt_log,    \* metrics.gantt_log; << >> is the empty string
  ran,          \* history: what each time unit was spent on
  dropped,      \* history: the time units whose entry was not logged
  chart,        \* what render_gantt_chart draws
  memory,       \* the allocations that are not freed: "log", "tokens"
  pc            \* "init", "run", "rendered", "cleaned", "crashed"

vars == << gantt_log, ran, dropped, chart, memory, pc >>

AllocationFails == MaxFailures > 0
-----------------------------------------------------------------------------
(***************************************************************************)
(* The computations of the renderer.                                       *)
(***************************************************************************)
\* The tokens of the log; strtok skips empty pieces.
split_gantt_log(log) ==
  LET tokens[i \in 0 .. Len(log)] ==
        IF i = 0 THEN << >>
        ELSE IF log[i] = "" THEN tokens[i - 1] ELSE Append(tokens[i - 1], log[i])
  IN  tokens[Len(log)]

\* The block under construction is complete.
Close(s) == Append(s.blocks, [pid |-> s.pid, start |-> s.start, duration |-> s.duration])

\* Mutant: the start of the next block is not recorded.
Grow_stuck(s, pid, time) ==
  IF pid = s.pid THEN [s EXCEPT !.duration = @ + 1]
  ELSE [blocks |-> Close(s), pid |-> pid, start |-> s.start, duration |-> 1]

\* One iteration of either loop: the unit at `time` belongs to the block under
\* construction, or completes it and begins the next one.
Grow(s, pid, time) ==
  IF pid = s.pid THEN [s EXCEPT !.duration = @ + 1]
  ELSE [blocks |-> Close(s), pid |-> pid, start |-> time, duration |-> 1]

\* The block under construction and those before it, after either loop.
Grouped(entries, step) ==
  LET state[i \in 0 .. Len(entries)] ==
        IF i = 0 THEN [blocks |-> << >>, pid |-> entries[1], start |-> 0, duration |-> 0]
        ELSE Grow(state[i - 1], entries[i], (i - 1) * step)
  IN  state[Len(entries)]

\* Mutant: the last block is not closed (< for <=).
Blocks_open(entries, step) == Grouped(entries, step).blocks

\* The blocks of entries taken `step` time units apart.
Blocks(entries, step) == Close(Grouped(entries, step))

\* A log of up to ExactLimit time units; no block is narrower than 3 columns.
ExactChart(entries) ==
  LET blocks == Blocks(entries, 1)
      total == Len(entries)
  IN  [mode |-> "exact", total |-> total,
       blocks |-> [i \in DOMAIN blocks |->
         [pid |-> blocks[i].pid, start |-> blocks[i].start,
          end |-> blocks[i].start + blocks[i].duration,
          width |-> Max({3, (blocks[i].duration * 60) \div total})]]]

\* The first entry of every chunk of ChunkSize.
Sampled(entries) ==
  [k \in 1 .. (Len(entries) - 1) \div ChunkSize + 1 |-> entries[(k - 1) * ChunkSize + 1]]

\* The capacity of start_times, block_widths and block_pids.
max_blocks(total) == total \div ChunkSize + 2

\* A longer log: one entry of each chunk is looked at, and no block is wider than MaxWidth.
SampledChart(entries) ==
  LET blocks == Blocks(Sampled(entries), ChunkSize)
      total == Len(entries)
  IN  [mode |-> "sampled", total |-> total,
       blocks |-> [i \in DOMAIN blocks |->
         [pid |-> blocks[i].pid, start |-> blocks[i].start,
          end |-> IF i < Len(blocks) THEN blocks[i + 1].start ELSE total,
          width |-> Min({MaxWidth, blocks[i].duration})]]]

NoChart == [mode |-> "none", total |-> 0, blocks |-> << >>]

Chart(entries) ==
  IF Len(entries) > ExactLimit THEN SampledChart(entries) ELSE ExactChart(entries)
-----------------------------------------------------------------------------
(***************************************************************************)
(* The columns, from 0, of the lines of an exact chart.                    *)
(***************************************************************************)
\* strlen of a number in decimal
Digits(n) == 1 + Cardinality({power \in {10, 100, 1000, 10000} : power <= n})

\* Where block i's closing '|' stands in the middle line; a label is never cut.
BarColumn(blocks) ==
  [i \in 0 .. Len(blocks) |->
    Total(i, [k \in 1 .. i |-> Max({blocks[k].width, LabelLength[blocks[k].pid]}) + 1])]

\* Mutant: the '|' themselves are not counted.
PipePosition_narrow(blocks) ==
  [i \in 0 .. Len(blocks) |-> Total(i, [k \in 1 .. i |-> blocks[k].width])]

\* next_pipe_pos: where the code of the time line expects that '|'.
PipePosition(blocks) ==
  [i \in 0 .. Len(blocks) |-> Total(i, [k \in 1 .. i |-> blocks[k].width + 1])]

\* Where the end time of block i begins in the time line; time 0 stands in column 0.
TimeColumn(blocks) ==
  LET pipe == PipePosition(blocks)
      Cursor(column, i) == column + (IF i = 0 THEN 1 ELSE Digits(blocks[i].end))
      time[i \in 0 .. Len(blocks)] ==
        IF i = 0 THEN 0
        ELSE LET cursor == Cursor(time[i - 1], i - 1)
             IN  cursor + Max({1, pipe[i] - cursor})
  IN  time
-----------------------------------------------------------------------------
Init ==
  /\ gantt_log = NoLog
  /\ ran = << >>
  /\ dropped = {}
  /\ chart = NoChart
  /\ memory = {}
  /\ pc = "init"

\* When malloc fails the run goes on without a log.
init_gantt_log ==
  /\ pc = "init"
  /\ \/ gantt_log' = << >> /\ memory' = {"log"}
     \/ AllocationFails /\ UNCHANGED << gantt_log, memory >>
  /\ pc' = "run"
  /\ UNCHANGED << ran, dropped, chart >>

\* The time unit that execute or finish_instantly logs.
Unit(entry) ==
  /\ pc = "run"
  /\ Len(ran) < MaxTime
  /\ ran' = Append(ran, entry)
  /\ UNCHANGED << chart, memory, pc >>

append_gantt_entry(entry) ==
  /\ Unit(entry)
  /\ gantt_log # NoLog
  /\ gantt_log' = gantt_log \o entry
  /\ UNCHANGED dropped

\* There is no log, or realloc fails: the entry is lost and nothing is reported.
append_gantt_entry_dropped(entry) ==
  /\ Unit(entry)
  /\ gantt_log = NoLog \/ Cardinality(dropped) < MaxFailures
  /\ dropped' = dropped \cup {Len(ran) + 1}
  /\ UNCHANGED gantt_log

\* render_gantt_chart returns.
Rendered ==
  /\ pc = "run"
  /\ pc' = "rendered"
  /\ UNCHANGED << gantt_log, ran, dropped >>

\* "No Gantt chart data available.": nothing is logged, or the log cannot be split.
render_nothing ==
  /\ Rendered
  /\ gantt_log \in {NoLog, << >>} \/ AllocationFails
  /\ UNCHANGED << chart, memory >>

\* The same after the split found no entry; its array is not freed.
render_no_entries ==
  /\ Rendered
  /\ gantt_log \notin {NoLog, << >>}
  /\ split_gantt_log(gantt_log) = << >>
  /\ memory' = memory \cup {"tokens"}
  /\ UNCHANGED chart

render_gantt_chart ==
  /\ Rendered
  /\ gantt_log \notin {NoLog, << >>}
  /\ split_gantt_log(gantt_log) # << >>
  /\ chart' = Chart(split_gantt_log(gantt_log))
  /\ UNCHANGED memory

\* An allocation that is not checked fails: the copy of an entry, or the arrays of blocks.
render_crash ==
  /\ pc = "run"
  /\ gantt_log \notin {NoLog, << >>}
  /\ AllocationFails
  /\ pc' = "crashed"
  /\ UNCHANGED << gantt_log, ran, dropped, chart, memory >>

\* Mutant: the pointer is reset and the memory kept.
Freed_leaky == memory

Freed == IF gantt_log = NoLog THEN memory ELSE memory \ {"log"}

\* Compare mode draws no chart.
cleanup_gantt_log ==
  /\ pc \in {"run", "rendered"}
  /\ memory' = Freed
  /\ gantt_log' = NoLog
  /\ pc' = "cleaned"
  /\ UNCHANGED << ran, dropped, chart >>

\* The process has ended.
ended == pc \in {"cleaned", "crashed"} /\ UNCHANGED vars

Next ==
  \/ init_gantt_log
  \/ \E entry \in Entries : append_gantt_entry(entry) \/ append_gantt_entry_dropped(entry)
  \/ render_nothing
  \/ render_no_entries
  \/ render_gantt_chart
  \/ render_crash
  \/ cleanup_gantt_log
  \/ ended

Spec == Init /\ [][Next]_vars
-----------------------------------------------------------------------------
Block == [pid : DOMAIN LabelLength \ {""}, start : Nat, end : Nat, width : Nat]

GanttTypeOK ==
  /\ gantt_log = NoLog \/ gantt_log \in Seq(DOMAIN LabelLength)
  /\ ran \in Seq(Entries)
  /\ dropped \subseteq DOMAIN ran
  /\ chart.mode \in {"none", "exact", "sampled"}
  /\ chart.total \in Nat
  /\ chart.blocks \in Seq(Block)
  /\ memory \subseteq {"log", "tokens"}
  /\ "log" \in memory <=> gantt_log # NoLog
  /\ pc \in {"init", "run", "rendered", "cleaned", "crashed"}

\* The pieces of the time units of a run whose entry was not lost, in order.
Surviving(run, lost) ==
  LET kept[t \in 0 .. Len(run)] ==
        IF t = 0 THEN << >>
        ELSE IF t \in lost THEN kept[t - 1] ELSE kept[t - 1] \o split_gantt_log(run[t])
  IN  kept[Len(run)]

Kept == Surviving(ran, dropped)

\* The time units whose entry was logged.
LoggedUnits == DOMAIN ran \ dropped

\* Block i of the chart covers the kept units with these indices.
Covered(i) == chart.blocks[i].start + 1 .. chart.blocks[i].end

\* The blocks follow each other without gap or overlap from time 0 to the end.
BlocksTile ==
  LET b == chart.blocks
  IN  /\ b # << >>
      /\ b[1].start = 0
      /\ b[Len(b)].end = chart.total
      /\ \A i \in DOMAIN b : b[i].start < b[i].end
      /\ \A i \in 1 .. Len(b) - 1 : b[i].end = b[i + 1].start /\ b[i].pid # b[i + 1].pid

(***************************************************************************)
(* docs/product-spec.md:37, for a log of up to ExactLimit units: the       *)
(* blocks tell for every time unit which process held the CPU.  They are   *)
(* the maximal runs of the simulation itself; the units whose reallocation *)
(* failed, and nothing else, are missing from it.  Each index maps to one  *)
(* time unit (docs/design-notes.md:161) unless a name with a '|' in it was *)
(* logged: against the document it takes an index for each of its pieces.  *)
(***************************************************************************)
ExactChartIsTheRun ==
  chart.mode = "exact" =>
    /\ chart.total = Len(Kept)
    /\ (\A t \in LoggedUnits : Len(ran[t]) = 1) => chart.total = Cardinality(LoggedUnits)
    /\ BlocksTile
    /\ \A i \in DOMAIN chart.blocks : \A t \in Covered(i) : Kept[t] = chart.blocks[i].pid

(***************************************************************************)
(* In a longer chart every block is right where it was sampled: the        *)
(* process named held the CPU at the beginning of every chunk the block    *)
(* covers, and the end times printed below tile the run.  The blocks fit   *)
(* the arrays of gantt.c:92-95, allocated before they are counted.         *)
(***************************************************************************)
SampledChartIsRightAtSamples ==
  chart.mode = "sampled" =>
    /\ chart.total = Len(Kept)
    /\ Len(chart.blocks) <= max_blocks(chart.total)
    /\ BlocksTile
    /\ \A i \in DOMAIN chart.blocks : \A t \in Covered(i) :
         (t - 1) % ChunkSize = 0 => Kept[t] = chart.blocks[i].pid

(***************************************************************************)
(* gantt.c:219-262.  The middle line and the time line of an exact chart   *)
(* are laid out by separate code and agree: if every label fits its block, *)
(* the end time of each block begins under its closing bar.                *)
(***************************************************************************)
TimesUnderBars ==
  LET b == chart.blocks
  IN  (chart.mode = "exact" /\ \A i \in DOMAIN b : LabelLength[b[i].pid] <= b[i].width) =>
        \A i \in DOMAIN b : TimeColumn(b)[i] = BarColumn(b)[i]

(***************************************************************************)
(* docs/product-spec.md:51.  Whatever allocation fails, and whether or not *)
(* a chart is drawn, nothing of the log and its copies stays allocated     *)
(* when the simulator is done with them: except, against the document, the *)
(* array of entries when something was logged and all of it separators.    *)
(***************************************************************************)
NoLeaks ==
  pc = "cleaned" => \/ memory = {}
                    \/ memory = {"tokens"} /\ LoggedUnits # {} /\ Kept = << >>

GanttInv == GanttTypeOK /\ NoLeaks
=============================================================================
