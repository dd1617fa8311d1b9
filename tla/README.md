# A TLA+ model of the CPU scheduler simulator

The program is a discrete-time simulator of one CPU: it reads a set of processes
(name, arrival time, burst time), runs them under FCFS, SJF, STCF, Round Robin or
MLFQ one time unit at a time, and prints a Gantt chart and the turnaround, waiting
and response times.  It is one thread without I/O in its loop.  What makes it hard to
test is not concurrency but the protocol between the engine and the policies: the
stages of a time unit share `running_process`, `preempt_requested`, the process states
and the policies' queues, each writes part of them, and a rule such as "no process
waits longer than ..." rests on what happened many time units ago.

## The system

| Component | Code | State | Operations | What makes it correct |
|---|---|---|---|---|
| Process record | `include/process.h`, `src/core/process.c` | fields of a process | init, start, tick, finish | first start recorded once, metrics agree with what ran |
| Engine | `src/core/scheduler.c` | process array, clock, next arrival, running process, preemption flag, context switches, `completed` | stages 1 to 6 of `step_simulation`, loop of `run_simulation` | one process runs; no arrival late; every unit accounted for; the loop ends |
| Round Robin | `src/algorithms/rr.c` | ready queue, quantum left | five hooks | queue and states in step; bounded wait |
| Ready queue | `src/utils/queue.c` | linked list, size, allocated nodes | init, enqueue, dequeue, free | FIFO; list, count and memory agree |
| MLFQ | `src/algorithms/mlfq.c` | queues, boost timer, quantum left, priority and allotment of each process | five hooks | rules 1 to 5 of `docs/design-notes.md` |
| FCFS, SJF, STCF | `src/algorithms/{fcfs,sjf,stcf}.c` | none | `next_process`; STCF also `on_arrival` | order, ties, optimality |
| Policy registry | `src/core/policy.c` | none | look up a name (never called), five wrappers | - |
| Gantt chart | `src/core/gantt.c` | the log, the chart | init, append, render, clean up | the chart is the run; nothing leaks |
| Metrics table | `src/core/metrics.c` | none | print averages, convoy warning | averages and warning are what the log says |
| Workload parsers | `src/core/process.c` | the array while it is filled | string, file | every process that can be read, in order; the count |
| Command line, MLFQ configuration | `src/core/parser.c` | `Args`, `MLFQConfig` | parse, defaults, free | the configuration is one MLFQ can run with |
| Main, compare mode | `src/core/main.c` | owned memory, results | one run, five runs | every algorithm starts from the workload; memory freed on every path |

The engine calls the policy through hooks: `on_init`, `on_arrival` (stage 2), `on_tick`
(stage 3), `next_process` (stage 4), `on_finish`.  A policy answers by setting
`preempt_requested`, by the process it returns, and by its own state; it never touches
the clock or the states.  Metrics and chart are computed from what the engine leaves.

Hard behaviours, each listed with its line in `PROJECT.json`: several events in one time
unit (completion, arrivals, end of a slice, boost) and their order; a process that stands
in a queue while it still runs; a process preempted by itself; bursts of 0, which end by
a path of their own; a quantum of 0; fresh quanta after a preemption; ties; starvation;
two representations of the same thing that are updated separately (head and size of a
queue, the bars and the times of a chart); allocations that fail halfway; a count taken
before the input is looked at; a program that leaves by `exit` from three levels down while
others own memory; five simulations of one array.

## Modules

    Process        the record and its operations
      Engine       stages and shared state, any policy        implements  Uniprocessor
        RoundRobin    rr.c with queue.c                       implements  Engine
        MLFQ          mlfq.c                                  implements  Engine
        ScanPolicies  fcfs.c, sjf.c, stcf.c                   implements  Engine
        Metrics       metrics.c on a finished simulation
        EngineProofs  the inductive invariant, that Engine implements Uniprocessor,
                      and its log, metrics, report, context switches, makespan
          RoundRobinProofs, MLFQProofs, ScanPoliciesProofs
    Queue          the linked list of queue.c               implements  Fifo
      QueueProofs  the inductive invariant and the refinement
    Gantt          the log and the chart
      GanttProofs  the inductive invariant, and what a chart says of the run
    Workload       the parsers of process.c
    Configuration  parse_mlfq_config
      Simulator    main.c and the command line, with Workload and Configuration
        SimulatorProofs   memory, workload, configuration, what a simulation starts from
    Sums           the loops that add up (Metrics, Workload)
    Foundations    induction, recursive functions, queues: lemmas of the proof modules

**Process.** A record with the fields of the C structure, and one operator for each
function; `process_ready` and `process_resume` are the two assignments to `state` that the
engine makes itself.  `priority` and `allotment_used` are variables of `MLFQ`.  A pid is a
pair (first character, rest) because the engine's sort and the policies' tie-breakers
differ exactly in looking at the first or at both.

**Engine.** One action per stage, in the order `step_simulation` performs them; `pc` names
the stage that is next.  The loop of `handle_arrivals` is one action per iteration, for a
hook runs in each.  The stages are not interleaved with anything: they are separate
actions because a hook is called between them and because the properties speak of the
state between them.  The Gantt log is a sequence with the index of a process or 0 for
"-"; allocation failures are not modelled.  qsort leaves equal elements in an unspecified
order, so an initial state is any sorted array.  The engine is written against a policy
that decides anything: whether a hook requests a preemption, and which process
`next_process` returns, are parameters of the actions, and `Next` allows every value the
*contract* allows: a preemption is requested only of a process that runs, and
`next_process` returns a process that has arrived and not finished, or NULL when there is
none.  The contract is this model's own (`MayRequest`, `Candidates`, `MayReturn`): the code
declares the hooks and says nothing of what they may answer.  What is checked and proved of
`Engine` holds of every policy that keeps the contract, and each policy module is checked (`ImplementsEngine`) and proved to keep it.

**Uniprocessor.** What a simulation is from outside: each time unit serves one process that
has arrived and not finished, lets a process with nothing to do pass, or idles if nobody
waits.  The refinement mapping takes arrival, burst and clock from the engine, the units
served as burst less remaining time, and the finish time; a process that has used up its
burst counts as finished at once, though the engine records it at the next stage 1.

**RoundRobin, MLFQ.** The engine's actions with the policy's conjoined: one action per hook
(`mlfq_on_tick` is the disjunction of its four outcomes).  Queues are sequences.

**ScanPolicies.** The variable `policy` says which of the three `run_simulation` was called
with.  Their `next_process` loops are one recursive function with three orders; the loops of
SJF and STCF differ from FCFS only in the comparison.

**Queue, Fifo.** The heap is explicit: `process` and `next` give the fields of every address
`malloc` can return, with any values at first and stale ones after `free`, and `enqueue` may
get any address that is not `allocated`.  `order` is a history variable, the nodes in the
order they were queued; the code never reads it.  The invariants say that what the code
does read (head, tail, links, size) agrees with it, and `Fifo` is implemented with the
processes of `order` as its sequence, which is what `RoundRobin` and `MLFQ` use for a queue.
`mlfq.c` has a copy of the list without the count.  The loop of `queue_free` is one action per
iteration, since whether it ends is a question.

**Gantt.** The log is a string with `|` between entries; a string is modelled by its pieces
between the `|`, so that appending is concatenation and a name that contains a `|` has
several pieces.  `ran` and `dropped` are history variables: what each unit was spent on, and
which units were lost because `realloc` failed.  `render_gantt_chart` is one action; the
two loops that build blocks repeat the same iteration `Grow` (`Grouped`).  The chart is a record
of blocks with start, end and width; the lines of the exact chart are modelled by the
columns at which bars and times begin (`BarColumn`, `TimeColumn`), the characters between
them are not.  An allocation the renderer does not check ends in `crashed`.  `memory` are
the log and the array of entries while they are allocated.

**Metrics.** What `print_metrics_table` computes of the array once the simulation is over: three
sums (`Total`), their quotients, and the first process that satisfies the convoy condition.  It has no
actions; `MCEngine` checks it at the end of every simulation, under every policy.

**Workload.** `strtok`'s tokens, or what each `fgets` returns, are items of a small set: what
matters of an item is whether a process can be read from it (and whether its burst is
negative, and its name `|` only), how many colons a token has, and of what `fgets` reads
whether it begins with `#` and whether it fills the buffer of 256 characters.  After one that
does, the next item is the rest of the same line, which the parser takes for a line; the
properties tell them apart (`Tails`).  One action per item.  An array element is the item it
was read from and whether its simulation fields are initial, used by a run, or unset as
`malloc` left them.

**Configuration.** One action per line of the file, by kind: a level, a boost period, a line
that is ignored, and the three `exit(1)`, which are one action.  A line is again what `fgets`
returns: the rest of one longer than the buffer is a line here as in the code.  The arrays have
`MAX_MLFQ_QUEUES` elements; 0 is one that was never assigned.

**Simulator.** Extends both and adds `main`: the options in any order and number, the choice of
the workload, `init_scheduler_state` and `parse_mlfq_config` before each simulation, the loop
of compare mode, and each way out.  `heap` counts the blocks and open files of each kind that
are allocated, so a missing `free` and a double one both show; `dups` is a history variable,
the `strdup`s of each option.  A simulation is one step (`schedule`): it uses up the fields of
the array it is given, or never returns (`schedule_endless`) if the burst of a process is
negative or its fields are used up; with an element that was never written both can happen.
`gantt_log` is what the run leaves in the log as far as the renderer's ways out differ: no log,
nothing, separators only, or entries as well.
`malloc` and `realloc` may fail wherever the code handles it: the array of the string parser,
the copy of compare mode, the log, each entry of it (`log_run`), the array and the copy the
renderer splits the log with (`report_unsplit`), and, with `exit(1)` in the middle of a run, the
state, the queues and the nodes of MLFQ and the nodes of Round Robin (`schedule_exits`).

The modules define, next to the operator it replaces, a *mutant* for each property: the
code with a plausible mistake (`ArrivalDue_late`, `enqueue_front`, ...).  With the mutant in
place TLC finds the property violated, which shows that the property depends on the code.

## Runs

| Run | Configuration | Shows |
|---|---|---|
| `engine` | `MCEngine.cfg` | types; one process runs; no late arrival; `completed` is exact; log, metrics and context switches agree with each other; the averages and the convoy warning are what the log says; the end time is the same for every policy; termination; refinement of `Uniprocessor` with its fairness |
| `round_robin` | `MCRoundRobin.cfg` | queue and states in step; arrivals ahead of the preempted process; a READY process waits at most a slice for each of the others; a slice is never exceeded while another waits; contract |
| `mlfq` | `MCMLFQ.cfg` | every READY process in one queue, that of its priority; the highest priority runs; level and allotment are a function of CPU time; quanta are shared; a boost lifts everybody; contract |
| `scan_policies` | `MCScanPolicies.cfg` | order of FCFS; SJF never preempts and is optimal for simultaneous arrivals; STCF always runs a shortest process and no schedule that is idle only when nobody waits has a smaller total turnaround; contract |
| `mlfq_starvation` (violation) | `MCMLFQStarvation.cfg` | the boost timer stands still in a time unit that begins with a completion, so a stream of short processes starves a demoted one; `docs/mlfq_design.md:137` says otherwise |
| `fcfs_ties` (violation) | `MCFCFSTies.cfg` | P2 can run before P1 though they tie; `README.md:132` says names decide |
| `queue` | `MCQueue.cfg` | ends, links and count of the list agree; no node leaks or dangles; FIFO; `queue_free` returns with everything freed |
| `gantt` | `MCGantt.cfg` | an exact chart is the run, less the units whose entry was lost, with one entry for each unit unless a name has `\|` in it; a sampled chart is right at its samples, one per chunk; blocks fit their arrays; times stand under bars; nothing leaks, except the array of entries when something was logged and all of it was `\|`: the early return of `gantt.c:85` forgets it |
| `simulator` | `MCSimulator.cfg` | no block is freed twice; every process that is written in the input is loaded, in order, once and with nothing else but the rest of an over-long line, and counted unless stray colons make up one more; MLFQ always gets a configuration it can run with, the one the file describes; each algorithm of the comparison starts from the whole workload, also after one that was left out for lack of memory; compare mode owns between two algorithms what it owned before, and a program that ends with 0, though an allocation failed on the way, has freed all but the earlier strings of repeated options and that array of entries; the program returns unless a burst is negative or an element was never written |
| `workload_count` (violation) | `MCWorkloadCount.cfg` | `P1:0:5,P2:x:3` counts as two processes, and the second is uninitialised memory; `process.c:30` says colons / 2 is the number |
| `comment_tail` (violation) | `MCCommentTail.cfg` | the rest of a comment of more than 255 characters can become a process; `process.c:57` says comments are ignored |
| `memory_freed` (violation) | `MCMemoryFreed.cfg` | a wrong option leaves the strings of the earlier ones allocated; `parser.h:30` and `docs/product-spec.md:51` say nothing leaks (the other ways to leak are those named above, and `exit(1)` from the configuration parser or in the middle of a run) |

**Bounds.** A workload is fixed in the initial state, so every run is finite without any
bound on counters; each configuration takes *all* workloads of three processes with
arrival and burst times from small sets.  Three processes are what the code needs to show
each relation it keeps: one runs, one waits, one arrives.  The sets contain 0 (bursts
that end in stage 4b, simultaneous arrivals), gaps that leave the CPU idle, and bursts
longer than every slice.  `mlfq` takes six configurations: allotments equal to, above and
below the quanta, one to three levels, with boosts every two to four units and without.
The starvation run has four processes: two suffice for a delay, four exceed the period.
One pid is enough where only the array order matters; the scans get two names with the
same first character.  No symmetry is declared: the array order matters.
`queue` has three nodes (a first, an inner, a last one) for two processes; a full heap is a
failing `malloc`.  `gantt` scales the constants of the renderer down (4 units exact, chunks
of 3, width 2) and takes every run of up to 8 units of three names, among them one longer
than a narrow block and the name `|`, with any allocation failing, at most one `realloc` among
them.  `engine` takes 2 for the convoy threshold of 100, which workloads of three processes
exceed.
`simulator` takes every command line of three options (a workload, a mode or an algorithm, and
one that is repeated, conflicts or is wrong), every input of up to three items (beyond the
first capacity of 2, which stands for 10) of six kinds of token and six kinds of piece, among
them the beginning and the rest of a long comment and of a long line, configuration files that
leave levels out, fill them and exceed the three there are (for 10), set the boost period once,
twice or not at all, an invalid value in each place, and one failing allocation.  A single run
is of FCFS, which allocates nothing, of MLFQ, which does, or of a name nobody knows (none was
given); compare mode runs its five algorithms, Round Robin among them.  The violation runs need
two options and two items.

**Fairness.** The specifications assume weak fairness of the whole next-state relation: the
loop of `run_simulation` is one thread that nothing blocks, so while a stage is possible the
program performs one.  Nothing is assumed of which hook answer a policy gives.  In `Queue`
only the steps within `queue_free` are fair; nobody need call it.  `Gantt` states no liveness.
`Simulator` is again one thread: `Returns` rests on weak fairness of its next-state relation.
Deadlock is checked everywhere; a finished simulation stutters (`returned`, `ended`).

## Proofs

Everything here is proved for every value of the constants: any number of processes, any
workload of naturals, any quantum, MLFQ configuration, command line, input and number of
failing allocations.  The modules build on each other: a theorem about the engine holds under
every policy because each policy's steps are proved to be steps of the engine, and the proofs
about a policy then use the engine's invariants as facts.

**The engine** (`EngineProofs`), under every policy that keeps the contract:

| Theorem | States |
|---|---|
| `TypeCorrect` | `[]TypeOK`: no index, counter or field leaves its range |
| `OneProcessRuns` | `[]OneRunning` |
| `ArrivalsOnTime` | `[]NoLateArrival` |
| `CompletedIsExact` | `[]CompletedCountsFinished` |
| `EngineInvariant` | `[]EngineInv`, the inductive invariant |
| `EngineIsUniprocessor` | every behaviour is a schedule of `Uniprocessor` (its safety part) |
| `LogIsComplete` | `[]LogAccountsForCPU`: the log has an entry for every time unit, those of a process are the CPU time it used, within its life |
| `MetricsAreRight` | `[]MetricsMatchLog` |
| `ReportIsRight` | `[]ReportMatchesLog`: the three averages and the convoy warning, for any threshold |
| `SwitchesAreCounted` | `[]ContextSwitchesMatchLog` |
| `MakespanIsFixed` | `[]MakespanIsPolicyIndependent` |

None of these is inductive by itself.  `completed <= NumProcs` needs the loop condition
inside a step (`StepInLoop`).  `NoLateArrival` needs that exactly the processes beyond
`next_arrival_idx` have not arrived and that the array is sorted (`ArrivedInOrder`): then the
first of them is the earliest, and if it is not due none is.  The count needs
`OneRunning`: the process that finishes was RUNNING, so it was not counted before.  The
refinement needs that a process is out of work before it is FINISHED only until the next
stage 1 and only while it has the CPU (`WorkAccounted`), and that an idle CPU means that
nobody is READY (`CPUWellUsed`, from the contract).  The proof has one lemma for each stage;
the lemmas of the first section say what the operations of `process.c` keep.

What the log says is settled while a process runs, not when it finishes, so `MetricsKept` says
it of every process that has started, and `SwitchesKept` of the switch that the dispatch has
counted and the log does not show yet.  `History` is these together with `EngineInv`, the
log, and `NotYetDue` (who has not arrived is not due); it is what the proofs about the policies
start from.  The makespan needs an argument of its own: `WorkKept` says that the clock and the
work left of those who have arrived, one pair for each time unit they will still be charged,
add up to the time at which the arrived ones would end one after the other, so that a policy
can only choose which of the pairs goes next.  The report adds up the metrics once nobody is
left: its sums are the numbers of pairs of a process and a time unit it lived through, waited
in, or spent before it was first served, by induction over the array (`TotalOfSizes`).

**Round Robin** (`RoundRobinProofs`), for every quantum:

| Theorem | States |
|---|---|
| `RoundRobinKeepsContract` | every step is a step of `Engine` (safety part of `ImplementsEngine`) |
| `QueueIsReadySet` | `[]RRInv`: the queue is the READY processes, once each |
| `EngineInvariantOfRoundRobin` | so `[]EngineInv` of every run under Round Robin |
| `QueueIsInOrder` | `[]ArrivalsAheadOfPreempted` |
| `NobodyOverstaysTheSlice` | `[]SliceRespected` |
| `NobodyWaitsLong` | `[]BoundedWait`: a READY process waits at most a slice for each of the others |

Contract and queue need each other: the queue's head may be dispatched because the queue is
exact, and the queue stays exact because the engine's invariant says which process is
RUNNING.  `RRInductive` adds that a preemption is pending only between the tick that asked
for it and the dispatch of the same time unit, that the queue which `on_init` replaces is
empty, and that `completed` is `num_processes` after the loop, so that the queue which
`on_finish` empties is empty already.  The bounds on time are `RRTimed`, read off the log:
the queue is in the order of joining, the slice on the CPU began `Since` units ago, and the
process that stands i-th has waited so little that its wait, the rest of the slice and a slice
for each process ahead of it are no more than a slice for each of the others.

**MLFQ** (`MLFQProofs`), for every configuration:

| Theorem | States |
|---|---|
| `MLFQKeepsContract` | every step is a step of `Engine` |
| `QueuesAreReadyByPriority` | `[]MLFQInv`: every READY process in one queue, once, that of its priority |
| `EngineInvariantOfMLFQ` | so `[]EngineInv` of every run under MLFQ |
| `TheHighestRuns` | `[]HighestPriorityRuns` (rule 1) |
| `QuantaAreShared` | `[]QuantumShared` (rule 2) |
| `LevelsFollowTheCPU` | `[]LevelFollowsCPUTime` (rule 4) |
| `BoostLiftsAll` | `BoostLiftsEveryProcess` (rule 5), an action property |

`MLFQInductive` states the queues level by level, so that a hook that touches one level is
seen to leave the others alone; `RunnerIsHighest` that who runs is highest or its
preemption is on the way; `MLFQTimed` adds how long ago the quantum began and that a preempted
process stands last in its queue.  Rule 4 holds where no boost comes in between: its proof
needs that the boost timer is never ahead of the clock (`TimerBehind`) and the clock never
beyond the makespan, which is `WorkKept` of the engine again.

**FCFS, SJF, STCF** (`ScanPoliciesProofs`):

| Theorem | States |
|---|---|
| `ScanPoliciesKeepContract` | every step is a step of `Engine` |
| `FCFSFollowsTheArray` | `[]FirstComeFirstServed` |
| `ShortestJobIsNotPreempted` | `[]RunsToCompletion` |
| `ShortestIsServed` | `[]ShortestRuns`: STCF runs a shortest process |
| `ShortestFirstMinimizesTurnaround` | `[]ShortestFirstIsOptimal`: STCF, and SJF when all arrive together, have the least total turnaround |

The scan is a recursive function; its lemmas say that it returns a READY process that no other
precedes.  FCFS and SJF rest on `NeverPreempted` (a READY process has not run), STCF on
`ShortestKept`: unless a preemption is requested nobody who waits is shorter than who runs,
though each arrival is compared with the running process alone.

Optimality is an exchange argument over what is left of each process.  One state of the work is
`Ahead` of another at a time if both have as much left among the processes due, and the first
in no more of them: whatever any set of processes has left in the second, no more processes than
that have no less left in the first.  Serving a shortest process keeps a state ahead of one in
which anybody is served (`AheadAfterServing`), and so does an arrival; a time unit adds to the
total the number of those who wait or run (`ServingCosts`).  By induction on the time left
(`OptimalStep`) no schedule ends with less than one that always serves a shortest process, which
makes `LeastTotal` the total of such a schedule (`ShortestFirstIsLeast`).  That the program's run
is one is the invariant `LeastSoFar`: what was left at each time so far is a history in which
every time unit served a shortest process.  It rests on `ShortestKept` for STCF and
`ShortestJobKept` for SJF (a process once begun stays the shortest, as nobody arrives later);
`WorkKept` says that the history ends at the makespan, with nothing left.

**The program** (`SimulatorProofs`):

| Theorem | States |
|---|---|
| `ProgramTypes` | `[]TypeOK`: ranges, no block freed twice, no file closed twice |
| `EverythingIsReturned` | `[]MemoryReturned`, with its two exceptions, for any number of failing allocations |
| `EveryProcessIsLoaded` | `[]LoadedAsWritten`, whatever the length of the input |
| `EveryAlgorithmStartsFresh` | `[]FreshStart` |
| `ConfigIsUsable` | `[]ConfigUsable`, whatever the length of the file and the size of the arrays |

`Flow` is the order of the parts of `main` and what is settled when each begins; the other
invariants are stated on top of it.  `MemoryKept` counts the blocks of each kind in each part.
That the array of entries is left behind only by a single run of nothing but `|` needs `LogKept`:
a log of separators only comes from a process named so while every entry of the others was
refused, and the refusals are counted (`RunLog`).
`LoadKept` says that `parsed` is the number of readable items behind the position, so that a
full array of the string means that the processes that fit into the colons have all been
read; the sums over the items are those of `Total`.  That the array is in the order of the input
rests on the rank of an item among the readable ones, which is that of its element
(`LoadedInOrder`).  `CopyKept` follows the copy of compare mode.
`ConfigKept` follows the file line by line: `queue_idx` is the number of level lines read, cut
off at the size of the arrays, every level below it is that of its line, and every level from
it on is still the built-in one, also when compare mode reads the file again; `BoostKept` follows
the boost period in the same way.

**The linked list** (`QueueProofs`), for any processes and any memory:

| Theorem | States |
|---|---|
| `QueueInvariant` | `[]QueueInv`, the inductive invariant |
| `NoNodeLeaksOrDangles` | `[]ListIsAllocated` |
| `SizeIsExact` | `[]SizeIsLength` |
| `QueueIsFifo` | the queue implements `Fifo` |

The conjuncts of `QueueInv` need each other: a dequeue keeps `tail` right only because the
links are in order, and a new node disturbs no link only because its address is not that of
a node in the list (`ListIsAllocated`).

**The chart** (`GanttProofs`), for any run, names of any length, chunks of any size and any
failing allocations:

| Theorem | States |
|---|---|
| `GanttSafe` | `[]GanttInv`: log, blocks and chart are well formed; nothing leaks but the array of entries of a log of separators |
| `ExactChart_IsTheRun` | `[]ExactChartIsTheRun` |
| `SampledChart_IsRight` | `[]SampledChartIsRightAtSamples`, with the capacity of the arrays |
| `TimesStandUnderBars` | `[]TimesUnderBars` |

The inductive invariant (`GanttInductive`) is short: the pieces of the log are those of the kept
units (`LogIsKept`, since `strtok` over a concatenation is the concatenation: `SplitJoin`), and a
chart that is drawn is the chart of the kept units (`ChartIsKept`), which are as many as its
entries when no name has a `|` in it (`SurvivingWhole`).  The rest is about the loops: `RunsGrow`
is the invariant of the iteration both share (the blocks closed so far and the one under
construction tile what was read), `UnitBlocks` and `ScaledBlocks` are what it yields for
time units and for chunks, and `TimesMeetBars` that the two cursors of the time line and the
middle line meet at every bar: a time has at most three digits as the log is no longer than
`ExactLimit`, and a block has at least three columns.

`Foundations` holds what is not about schedulers: induction over the naturals and the recursive
functions on `0 .. n`, stated with sets and functions (they are derived from
`WellFoundedInduction`, since the induction theorems with an operator parameter cannot be
instantiated), and sequences without duplicates with the set of their members.

Assumptions of the proofs: `WorkloadAssumption` (arrival and burst times are naturals, as
`README.md:124` demands; the parsers do not enforce it), `NumProcsAssumption`,
`QuantaAssumption` (a quantum is a natural), `ConfigsAssumption` (an MLFQ configuration has
levels, and its quanta, allotments and period are positive: what `ConfigIsUsable` proves of
the parser), `QueueAssumption` (NULL is neither a process nor a node), `InputAssumption` (an item
from which a process can be read has its two colons), `ConfigFilesAssumption` (a line is a
word and at most two values; there is room for the three built-in levels), `BoundsAssumption`,
`GanttAssumption` (an entry of the log is a nonempty string, and the times of an exact chart have at
most three digits: `ExactLimit` is 50 in the code).
TLC evaluates all of them, and those of the modules without theorems.

Every invariant and action property of the passing runs is proved.  Model-checked only:
termination (`Termination`, `Returns`, `QueueFreeReturns`) and the fairness of `Uniprocessor`
and `ImplementsEngine`, since liveness is beyond the prover.

## Documents and code

The violation runs above are the disagreements that take some steps to come about.  The others,
visible in the code or in a formula that states an exception:

- `tests/configs/mlfq_config.txt:11` gives the lowest level as `-1 -1`; the parser rejects it
  (`config_reject`), so the test "Custom config" (`tests/test_suite.sh:286`) runs a program that
  exits with 1.
- `docs/design-notes.md:161` says that each index of the chart maps to one time unit; a process
  `A|B`, which the parsers accept, is drawn as A and B in turn, at two indices for each unit
  (`ExactChartIsTheRun` says when it holds).
- The array of entries that `gantt.c:85` forgets, against `docs/product-spec.md:51`, is an
  exception in `NoLeaks` and `MemoryReturned`; `memory_freed` is about the same sentence.
- `include/parser.h:38` describes a configuration string with colons; the code opens a file.
- `README.md:77` gives 30 as the default quantum; the code has 0, which acts as 1
  (`SliceRespected` covers it).
- `docs/product-spec.md:32` asks for at least three queues; a file with one level is accepted.
- `docs/mlfq_design.md:26` says that a process which uses its entire quantum is demoted; the
  code demotes by allotment only (`LevelFollowsCPUTime`), and an allotment may exceed the quantum.
- `src/core/gantt.c:89` prints "Each block = 10 time units"; in a sampled chart no block is
  wider than 8 characters, however long it lasts.
- `docs/architecture.md:153` promises a non-zero exit status on memory errors; compare mode
  prints a row of -1 and exits with 0 (`run_algorithm_fails`).
- `src/core/metrics.c:44` explains the convoy warning as "long job blocking a short job"; the
  condition compares a process with its own burst only, so equal jobs trigger it as well.
- `tests/README.md:143` shows averages with two decimals; the table has integers.
- In an empty workload compare mode divides 0 by 0, prints `-nan` and exits with 0.

## Not modelled

Integer overflow; negative arrival times; failing allocations the code does not check: the array
of the file parser and its growth, the copies that `strdup` makes of options, of the workload
string and of log entries, the state of Round Robin, and the arrays of the renderer, whose
failure ends the program in `Gantt` (`render_crash`) but not in `Simulator`.
Names of more than 15 characters, which make the rest of the item unreadable or, in a file,
misread.  In `Simulator` the value of the quantum and the order of the array, which other
modules cover.  Output format, rounding of compare mode's averages, and in a sampled chart
the columns of the time line.  `cleanup_simulation` and `get_policy_by_name`, which nothing
calls.  The test scripts (no state of their own).

## Plan

1. *(done)* Engine, its abstract specification, the five policies; invariant and refinement
   of the engine proved.
2. *(done)* `Queue`: the linked list implements the sequence; proved.  `Gantt`: log and chart.
3. *(done)* `Metrics`: the report against the log.
4. *(done)* `Workload` and `Configuration`: which processes and configurations an input yields.
5. *(done)* `Simulator`: `main` and compare mode with their memory, and the way out.
6. *(done)* Every policy keeps the contract; its queues; its rules on order and time.
7. *(done)* The log, the metrics, the context switches and the makespan of the engine.
8. *(done)* Memory, workload, configuration and fresh starts of the program as a whole.
9. *(done)* The chart: the log as it grows, the blocks of both modes, the two lines of an exact chart.
10. *(done)* Optimality: no schedule has a smaller total turnaround than shortest first.
