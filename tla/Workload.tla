------------------------------ MODULE Workload ------------------------------
(***************************************************************************)
(* The workload parsers of src/core/process.c: parse_workload_string with  *)
(* its count of colons and parse_workload_file with its growing array.     *)
(*                                                                         *)
(* An item of the input is what one sscanf gets to see: a token of the     *)
(* string between two commas, or what one fgets reads of the file.  What   *)
(* matters of an item is whether a process can be read from it, with a     *)
(* burst that can be served or a negative one, and whether the name it     *)
(* would have consists of '|' only; of a token also how many colons it     *)
(* contains; and of what fgets reads whether it begins with '#' and        *)
(* whether it fills the buffer of 256 characters before the line ends, in  *)
(* which case the next piece is the rest of the line.                      *)
(***************************************************************************)
EXTENDS Integers, Sequences, FiniteSets, Sums

CONSTANTS
  Tokens,           \* the tokens a workload string may contain
  Pieces,           \* what one fgets may read of a workload file
  MaxItems,         \* bound: the number of tokens or pieces of an input
  InitialCapacity   \* 10, the first capacity of the array for a file

Reading == {"none", "served", "negative"}

\* "%15[^:]:%d:%d" reads past two colons; "%15s %d %d" reads nothing of a comment.
ASSUME InputAssumption ==
  /\ Tokens \subseteq [colons : Nat, process : Reading, bars : BOOLEAN]
  /\ \A token \in Tokens : token.process # "none" => token.colons >= 2
  /\ Pieces \subseteq [full : BOOLEAN, comment : BOOLEAN, process : Reading, bars : BOOLEAN]
  /\ \A piece \in Pieces : piece.comment => piece.process = "none"
  /\ MaxItems \in Nat
  /\ InitialCapacity \in Nat \ {0}

VARIABLES
  loading,     \* the parser at work: "none", "string", "file"; "done" afterwards
  input,       \* the tokens of the string, or the pieces of the file
  position,    \* the item that strtok or fgets returns next
  procs,       \* the array of processes, all that is allocated of it
  parsed,      \* i of parse_workload_string, n of parse_workload_file
  num_procs    \* *count

loadVars == << loading, input, position, procs, parsed, num_procs >>

(***************************************************************************)
(* An element of the array: the item it was read from, whether its burst   *)
(* can be served, and the fields of the simulation, which init_process     *)
(* sets and a run uses up.  malloc leaves all of them unset.               *)
(***************************************************************************)
Element == [item : Nat, burst : {"served", "negative", "unset"},
            fields : {"initial", "used", "unset"}]

Unset == [item |-> 0, burst |-> "unset", fields |-> "unset"]

Allocated(n) == [k \in 1 .. n |-> Unset]

init_process(k) == [item |-> k, burst |-> input[k].process, fields |-> "initial"]

Inputs(items) == UNION {[1 .. n -> items] : n \in 0 .. MaxItems}
-----------------------------------------------------------------------------
Colons(tokens) == Total(Len(tokens), [k \in 1 .. Len(tokens) |-> tokens[k].colons])

\* Mutant: a process has three colons.
count_processes_three(tokens) == Colons(tokens) \div 3

count_processes(tokens) == Colons(tokens) \div 2

LoadInit ==
  /\ loading = "none"
  /\ input = << >>
  /\ position = 1
  /\ procs = << >>
  /\ parsed = 0
  /\ num_procs = 0

string_begin(tokens) ==
  /\ loading = "none"
  /\ loading' = "string"
  /\ input' = tokens
  /\ num_procs' = count_processes(tokens)
  /\ procs' = Allocated(num_procs')
  /\ UNCHANGED << position, parsed >>

file_begin(pieces) ==
  /\ loading = "none"
  /\ loading' = "file"
  /\ input' = pieces
  /\ procs' = Allocated(InitialCapacity)
  /\ UNCHANGED << position, parsed, num_procs >>

\* parse_process_token and parse_process_line: an item without a process writes nothing.
Store(array) ==
  IF input[position].process = "none"
    THEN procs' = array /\ UNCHANGED parsed
    ELSE procs' = [array EXCEPT ![parsed + 1] = init_process(position)] /\ parsed' = parsed + 1

\* Mutant: the next token is taken only after one that parsed.
strtok_stuck == position' = IF input[position].process = "none" THEN position ELSE position + 1

strtok == position' = position + 1

MoreTokens == position <= Len(input) /\ parsed < num_procs

string_token ==
  /\ loading = "string"
  /\ MoreTokens
  /\ Store(procs)
  /\ strtok
  /\ UNCHANGED << loading, input, num_procs >>

string_return ==
  /\ loading = "string"
  /\ ~MoreTokens
  /\ loading' = "done"
  /\ UNCHANGED << input, position, procs, parsed, num_procs >>

\* The array when a line is about to be parsed: doubled by realloc when it is full.
Grown == IF parsed >= Len(procs) THEN procs \o Allocated(Len(procs)) ELSE procs

file_line ==
  /\ loading = "file"
  /\ position <= Len(input)
  /\ Store(Grown)
  /\ position' = position + 1
  /\ UNCHANGED << loading, input, num_procs >>

file_return ==
  /\ loading = "file"
  /\ position > Len(input)
  /\ num_procs' = parsed
  /\ loading' = "done"
  /\ UNCHANGED << input, position, procs, parsed >>
-----------------------------------------------------------------------------
\* The items from which sscanf can read a process.
Readable == {k \in 1 .. Len(input) : input[k].process # "none"}

\* Item i is the k-th of them.
IsReadable(i, k) == i \in Readable /\ Cardinality({j \in Readable : j < i}) = k - 1

\* The array holds the processes that have been read, in order, and nothing after them.
HoldsParsed(array) ==
  \A k \in DOMAIN array :
    IF k <= parsed THEN IsReadable(array[k].item, k) ELSE array[k].item = Unset.item

\* The input is that of parse_workload_string.
IsString == \A k \in 1 .. Len(input) : input[k] \in Tokens

\* The pieces of a file that are not lines but the rest of one.
Tails == {k \in 2 .. Len(input) : ~IsString /\ input[k - 1].full}

\* The processes of the input: those of tokens and those of lines.
Written == Readable \ Tails

\* The pieces of comments: a line that begins with '#', to its end.
Commented ==
  LET commented[k \in 1 .. Len(input)] ==
        IF k \in Tails THEN commented[k - 1] ELSE input[k].comment
  IN  {k \in 1 .. Len(input) : ~IsString /\ commented[k]}

\* The colons of the string that belong to no process; a file has none that count.
StrayColons ==
  IF ~IsString THEN 0
  ELSE Total(Len(input), [k \in 1 .. Len(input) |->
                            input[k].colons - (IF k \in Readable THEN 2 ELSE 0)])

(***************************************************************************)
(* docs/design-notes.md:83-91.  The array holds, in order and once each,   *)
(* every process that is written in the input, and nothing else but what   *)
(* the rest of a line too long for the buffer looks like: the count of     *)
(* colons, made before any token is looked at, never cuts the string       *)
(* short, and the array of a file grows in time.  The caller is told the   *)
(* number of elements, exactly for a file and, for a string, unless two or *)
(* more colons belong to no process.                                       *)
(***************************************************************************)
LoadedAsWritten ==
  loading = "done" =>
    LET loaded == {procs[k].item : k \in 1 .. parsed}
    IN  /\ Written \subseteq loaded /\ loaded \subseteq Written \cup Tails
        /\ \A j, k \in 1 .. parsed : j < k => procs[j].item < procs[k].item
        /\ \A k \in 1 .. parsed : procs[k].burst = input[procs[k].item].process
        /\ \A k \in parsed + 1 .. Len(procs) : procs[k].item = Unset.item
        /\ parsed <= num_procs /\ num_procs <= Len(procs)
        /\ (num_procs = parsed) <=> (StrayColons < 2)

(***************************************************************************)
(* src/core/process.c:57, "File parsing ignores comments (#) and empty     *)
(* lines": no process is made of a comment, however long.                  *)
(***************************************************************************)
CommentsIgnored ==
  loading = "done" => \A k \in 1 .. parsed : procs[k].item \notin Commented

(***************************************************************************)
(* src/core/process.c:30, "Each process contributes exactly 2 colons       *)
(* (PID:AT:BT), so total colons / 2 = process count": every process that   *)
(* the caller is told of has been initialised.                             *)
(***************************************************************************)
EveryProcessInitialised ==
  loading = "done" => \A k \in 1 .. num_procs : procs[k].item # Unset.item
=============================================================================
