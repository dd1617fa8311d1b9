---------------------------- MODULE GanttProofs ----------------------------
(***************************************************************************)
(* Theorems about the chart of Gantt.tla, for runs and names of any        *)
(* length, chunks of any size and any number of failing allocations: the   *)
(* inductive invariant of the log, and what a chart says of the run.       *)
(***************************************************************************)
EXTENDS Gantt, Foundations

\* The pieces a string can have, and those that strtok returns.
Pieces == DOMAIN LabelLength
Names  == Pieces \ {""}
-----------------------------------------------------------------------------
\* strtok goes through the pieces one by one.
LEMMA SplitSteps ==
  ASSUME NEW log \in Seq(Pieces)
  PROVE  \E tokens \in [0 .. Len(log) -> Seq(Names)] :
           /\ tokens[0] = << >>
           /\ \A i \in 1 .. Len(log) :
                tokens[i] = IF log[i] = "" THEN tokens[i - 1] ELSE Append(tokens[i - 1], log[i])
           /\ split_gantt_log(log) = tokens[Len(log)]
<1> DEFINE n == Len(log)
           V == Seq(Names)
           Next1(i, v) == IF log[i] = "" THEN v ELSE Append(v, log[i])
           step == [i \in 1 .. n |-> [v \in V |-> Next1(i, v)]]
           Loop(g) == [i \in 0 .. n |-> IF i = 0 THEN << >> ELSE Next1(i, g[i - 1])]
           tokens == CHOOSE g : g = Loop(g)
<1>1. n \in Nat /\ << >> \in V
  BY LenProperties, EmptySeq
<1>2. \A i \in 1 .. n : \A v \in V : Next1(i, v) \in V
  <2>1. \A i \in 1 .. n : log[i] \in Pieces
    BY ElementOfSeq
  <2> QED
    BY <2>1, AppendProperties DEF Names
<1>3. split_gantt_log(log) = tokens[n]
  BY DEF split_gantt_log
<1> HIDE DEF n, V, Next1
<1>4. step \in [1 .. n -> [V -> V]]
  BY <1>2
<1>5. PICK g \in [0 .. n -> V] : Follows(g, n, << >>, step)
  <2> HIDE DEF step
  <2> QED
    BY <1>1, <1>4, RecursiveFunction
<1>6. g = Loop(g)
  <2>1. ASSUME NEW i \in 1 .. n PROVE g[i] = Next1(i, g[i - 1])
    <3>1. g[i - 1] \in V /\ g[i] = step[i][g[i - 1]]
      <4> HIDE DEF step
      <4>1. i - 1 \in 0 .. n
        BY <1>1
      <4> QED
        BY <1>5, <4>1 DEF Follows
    <3> QED
      BY <3>1
  <2>2. g[0] = << >>
    BY <1>5 DEF Follows
  <2> HIDE DEF step
  <2> QED
    BY <1>1, <2>1, <2>2
<1>7. tokens = Loop(tokens)
  <2> HIDE DEF Loop
  <2> QED
    BY <1>6, Zenon
<1> HIDE DEF tokens, step
<1>8. /\ tokens = [i \in 0 .. n |-> tokens[i]] /\ tokens[0] = << >>
      /\ \A i \in 1 .. n : tokens[i] = Next1(i, tokens[i - 1])
  <2>1. \A h : /\ Loop(h) = [i \in 0 .. n |-> Loop(h)[i]] /\ Loop(h)[0] = << >>
               /\ \A i \in 1 .. n : Loop(h)[i] = Next1(i, h[i - 1])
    BY <1>1
  <2> HIDE DEF Loop
  <2> QED
    BY <1>7, <2>1
<1>9. \A i \in 0 .. n : tokens[i] \in V
  <2> DEFINE S == {i \in 0 .. n : tokens[i] \in V}
  <2>1. 0 \in S
    BY <1>1, <1>8
  <2>2. ASSUME NEW i \in 0 .. n - 1, i \in S PROVE i + 1 \in S
    <3>1. i + 1 \in 1 .. n /\ (i + 1) - 1 = i /\ i + 1 \in 0 .. n
      BY <1>1
    <3> QED
      BY <1>2, <1>8, <2>2, <3>1
  <2> HIDE DEF S
  <2>3. \A i \in 0 .. n : i \in S
    BY <1>1, <2>1, <2>2, UpTo
  <2> QED
    BY <2>3 DEF S
<1>10. tokens \in [0 .. n -> V]
  BY <1>8, <1>9
<1> QED
  BY <1>3, <1>8, <1>10 DEF n, V, Next1
LEMMA AppendJoin ==
  ASSUME NEW S, NEW s \in Seq(S), NEW x \in S, NEW r \in Seq(S)
  PROVE  Append(s \o r, x) = s \o Append(r, x)
OBVIOUS

\* Splitting a string and its continuation is the same as splitting the whole.
LEMMA SplitJoin ==
  ASSUME NEW log \in Seq(Pieces), NEW entry \in Seq(Pieces)
  PROVE  split_gantt_log(log \o entry) = split_gantt_log(log) \o split_gantt_log(entry)
<1> DEFINE both == log \o entry
           n == Len(log)
           m == Len(entry)
<1>1. /\ both \in Seq(Pieces) /\ Len(both) = n + m
      /\ \A i \in 1 .. n + m : both[i] = IF i <= n THEN log[i] ELSE entry[i - n]
  BY ConcatProperties
<1>2. n \in Nat /\ m \in Nat
  BY LenProperties
<1> HIDE DEF both
<1>3. PICK t \in [0 .. n -> Seq(Names)] :
        /\ t[0] = << >>
        /\ \A i \in 1 .. n : t[i] = IF log[i] = "" THEN t[i - 1] ELSE Append(t[i - 1], log[i])
        /\ split_gantt_log(log) = t[n]
  BY SplitSteps
<1>4. PICK u \in [0 .. m -> Seq(Names)] :
        /\ u[0] = << >>
        /\ \A i \in 1 .. m : u[i] = IF entry[i] = "" THEN u[i - 1] ELSE Append(u[i - 1], entry[i])
        /\ split_gantt_log(entry) = u[m]
  BY SplitSteps
<1>5. PICK w \in [0 .. n + m -> Seq(Names)] :
        /\ w[0] = << >>
        /\ \A i \in 1 .. n + m :
             w[i] = IF both[i] = "" THEN w[i - 1] ELSE Append(w[i - 1], both[i])
        /\ split_gantt_log(both) = w[n + m]
  BY <1>1, SplitSteps
<1>6. \A j \in 1 .. m : entry[j] \in Pieces
  BY ElementOfSeq
<1> HIDE DEF n, m
<1>7. \A i \in 0 .. n : w[i] = t[i]
  <2> DEFINE S == {i \in 0 .. n : w[i] = t[i]}
  <2>1. 0 \in S
    <3>1. 0 \in 0 .. n
      BY <1>2
    <3>2. w[0] = t[0]
      BY <1>3, <1>5, Zenon
    <3> QED
      BY <3>1, <3>2
  <2>2. ASSUME NEW i \in 0 .. n - 1, i \in S PROVE i + 1 \in S
    <3>1. /\ i + 1 \in 1 .. n /\ i + 1 \in 0 .. n /\ i + 1 \in 1 .. n + m
          /\ (i + 1) - 1 = i /\ i + 1 <= n
      BY <1>2
    <3>2. both[i + 1] = log[i + 1] /\ w[i] = t[i]
      BY <1>1, <2>2, <3>1
    <3>3. w[i + 1] = t[i + 1]
      BY <1>3, <1>5, <3>1, <3>2
    <3> QED
      BY <3>1, <3>3
  <2> HIDE DEF S
  <2>3. \A i \in 0 .. n : i \in S
    BY <1>2, <2>1, <2>2, UpTo
  <2> QED
    BY <2>3 DEF S
<1>8. t[n] \in Seq(Names) /\ w[n] = t[n]
  <2>1. n \in 0 .. n
    BY <1>2
  <2> QED
    BY <1>3, <1>7, <2>1
<1>9. \A j \in 0 .. m : w[n + j] = t[n] \o u[j]
  <2> DEFINE S == {j \in 0 .. m : w[n + j] = t[n] \o u[j]}
  <2>1. 0 \in S
    <3>1. n + 0 = n /\ 0 \in 0 .. m
      BY <1>2
    <3>2. t[n] \o << >> = t[n]
      BY <1>8, ConcatEmptySeq
    <3> QED
      BY <1>4, <1>8, <3>1, <3>2
  <2>2. ASSUME NEW j \in 0 .. m - 1, j \in S PROVE j + 1 \in S
    <3>1. /\ j + 1 \in 1 .. m /\ j + 1 \in 0 .. m /\ n + (j + 1) \in 1 .. n + m
          /\ (j + 1) - 1 = j /\ (n + (j + 1)) - 1 = n + j
          /\ ~(n + (j + 1) <= n) /\ (n + (j + 1)) - n = j + 1 /\ j \in 0 .. m
      BY <1>2
    <3>2. both[n + (j + 1)] = entry[j + 1] /\ w[n + j] = t[n] \o u[j]
      BY <1>1, <2>2, <3>1
    <3>3. u[j] \in Seq(Names)
      BY <3>1
    <3>4. w[n + (j + 1)] = IF entry[j + 1] = "" THEN t[n] \o u[j]
                           ELSE Append(t[n] \o u[j], entry[j + 1])
      BY <1>5, <3>1, <3>2
    <3>5. u[j + 1] = IF entry[j + 1] = "" THEN u[j] ELSE Append(u[j], entry[j + 1])
      BY <1>4, <3>1
    <3>6. entry[j + 1] # "" => Append(t[n] \o u[j], entry[j + 1]) = t[n] \o Append(u[j], entry[j + 1])
      <4> SUFFICES ASSUME entry[j + 1] # ""
                   PROVE  Append(t[n] \o u[j], entry[j + 1]) = t[n] \o Append(u[j], entry[j + 1])
        OBVIOUS
      <4>1. entry[j + 1] \in Names
        BY <1>6, <3>1 DEF Names
      <4>2. t[n] \in Seq(Names)
        BY <1>8
      <4> QED
        BY <3>3, <4>1, <4>2, AppendJoin, Zenon
    <3>7. w[n + (j + 1)] = t[n] \o u[j + 1]
      BY <3>4, <3>5, <3>6, Zenon
    <3> QED
      BY <3>1, <3>7
  <2> HIDE DEF S
  <2>3. \A j \in 0 .. m : j \in S
    BY <1>2, <2>1, <2>2, UpTo
  <2> QED
    BY <2>3 DEF S
<1>10. w[n + m] = t[n] \o u[m]
  <2>1. m \in 0 .. m
    BY <1>2
  <2> QED
    BY <1>9, <2>1
<1> QED
  BY <1>3, <1>4, <1>5, <1>10 DEF both

LEMMA SplitType ==
  ASSUME NEW log \in Seq(Pieces)
  PROVE  split_gantt_log(log) \in Seq(Names)
<1>1. PICK t \in [0 .. Len(log) -> Seq(Names)] : split_gantt_log(log) = t[Len(log)]
  BY SplitSteps
<1>2. Len(log) \in 0 .. Len(log)
  <2>1. Len(log) \in Nat
    BY LenProperties
  <2> QED
    BY <2>1
<1> QED
  BY <1>1, <1>2

LEMMA SplitEmpty == split_gantt_log(<< >>) = << >>
<1>1. << >> \in Seq(Pieces) /\ Len(<< >>) = 0
  BY EmptySeq
<1>2. PICK t \in [0 .. 0 -> Seq(Names)] : t[0] = << >> /\ split_gantt_log(<< >>) = t[0]
  BY <1>1, SplitSteps
<1> QED
  BY <1>2
-----------------------------------------------------------------------------
\* The reference goes through the time units one by one.
LEMMA SurvivingSteps ==
  ASSUME NEW run \in Seq(Entries), NEW lost
  PROVE  \E kept \in [0 .. Len(run) -> Seq(Names)] :
           /\ kept[0] = << >>
           /\ \A t \in 1 .. Len(run) :
                kept[t] = IF t \in lost THEN kept[t - 1]
                          ELSE kept[t - 1] \o split_gantt_log(run[t])
           /\ Surviving(run, lost) = kept[Len(run)]
<1> DEFINE n == Len(run)
           V == Seq(Names)
           Next1(i, v) == IF i \in lost THEN v ELSE v \o split_gantt_log(run[i])
           step == [i \in 1 .. n |-> [v \in V |-> Next1(i, v)]]
           Loop(g) == [i \in 0 .. n |-> IF i = 0 THEN << >> ELSE Next1(i, g[i - 1])]
           kept == CHOOSE g : g = Loop(g)
<1>1. n \in Nat /\ << >> \in V
  BY LenProperties, EmptySeq
<1>2. \A i \in 1 .. n : \A v \in V : Next1(i, v) \in V
  <2>1. \A i \in 1 .. n : run[i] \in Seq(Pieces)
    BY ElementOfSeq, GanttAssumption DEF GanttAssumption, Pieces
  <2>2. \A i \in 1 .. n : split_gantt_log(run[i]) \in V
    BY <2>1, SplitType
  <2> QED
    BY <2>2, ConcatProperties
<1>3. Surviving(run, lost) = kept[n]
  BY DEF Surviving
<1> HIDE DEF n, V, Next1
<1>4. step \in [1 .. n -> [V -> V]]
  BY <1>2
<1>5. PICK g \in [0 .. n -> V] : Follows(g, n, << >>, step)
  <2> HIDE DEF step
  <2> QED
    BY <1>1, <1>4, RecursiveFunction
<1>6. g = Loop(g)
  <2>1. ASSUME NEW i \in 1 .. n PROVE g[i] = Next1(i, g[i - 1])
    <3>1. g[i - 1] \in V /\ g[i] = step[i][g[i - 1]]
      <4> HIDE DEF step
      <4>1. i - 1 \in 0 .. n
        BY <1>1
      <4> QED
        BY <1>5, <4>1 DEF Follows
    <3> QED
      BY <3>1
  <2>2. g[0] = << >>
    BY <1>5 DEF Follows
  <2> HIDE DEF step
  <2> QED
    BY <1>1, <2>1, <2>2
<1>7. kept = Loop(kept)
  <2> HIDE DEF Loop
  <2> QED
    BY <1>6, Zenon
<1> HIDE DEF kept, step
<1>8. /\ kept = [i \in 0 .. n |-> kept[i]] /\ kept[0] = << >>
      /\ \A i \in 1 .. n : kept[i] = Next1(i, kept[i - 1])
  <2>1. \A h : /\ Loop(h) = [i \in 0 .. n |-> Loop(h)[i]] /\ Loop(h)[0] = << >>
               /\ \A i \in 1 .. n : Loop(h)[i] = Next1(i, h[i - 1])
    BY <1>1
  <2> HIDE DEF Loop
  <2> QED
    BY <1>7, <2>1
<1>9. \A i \in 0 .. n : kept[i] \in V
  <2> DEFINE S == {i \in 0 .. n : kept[i] \in V}
  <2>1. 0 \in S
    BY <1>1, <1>8
  <2>2. ASSUME NEW i \in 0 .. n - 1, i \in S PROVE i + 1 \in S
    <3>1. i + 1 \in 1 .. n /\ (i + 1) - 1 = i /\ i + 1 \in 0 .. n
      BY <1>1
    <3> QED
      BY <1>2, <1>8, <2>2, <3>1
  <2> HIDE DEF S
  <2>3. \A i \in 0 .. n : i \in S
    BY <1>1, <2>1, <2>2, UpTo
  <2> QED
    BY <2>3 DEF S
<1>10. kept \in [0 .. n -> V]
  BY <1>8, <1>9
<1> QED
  BY <1>3, <1>8, <1>10 DEF n, V, Next1

\* One more time unit, lost or not.
LEMMA SurvivingGrows ==
  ASSUME NEW run \in Seq(Entries), NEW lost \in SUBSET (1 .. Len(run)), NEW entry \in Entries
  PROVE  /\ Surviving(run, lost) \in Seq(Names)
         /\ Surviving(Append(run, entry), lost \cup {Len(run) + 1}) = Surviving(run, lost)
         /\ Surviving(Append(run, entry), lost) = Surviving(run, lost) \o split_gantt_log(entry)
<1> DEFINE longer == Append(run, entry)
           n == Len(run)
<1>1. /\ longer \in Seq(Entries) /\ Len(longer) = n + 1
      /\ \A i \in 1 .. n : longer[i] = run[i]
      /\ longer[n + 1] = entry
  BY AppendProperties
<1>2. n \in Nat
  BY LenProperties
<1> HIDE DEF longer
<1>3. PICK k \in [0 .. n -> Seq(Names)] :
        /\ k[0] = << >>
        /\ \A t \in 1 .. n :
             k[t] = IF t \in lost THEN k[t - 1] ELSE k[t - 1] \o split_gantt_log(run[t])
        /\ Surviving(run, lost) = k[n]
  BY SurvivingSteps
<1>4. ASSUME NEW gone, gone = lost \/ gone = lost \cup {n + 1}
      PROVE  Surviving(longer, gone) = IF n + 1 \in gone THEN Surviving(run, lost)
                                       ELSE Surviving(run, lost) \o split_gantt_log(entry)
  <2>1. PICK w \in [0 .. n + 1 -> Seq(Names)] :
          /\ w[0] = << >>
          /\ \A t \in 1 .. n + 1 :
               w[t] = IF t \in gone THEN w[t - 1] ELSE w[t - 1] \o split_gantt_log(longer[t])
          /\ Surviving(longer, gone) = w[n + 1]
    BY <1>1, SurvivingSteps
  <2> DEFINE S == {i \in 0 .. n : w[i] = k[i]}
  <2>2. 0 \in S
    BY <1>2, <1>3, <2>1
  <2> HIDE DEF n
  <2>3. ASSUME NEW i \in 0 .. n - 1, i \in S PROVE i + 1 \in S
    <3>1. i + 1 \in 1 .. n /\ i + 1 \in 0 .. n /\ i + 1 \in 1 .. n + 1 /\ (i + 1) - 1 = i /\ i + 1 # n + 1
      BY <1>2
    <3>2. i + 1 \in gone <=> i + 1 \in lost
      BY <1>4, <3>1
    <3>3. longer[i + 1] = run[i + 1] /\ w[i] = k[i]
      BY <1>1, <2>3, <3>1
    <3>4. w[i + 1] = k[i + 1]
      BY <1>3, <2>1, <3>1, <3>2, <3>3
    <3> QED
      BY <3>1, <3>4
  <2> HIDE DEF S
  <2>4. \A i \in 0 .. n : i \in S
    BY <1>2, <2>2, <2>3, UpTo
  <2>5. w[n] = k[n]
    BY <1>2, <2>4 DEF S
  <2>6. n + 1 \in 1 .. n + 1 /\ (n + 1) - 1 = n
    BY <1>2
  <2> QED
    BY <1>1, <1>3, <2>1, <2>5, <2>6
<1>5. n + 1 \notin lost
  BY <1>2
<1>6. k[n] \in Seq(Names)
  BY <1>2, <1>3
<1> HIDE DEF n
<1>7. Surviving(longer, lost \cup {n + 1}) = Surviving(run, lost)
  BY <1>4
<1>8. Surviving(longer, lost) = Surviving(run, lost) \o split_gantt_log(entry)
  BY <1>4, <1>5
<1> QED
  BY <1>3, <1>6, <1>7, <1>8 DEF longer, n

LEMMA SurvivingNothing ==
  ASSUME NEW lost
  PROVE  Surviving(<< >>, lost) = << >>
<1>1. ASSUME NEW run \in Seq(Entries), Len(run) = 0 PROVE Surviving(run, lost) = << >>
  <2>1. PICK k \in [0 .. Len(run) -> Seq(Names)] :
          /\ k[0] = << >>
          /\ \A t \in 1 .. Len(run) :
               k[t] = IF t \in lost THEN k[t - 1] ELSE k[t - 1] \o split_gantt_log(run[t])
          /\ Surviving(run, lost) = k[Len(run)]
    BY SurvivingSteps
  <2> QED
    BY <1>1, <2>1
<1> QED
  BY <1>1, EmptySeq

LEMMA OneElement ==
  ASSUME NEW S, NEW s \in Seq(S), Len(s) = 1, NEW x, s # << x >>
  PROVE  s[1] \in S /\ s[1] # x
<1>1. s[1] \in S
  BY ElementOfSeq
<1>2. s = << s[1] >>
  <2>1. << s[1] >> \in Seq(S) /\ Len(<< s[1] >>) = 1
    BY <1>1
  <2> QED
    BY <2>1, SeqEqual
<1> QED
  BY <1>1, <1>2

\* An entry without a '|' is one token.
LEMMA SplitWhole ==
  ASSUME NEW entry \in Entries, Len(entry) = 1
  PROVE  Len(split_gantt_log(entry)) = 1
<1>1. entry \in Seq(Pieces) /\ entry # << "" >>
  BY GanttAssumption, Zenon DEF GanttAssumption, Pieces
<1>2. entry[1] \in Pieces /\ entry[1] # ""
  BY <1>1, OneElement, Zenon
<1>3. PICK t \in [0 .. Len(entry) -> Seq(Names)] :
        /\ t[0] = << >>
        /\ \A i \in 1 .. Len(entry) :
             t[i] = IF entry[i] = "" THEN t[i - 1] ELSE Append(t[i - 1], entry[i])
        /\ split_gantt_log(entry) = t[Len(entry)]
  BY <1>1, SplitSteps, Zenon
<1>4. 1 \in 1 .. Len(entry) /\ 1 - 1 = 0
  OBVIOUS
<1>5. t[1] = Append(t[0], entry[1]) /\ t[0] = << >> /\ split_gantt_log(entry) = t[1]
  BY <1>2, <1>3, <1>4, Zenon
<1> QED
  BY <1>5

\* If no name contains a '|' there is one token for each time unit that was not lost.
LEMMA SurvivingWhole ==
  ASSUME NEW run \in Seq(Entries), NEW lost,
         \A t \in DOMAIN run \ lost : Len(run[t]) = 1
  PROVE  Len(Surviving(run, lost)) = Cardinality(DOMAIN run \ lost)
<1> DEFINE n == Len(run)
           upTo(i) == (1 .. i) \ lost
<1>1. n \in Nat /\ DOMAIN run = 1 .. n
  BY LenProperties
<1>2. PICK k \in [0 .. n -> Seq(Names)] :
        /\ k[0] = << >>
        /\ \A t \in 1 .. n :
             k[t] = IF t \in lost THEN k[t - 1] ELSE k[t - 1] \o split_gantt_log(run[t])
        /\ Surviving(run, lost) = k[n]
  BY SurvivingSteps
<1>3. ASSUME NEW i \in 0 .. n
      PROVE  IsFiniteSet(upTo(i)) /\ Cardinality(upTo(i)) \in Nat
  <2>1. IsFiniteSet(1 .. i)
    BY <1>1, FS_Interval
  <2>2. IsFiniteSet(upTo(i))
    BY <2>1, FS_Subset
  <2> QED
    BY <2>2, FS_CardinalityType
<1> DEFINE S == {i \in 0 .. n : Len(k[i]) = Cardinality(upTo(i))}
<1>4. 0 \in S
  <2>1. upTo(0) = {}
    OBVIOUS
  <2> QED
    BY <1>1, <1>2, <2>1, FS_EmptySet
<1>5. ASSUME NEW i \in 0 .. n - 1, i \in S
      PROVE  i + 1 \in S
  <2>1. /\ i \in 0 .. n /\ i + 1 \in 1 .. n /\ i + 1 \in 0 .. n /\ (i + 1) - 1 = i
        /\ i + 1 \notin upTo(i)
    BY <1>1
  <2>2. CASE i + 1 \in lost
    <3>1. upTo(i + 1) = upTo(i)
      BY <2>1, <2>2
    <3>2. k[i + 1] = k[i]
      BY <1>2, <2>1, <2>2
    <3> QED
      BY <1>5, <2>1, <3>1, <3>2
  <2>3. CASE i + 1 \notin lost
    <3>1. upTo(i + 1) = upTo(i) \cup {i + 1}
      BY <2>1, <2>3
    <3>2. Cardinality(upTo(i + 1)) = Cardinality(upTo(i)) + 1
      BY <1>3, <2>1, <3>1, FS_AddElement
    <3>3. run[i + 1] \in Entries /\ Len(run[i + 1]) = 1
      BY <1>1, <2>1, <2>3, ElementOfSeq
    <3>4. /\ split_gantt_log(run[i + 1]) \in Seq(Names)
          /\ Len(split_gantt_log(run[i + 1])) = 1
      BY <3>3, SplitWhole, SplitType, GanttAssumption DEF GanttAssumption, Pieces
    <3>5. k[i + 1] = k[i] \o split_gantt_log(run[i + 1]) /\ k[i] \in Seq(Names)
      BY <1>2, <2>1, <2>3
    <3>6. Len(k[i + 1]) = Len(k[i]) + 1
      <4>1. \A u, v \in Seq(Names) : Len(u \o v) = Len(u) + Len(v)
        BY ConcatProperties
      <4> QED
        BY <3>4, <3>5, <4>1
    <3> QED
      BY <1>5, <2>1, <3>2, <3>6
  <2> QED
    BY <2>2, <2>3
<1>6. n \in S
  <2> HIDE DEF S, n
  <2>1. \A i \in 0 .. n : i \in S
    BY <1>1, <1>4, <1>5, UpTo
  <2> QED
    BY <1>1, <2>1
<1> QED
  BY <1>1, <1>2, <1>6
-----------------------------------------------------------------------------
(***************************************************************************)
(* The loops that build the blocks.                                        *)
(***************************************************************************)
Run(P)   == [pid : P, start : Int, duration : Int]
Group(P) == [blocks : Seq(Run(P)), pid : P, start : Int, duration : Int]

LEMMA GroupedSteps ==
  ASSUME NEW P, NEW entries \in Seq(P), entries # << >>, NEW step \in Nat
  PROVE  \E state \in [0 .. Len(entries) -> Group(P)] :
           /\ state[0] = [blocks |-> << >>, pid |-> entries[1], start |-> 0, duration |-> 0]
           /\ \A i \in 1 .. Len(entries) :
                state[i] = Grow(state[i - 1], entries[i], (i - 1) * step)
           /\ Grouped(entries, step) = state[Len(entries)]
<1> DEFINE n == Len(entries)
           V == Group(P)
           first == [blocks |-> << >>, pid |-> entries[1], start |-> 0, duration |-> 0]
           Next1(i, v) == Grow(v, entries[i], (i - 1) * step)
           next == [i \in 1 .. n |-> [v \in V |-> Next1(i, v)]]
           Loop(g) == [i \in 0 .. n |-> IF i = 0 THEN first ELSE Next1(i, g[i - 1])]
           state == CHOOSE g : g = Loop(g)
<1>1. n \in Nat /\ n > 0 /\ \A i \in 1 .. n : entries[i] \in P
  BY LenProperties, EmptySeq, ElementOfSeq
<1>2. first \in V
  <2>1. entries[1] \in P /\ << >> \in Seq(Run(P))
    BY <1>1, EmptySeq
  <2> QED
    BY <2>1 DEF Group
<1>3. \A i \in 1 .. n : \A v \in V : Next1(i, v) \in V
  <2> SUFFICES ASSUME NEW i \in 1 .. n, NEW v \in V PROVE Next1(i, v) \in V
    OBVIOUS
  <2>1. entries[i] \in P /\ (i - 1) * step \in Int
    BY <1>1
  <2> DEFINE time == (i - 1) * step
  <2> HIDE DEF time
  <2>2. CASE entries[i] = v.pid
    <3>1. Grow(v, entries[i], time) = [v EXCEPT !.duration = @ + 1]
      BY <2>2 DEF Grow
    <3>2. [v EXCEPT !.duration = @ + 1] \in V
      BY DEF Group
    <3> QED
      BY <3>1, <3>2 DEF time
  <2>3. CASE entries[i] # v.pid
    <3>1. [pid |-> v.pid, start |-> v.start, duration |-> v.duration] \in Run(P)
      BY DEF Group, Run
    <3>2. Close(v) \in Seq(Run(P))
      BY <3>1, AppendProperties DEF Close, Group
    <3>3. Grow(v, entries[i], time)
            = [blocks |-> Close(v), pid |-> entries[i], start |-> time, duration |-> 1]
      BY <2>3 DEF Grow
    <3>4. Grow(v, entries[i], time) \in V
      BY <2>1, <3>2, <3>3 DEF Group, time
    <3> QED
      BY <3>4 DEF time
  <2> QED
    BY <2>2, <2>3
<1>4. Grouped(entries, step) = state[n]
  BY DEF Grouped
<1>5. 0 \in 0 .. n
  BY <1>1
<1> HIDE DEF n, V, Next1, first
<1>6. next \in [1 .. n -> [V -> V]]
  BY <1>3
<1>7. PICK g \in [0 .. n -> V] : Follows(g, n, first, next)
  <2> HIDE DEF next
  <2> QED
    BY <1>1, <1>2, <1>6, RecursiveFunction
<1>8. g = Loop(g)
  <2>1. ASSUME NEW i \in 1 .. n PROVE g[i] = Next1(i, g[i - 1])
    <3>1. g[i - 1] \in V /\ g[i] = next[i][g[i - 1]]
      <4> HIDE DEF next
      <4>1. i - 1 \in 0 .. n
        BY <1>1
      <4> QED
        BY <1>7, <4>1 DEF Follows
    <3> QED
      BY <3>1
  <2>2. g[0] = first
    BY <1>7 DEF Follows
  <2> HIDE DEF next
  <2> QED
    BY <1>1, <2>1, <2>2
<1>9. state = Loop(state)
  <2> HIDE DEF Loop
  <2> QED
    BY <1>8, Zenon
<1> HIDE DEF state, next
<1>10. /\ state = [i \in 0 .. n |-> state[i]] /\ state[0] = first
       /\ \A i \in 1 .. n : state[i] = Next1(i, state[i - 1])
  <2>1. \A h : /\ Loop(h) = [i \in 0 .. n |-> Loop(h)[i]] /\ Loop(h)[0] = first
               /\ \A i \in 1 .. n : Loop(h)[i] = Next1(i, h[i - 1])
    BY <1>1
  <2> HIDE DEF Loop
  <2> QED
    BY <1>9, <2>1
<1>11. \A i \in 0 .. n : state[i] \in V
  <2> DEFINE S == {i \in 0 .. n : state[i] \in V}
  <2>1. 0 \in S
    BY <1>2, <1>5, <1>10
  <2>2. ASSUME NEW i \in 0 .. n - 1, i \in S PROVE i + 1 \in S
    <3>1. i + 1 \in 1 .. n /\ (i + 1) - 1 = i /\ i + 1 \in 0 .. n
      BY <1>1
    <3> QED
      BY <1>3, <1>10, <2>2, <3>1
  <2> HIDE DEF S
  <2>3. \A i \in 0 .. n : i \in S
    BY <1>1, <2>1, <2>2, UpTo
  <2> QED
    BY <2>3 DEF S
<1>12. state \in [0 .. n -> V]
  BY <1>10, <1>11
<1> QED
  BY <1>4, <1>10, <1>12 DEF n, V, Next1, first

\* The blocks after each entry: the last one grows, or a new one begins.
Extended(b, longer, pid, time) ==
  LET last == b[Len(b)]
  IN  IF pid = last.pid
        THEN /\ Len(longer) = Len(b)
             /\ \A k \in 1 .. Len(b) - 1 : longer[k] = b[k]
             /\ longer[Len(b)] = [pid |-> last.pid, start |-> last.start,
                                  duration |-> last.duration + 1]
        ELSE longer = Append(b, [pid |-> pid, start |-> time, duration |-> 1])

LEMMA BlocksSteps ==
  ASSUME NEW P, NEW entries \in Seq(P), entries # << >>, NEW step \in Nat
  PROVE  \E b \in [1 .. Len(entries) -> Seq(Run(P))] :
           /\ b[1] = << [pid |-> entries[1], start |-> 0, duration |-> 1] >>
           /\ \A i \in 1 .. Len(entries) - 1 : Extended(b[i], b[i + 1], entries[i + 1], i * step)
           /\ Blocks(entries, step) = b[Len(entries)]
<1> DEFINE n == Len(entries)
<1>1. n \in Nat /\ n > 0
  BY LenProperties, EmptySeq
<1>2. PICK s \in [0 .. n -> Group(P)] :
        /\ s[0] = [blocks |-> << >>, pid |-> entries[1], start |-> 0, duration |-> 0]
        /\ \A i \in 1 .. n : s[i] = Grow(s[i - 1], entries[i], (i - 1) * step)
        /\ Grouped(entries, step) = s[n]
  BY GroupedSteps
<1> HIDE DEF n
<1> DEFINE Last(i) == [pid |-> s[i].pid, start |-> s[i].start, duration |-> s[i].duration]
           b == [i \in 1 .. n |-> Close(s[i])]
<1>3. ASSUME NEW i \in 1 .. n
      PROVE  /\ b[i] \in Seq(Run(P)) /\ b[i] = Append(s[i].blocks, Last(i))
             /\ Len(b[i]) = Len(s[i].blocks) + 1 /\ Len(s[i].blocks) \in Nat
             /\ b[i][Len(b[i])] = Last(i)
             /\ \A k \in 1 .. Len(s[i].blocks) : b[i][k] = s[i].blocks[k]
  <2>1. s[i] \in Group(P)
    BY <1>2
  <2>2. s[i].blocks \in Seq(Run(P)) /\ Last(i) \in Run(P)
    BY <2>1 DEF Group, Run
  <2>3. b[i] = Append(s[i].blocks, Last(i))
    BY DEF Close
  <2> HIDE DEF b, Last
  <2> QED
    BY <2>2, <2>3, AppendProperties, LenProperties
<1>4. b[1] = << [pid |-> entries[1], start |-> 0, duration |-> 1] >>
  <2>1. 1 \in 1 .. n /\ 1 - 1 = 0
    BY <1>1
  <2>2. s[1] = Grow(s[0], entries[1], 0 * step)
    BY <1>2, <2>1
  <2>3. s[1] = [blocks |-> << >>, pid |-> entries[1], start |-> 0, duration |-> 1]
    BY <1>2, <2>2 DEF Grow
  <2>4. s[1].blocks = << >> /\ Last(1) = [pid |-> entries[1], start |-> 0, duration |-> 1]
    BY <2>3
  <2> HIDE DEF b, Last
  <2>5. b[1] = Append(<< >>, Last(1))
    BY <1>3, <2>1, <2>4
  <2>6. \A x : Append(<< >>, x) = << x >>
    OBVIOUS
  <2> QED
    BY <2>4, <2>5, <2>6, Zenon
<1>5. ASSUME NEW i \in 1 .. n - 1
      PROVE  Extended(b[i], b[i + 1], entries[i + 1], i * step)
  <2>1. i \in 1 .. n /\ i + 1 \in 1 .. n /\ (i + 1) - 1 = i
    BY <1>1
  <2>2. s[i + 1] = Grow(s[i], entries[i + 1], i * step)
    BY <1>2, <2>1
  <2>3. s[i] \in Group(P)
    BY <1>2, <2>1
  <2> DEFINE time == i * step
  <2> HIDE DEF time
  <2>4. CASE entries[i + 1] = s[i].pid
    <3>1. s[i + 1] = [s[i] EXCEPT !.duration = @ + 1]
      BY <2>2, <2>4 DEF Grow
    <3>2. /\ s[i + 1].blocks = s[i].blocks /\ s[i + 1].pid = s[i].pid
          /\ s[i + 1].start = s[i].start /\ s[i + 1].duration = s[i].duration + 1
      BY <2>3, <3>1 DEF Group
    <3>3. Last(i + 1) = [pid |-> s[i].pid, start |-> s[i].start, duration |-> s[i].duration + 1]
      BY <3>2
    <3>4. Last(i).pid = s[i].pid /\ Last(i).start = s[i].start /\ Last(i).duration = s[i].duration
      OBVIOUS
    <3> HIDE DEF b, Last
    <3>5. Len(b[i + 1]) = Len(b[i]) /\ Len(b[i]) - 1 = Len(s[i].blocks)
      BY <1>3, <2>1, <3>2
    <3>6. \A k \in 1 .. Len(b[i]) - 1 : b[i + 1][k] = b[i][k]
      <4> SUFFICES ASSUME NEW k \in 1 .. Len(b[i]) - 1 PROVE b[i + 1][k] = b[i][k]
        OBVIOUS
      <4>1. k \in 1 .. Len(s[i].blocks) /\ k \in 1 .. Len(s[i + 1].blocks)
        BY <3>2, <3>5
      <4>2. b[i][k] = s[i].blocks[k] /\ b[i + 1][k] = s[i + 1].blocks[k]
        BY <1>3, <2>1, <4>1
      <4> QED
        BY <3>2, <4>2
    <3>7. b[i + 1][Len(b[i])] = Last(i + 1) /\ b[i][Len(b[i])] = Last(i)
      BY <1>3, <2>1, <3>5
    <3> QED
      BY <2>4, <3>3, <3>4, <3>5, <3>6, <3>7 DEF Extended
  <2>5. CASE entries[i + 1] # s[i].pid
    <3>1. s[i + 1] = [blocks |-> Close(s[i]), pid |-> entries[i + 1],
                      start |-> time, duration |-> 1]
      BY <2>2, <2>5 DEF Grow, time
    <3>2. s[i + 1].blocks = b[i]
      BY <2>1, <3>1
    <3>3. Last(i + 1) = [pid |-> entries[i + 1], start |-> time, duration |-> 1]
      BY <3>1
    <3>4. Last(i).pid = s[i].pid
      OBVIOUS
    <3> HIDE DEF b, Last
    <3>5. b[i + 1] = Append(b[i], [pid |-> entries[i + 1], start |-> time, duration |-> 1])
      BY <1>3, <2>1, <3>2, <3>3, Zenon
    <3>6. b[i][Len(b[i])].pid # entries[i + 1]
      BY <1>3, <2>1, <2>5, <3>4
    <3> QED
      BY <3>5, <3>6 DEF Extended, time
  <2> QED
    BY <2>4, <2>5
<1>6. Blocks(entries, step) = b[n]
  <2>1. n \in 1 .. n
    BY <1>1
  <2> QED
    BY <1>2, <2>1 DEF Blocks, n
<1>7. b \in [1 .. n -> Seq(Run(P))]
  <2>1. b = [i \in 1 .. n |-> b[i]]
    OBVIOUS
  <2> HIDE DEF b
  <2> QED
    BY <1>3, <2>1
<1> HIDE DEF b
<1> QED
  BY <1>4, <1>5, <1>6, <1>7 DEF n

\* Blocks b are the maximal runs of equal elements of the first n entries.
MaximalRuns(b, entries, n) ==
  /\ Len(b) \in 1 .. n
  /\ b[1].start = 0
  /\ b[Len(b)].start + b[Len(b)].duration = n
  /\ \A k \in 1 .. Len(b) :
       /\ b[k].start \in Nat /\ b[k].duration \in Nat \ {0}
       /\ b[k].start + b[k].duration <= n
       /\ \A j \in b[k].start + 1 .. b[k].start + b[k].duration : entries[j] = b[k].pid
  /\ \A k \in 1 .. Len(b) - 1 :
       b[k].start + b[k].duration = b[k + 1].start /\ b[k].pid # b[k + 1].pid

LEMMA RunsGrow ==
  ASSUME NEW P, NEW entries \in Seq(P), NEW n \in 1 .. Len(entries) - 1,
         NEW b \in Seq(Run(P)), NEW longer \in Seq(Run(P)),
         MaximalRuns(b, entries, n), Extended(b, longer, entries[n + 1], n)
  PROVE  MaximalRuns(longer, entries, n + 1)
<1> DEFINE m == Len(b)
           last == b[m]
           new == entries[n + 1]
<1>1. /\ m \in 1 .. n /\ n \in Nat /\ b[1].start = 0 /\ last.start + last.duration = n
      /\ \A k \in 1 .. m :
           /\ b[k].start \in Nat /\ b[k].duration \in Nat \ {0} /\ b[k].start + b[k].duration <= n
           /\ \A j \in b[k].start + 1 .. b[k].start + b[k].duration : entries[j] = b[k].pid
      /\ \A k \in 1 .. m - 1 :
           b[k].start + b[k].duration = b[k + 1].start /\ b[k].pid # b[k + 1].pid
  <2>1. n \in Nat
    <3>1. Len(entries) \in Nat
      BY LenProperties
    <3> QED
      BY <3>1
  <2> QED
    BY <2>1 DEF MaximalRuns
<1>2. m \in 1 .. m /\ last.start \in Nat /\ last.duration \in Nat \ {0}
  BY <1>1
<1>3. CASE new = last.pid
  <2>1. /\ Len(longer) = m /\ \A k \in 1 .. m - 1 : longer[k] = b[k]
        /\ longer[m] = [pid |-> last.pid, start |-> last.start, duration |-> last.duration + 1]
    BY <1>3 DEF Extended
  <2>2. /\ longer[m].pid = last.pid /\ longer[m].start = last.start
        /\ longer[m].duration = last.duration + 1
    BY <2>1
  <2> HIDE DEF m, last, new
  <2>3. ASSUME NEW k \in 1 .. m
        PROVE  /\ longer[k].pid = b[k].pid /\ longer[k].start = b[k].start
               /\ k # m => longer[k] = b[k]
    <3>1. CASE k = m
      BY <2>2, <3>1 DEF last
    <3>2. CASE k # m
      <4>1. k \in 1 .. m - 1
        BY <1>1, <3>2
      <4> QED
        BY <2>1, <4>1
    <3> QED
      BY <3>1, <3>2
  <2>4. longer[1].start = 0
    BY <1>1, <2>3
  <2>5. longer[m].start + longer[m].duration = n + 1
    <3>1. last.start \in Nat /\ last.duration \in Nat /\ last.start + last.duration = n
      BY <1>1, <1>2
    <3> QED
      BY <2>2, <3>1
  <2>6. ASSUME NEW k \in 1 .. m
        PROVE  /\ longer[k].start \in Nat /\ longer[k].duration \in Nat \ {0}
               /\ longer[k].start + longer[k].duration <= n + 1
               /\ \A j \in longer[k].start + 1 .. longer[k].start + longer[k].duration :
                    entries[j] = longer[k].pid
    <3>1. CASE k # m
      <4>1. b[k].start + b[k].duration <= n + 1
        <5>1. /\ b[k].start \in Nat /\ b[k].duration \in Nat /\ n \in Nat
              /\ b[k].start + b[k].duration <= n
          BY <1>1
        <5> QED
          BY <5>1
      <4> QED
        BY <1>1, <2>3, <3>1, <4>1
    <3>2. CASE k = m
      <4>1. longer[m].duration \in Nat \ {0} /\ longer[m].start \in Nat
        BY <1>2, <2>2
      <4>2. ASSUME NEW j \in longer[m].start + 1 .. n + 1 PROVE entries[j] = longer[m].pid
        <5>1. CASE j = n + 1
          BY <1>3, <2>2, <5>1 DEF new
        <5>2. CASE j # n + 1
          <6>1. j \in last.start + 1 .. last.start + last.duration
            BY <1>1, <1>2, <2>2, <5>2
          <6>2. \A i \in last.start + 1 .. last.start + last.duration : entries[i] = last.pid
            BY <1>1, <1>2 DEF last
          <6> QED
            BY <2>2, <6>1, <6>2
        <5> QED
          BY <5>1, <5>2
      <4>3. n + 1 <= n + 1
        BY <1>1
      <4> QED
        BY <2>5, <3>2, <4>1, <4>2, <4>3
    <3> QED
      BY <3>1, <3>2
  <2>7. ASSUME NEW k \in 1 .. m - 1
        PROVE  /\ longer[k].start + longer[k].duration = longer[k + 1].start
               /\ longer[k].pid # longer[k + 1].pid
    <3>1. k \in 1 .. m /\ k + 1 \in 1 .. m /\ k # m
      BY <1>1
    <3> QED
      BY <1>1, <2>3, <3>1
  <2>8. m \in 1 .. n + 1
    BY <1>1
  <2> QED
    BY <2>1, <2>4, <2>5, <2>6, <2>7, <2>8 DEF MaximalRuns
<1>4. CASE new # last.pid
  <2> DEFINE next == [pid |-> new, start |-> n, duration |-> 1]
  <2>1. longer = Append(b, next)
    BY <1>4 DEF Extended
  <2>2. next \in Run(P)
    <3>1. n + 1 \in 1 .. Len(entries)
      BY <1>1
    <3>2. new \in P
      BY <3>1, ElementOfSeq
    <3> HIDE DEF new
    <3> QED
      BY <1>1, <3>2 DEF Run
  <2>3. next.pid = new /\ next.start = n /\ next.duration = 1
    OBVIOUS
  <2> HIDE DEF next
  <2>4. /\ Len(longer) = m + 1 /\ longer[m + 1] = next
        /\ \A k \in 1 .. m : longer[k] = b[k]
    BY <2>1, <2>2, AppendProperties
  <2> HIDE DEF m, last, new
  <2>5. m + 1 \in 1 .. n + 1 /\ 1 \in 1 .. m
    BY <1>1
  <2>6. longer[m + 1].start + longer[m + 1].duration = n + 1
    BY <2>3, <2>4
  <2>7. ASSUME NEW k \in 1 .. m + 1
        PROVE  /\ longer[k].start \in Nat /\ longer[k].duration \in Nat \ {0}
               /\ longer[k].start + longer[k].duration <= n + 1
               /\ \A j \in longer[k].start + 1 .. longer[k].start + longer[k].duration :
                    entries[j] = longer[k].pid
    <3>1. CASE k \in 1 .. m
      <4>1. longer[k] = b[k]
        BY <2>4, <3>1
      <4>2. b[k].start + b[k].duration <= n + 1
        BY <1>1, <3>1
      <4> QED
        BY <1>1, <3>1, <4>1, <4>2
    <3>2. CASE k = m + 1
      <4>1. longer[k].start = n /\ longer[k].duration = 1 /\ longer[k].pid = new
        BY <2>3, <2>4, <3>2
      <4>2. \A j \in n + 1 .. n + 1 : entries[j] = new
        BY <1>1 DEF new
      <4> QED
        BY <1>1, <4>1, <4>2
    <3> QED
      BY <1>1, <3>1, <3>2
  <2>8. ASSUME NEW k \in 1 .. m
        PROVE  /\ longer[k].start + longer[k].duration = longer[k + 1].start
               /\ longer[k].pid # longer[k + 1].pid
    <3>1. CASE k = m
      BY <1>1, <1>4, <2>3, <2>4, <3>1 DEF last
    <3>2. CASE k # m
      <4>1. k \in 1 .. m - 1 /\ k + 1 \in 1 .. m
        BY <1>1, <3>2
      <4> QED
        BY <1>1, <2>4, <4>1
    <3> QED
      BY <3>1, <3>2
  <2>9. (m + 1) - 1 = m
    BY <1>1
  <2> QED
    BY <1>1, <2>4, <2>5, <2>6, <2>7, <2>8, <2>9 DEF MaximalRuns
<1> QED
  BY <1>3, <1>4

\* Entry by entry, the loop finds the maximal runs.
LEMMA UnitBlocks ==
  ASSUME NEW P, NEW entries \in Seq(P), entries # << >>
  PROVE  /\ Blocks(entries, 1) \in Seq(Run(P))
         /\ MaximalRuns(Blocks(entries, 1), entries, Len(entries))
<1> DEFINE n == Len(entries)
<1>1. n \in Nat /\ n > 0
  BY LenProperties, EmptySeq
<1>2. PICK b \in [1 .. n -> Seq(Run(P))] :
        /\ b[1] = << [pid |-> entries[1], start |-> 0, duration |-> 1] >>
        /\ \A i \in 1 .. n - 1 : Extended(b[i], b[i + 1], entries[i + 1], i * 1)
        /\ Blocks(entries, 1) = b[n]
  <2>1. 1 \in Nat
    OBVIOUS
  <2> QED
    BY <2>1, BlocksSteps, Zenon
<1> DEFINE S == {i \in 0 .. n - 1 : MaximalRuns(b[i + 1], entries, i + 1)}
<1> HIDE DEF n
<1>3. 0 \in S
  <2> DEFINE only == [pid |-> entries[1], start |-> 0, duration |-> 1]
  <2>1. only.pid = entries[1] /\ only.start = 0 /\ only.duration = 1
    OBVIOUS
  <2> HIDE DEF only
  <2>2. b[1] = << only >> /\ Len(<< only >>) = 1 /\ << only >>[1] = only
    BY <1>2 DEF only
  <2>3. MaximalRuns(b[1], entries, 1)
    BY <2>1, <2>2 DEF MaximalRuns
  <2> QED
    BY <1>1, <2>3
<1>4. ASSUME NEW i \in 0 .. (n - 1) - 1, i \in S PROVE i + 1 \in S
  <2>1. i + 1 \in 0 .. n - 1 /\ i + 1 \in 1 .. n - 1 /\ i + 1 \in 1 .. n /\ (i + 1) + 1 \in 1 .. n
    BY <1>1
  <2>2. (i + 1) * 1 = i + 1
    BY <2>1
  <2>3. Extended(b[i + 1], b[(i + 1) + 1], entries[(i + 1) + 1], i + 1)
    BY <1>2, <2>1, <2>2
  <2>4. MaximalRuns(b[i + 1], entries, i + 1)
    BY <1>4
  <2>5. b[i + 1] \in Seq(Run(P)) /\ b[(i + 1) + 1] \in Seq(Run(P))
    BY <1>2, <2>1
  <2>6. MaximalRuns(b[(i + 1) + 1], entries, (i + 1) + 1)
    BY <2>1, <2>3, <2>4, <2>5, RunsGrow DEF n
  <2> QED
    BY <2>1, <2>6
<1>5. MaximalRuns(b[n], entries, n)
  <2>1. n - 1 \in Nat /\ n - 1 \in 0 .. n - 1 /\ (n - 1) + 1 = n
    BY <1>1
  <2> HIDE DEF S
  <2>2. \A i \in 0 .. n - 1 : i \in S
    BY <1>3, <1>4, <2>1, UpTo
  <2>3. n - 1 \in S
    BY <2>1, <2>2
  <2> QED
    BY <2>1, <2>3 DEF S
<1>6. b[n] \in Seq(Run(P))
  BY <1>1, <1>2
<1> QED
  BY <1>2, <1>5, <1>6 DEF n

\* With a larger step the same blocks begin that much later.
LEMMA ScaledBlocks ==
  ASSUME NEW P, NEW entries \in Seq(P), entries # << >>, NEW step \in Nat
  PROVE  LET unit == Blocks(entries, 1)
             wide == Blocks(entries, step)
         IN  /\ wide \in Seq(Run(P))
             /\ Len(wide) = Len(unit)
             /\ \A k \in 1 .. Len(unit) : /\ wide[k].pid = unit[k].pid
                                          /\ wide[k].duration = unit[k].duration
                                          /\ wide[k].start = unit[k].start * step
<1> DEFINE n == Len(entries)
           Same(u, w) == /\ Len(w) = Len(u) /\ Len(u) \in Nat \ {0}
                         /\ \A k \in 1 .. Len(u) : /\ w[k].pid = u[k].pid
                                                   /\ w[k].duration = u[k].duration
                                                   /\ w[k].start = u[k].start * step
<1>1. n \in Nat /\ n > 0
  BY LenProperties, EmptySeq
<1>2. PICK u \in [1 .. n -> Seq(Run(P))] :
        /\ u[1] = << [pid |-> entries[1], start |-> 0, duration |-> 1] >>
        /\ \A i \in 1 .. n - 1 : Extended(u[i], u[i + 1], entries[i + 1], i * 1)
        /\ Blocks(entries, 1) = u[n]
  <2>1. 1 \in Nat
    OBVIOUS
  <2> QED
    BY <2>1, BlocksSteps, Zenon
<1>3. PICK w \in [1 .. n -> Seq(Run(P))] :
        /\ w[1] = << [pid |-> entries[1], start |-> 0, duration |-> 1] >>
        /\ \A i \in 1 .. n - 1 : Extended(w[i], w[i + 1], entries[i + 1], i * step)
        /\ Blocks(entries, step) = w[n]
  BY BlocksSteps
<1> DEFINE S == {i \in 0 .. n - 1 : Same(u[i + 1], w[i + 1])}
<1> HIDE DEF n
<1>4. 0 \in S
  <2> DEFINE only == [pid |-> entries[1], start |-> 0, duration |-> 1]
  <2>1. only.start = 0 * step
    OBVIOUS
  <2>2. u[1] = << only >> /\ w[1] = << only >>
    BY <1>2, <1>3
  <2> HIDE DEF only
  <2>3. Len(<< only >>) = 1 /\ << only >>[1] = only /\ only.start = only.start * step
    BY <2>1 DEF only
  <2>4. Same(u[1], w[1])
    BY <2>2, <2>3
  <2> HIDE DEF Same
  <2> QED
    BY <1>1, <2>4
<1>5. ASSUME NEW i \in 1 .. n - 1, Same(u[i], w[i]) PROVE Same(u[i + 1], w[i + 1])
  <2>1. i \in 1 .. n /\ i + 1 \in 1 .. n /\ i * 1 = i
    BY <1>1
  <2> DEFINE a == u[i]
             b == w[i]
             c == u[i + 1]
             d == w[i + 1]
             pid == entries[i + 1]
             m == Len(a)
             time == i * step
  <2>2. Extended(a, c, pid, i) /\ Extended(b, d, pid, time)
    BY <1>2, <1>3, <2>1
  <2>3. a \in Seq(Run(P)) /\ b \in Seq(Run(P))
    BY <1>2, <1>3, <2>1
  <2>4. /\ Len(b) = m /\ m \in Nat \ {0} /\ m \in 1 .. m
        /\ \A k \in 1 .. m : /\ b[k].pid = a[k].pid /\ b[k].duration = a[k].duration
                             /\ b[k].start = a[k].start * step
    BY <1>5
  <2>5. pid \in P /\ time \in Int /\ i \in Int
    <3>1. i + 1 \in 1 .. Len(entries)
      BY <2>1 DEF n
    <3> QED
      BY <3>1, ElementOfSeq
  <2> HIDE DEF a, b, c, d, pid, m
  <2>6. CASE pid = a[m].pid
    <3>1. /\ Len(c) = m /\ \A k \in 1 .. m - 1 : c[k] = a[k]
          /\ c[m] = [pid |-> a[m].pid, start |-> a[m].start, duration |-> a[m].duration + 1]
      BY <2>2, <2>6 DEF Extended, m
    <3>2. /\ Len(d) = m /\ \A k \in 1 .. m - 1 : d[k] = b[k]
          /\ d[m] = [pid |-> b[m].pid, start |-> b[m].start, duration |-> b[m].duration + 1]
      BY <2>2, <2>4, <2>6 DEF Extended
    <3>3. ASSUME NEW k \in 1 .. m
          PROVE  d[k].pid = c[k].pid /\ d[k].duration = c[k].duration /\ d[k].start = c[k].start * step
      <4>1. CASE k = m
        <5>1. c[m].pid = a[m].pid /\ c[m].start = a[m].start /\ c[m].duration = a[m].duration + 1
          BY <3>1
        <5>2. d[m].pid = b[m].pid /\ d[m].start = b[m].start /\ d[m].duration = b[m].duration + 1
          BY <3>2
        <5>3. b[m].pid = a[m].pid /\ b[m].duration = a[m].duration /\ b[m].start = a[m].start * step
          BY <2>4
        <5>4. d[m].start = c[m].start * step
          BY <5>1, <5>2, <5>3, Zenon
        <5> QED
          BY <4>1, <5>1, <5>2, <5>3, <5>4
      <4>2. CASE k # m
        <5>1. k \in 1 .. m - 1
          BY <2>4, <4>2
        <5>2. c[k] = a[k] /\ d[k] = b[k]
          BY <3>1, <3>2, <5>1
        <5> QED
          BY <2>4, <5>2, Zenon
      <4> QED
        BY <4>1, <4>2
    <3> QED
      BY <2>4, <3>1, <3>2, <3>3 DEF c, d
  <2>7. CASE pid # a[m].pid
    <3> DEFINE near == [pid |-> pid, start |-> i, duration |-> 1]
               far == [pid |-> pid, start |-> time, duration |-> 1]
    <3>1. c = Append(a, near)
      BY <2>2, <2>7 DEF Extended, m
    <3>2. d = Append(b, far)
      BY <2>2, <2>4, <2>7 DEF Extended
    <3>3. near \in Run(P) /\ far \in Run(P)
      <4> HIDE DEF time
      <4> QED
        BY <2>5 DEF Run
    <3>4. far.pid = near.pid /\ far.duration = near.duration /\ far.start = near.start * step
      OBVIOUS
    <3> HIDE DEF near, far
    <3>5. Len(c) = m + 1 /\ c[m + 1] = near /\ \A k \in 1 .. m : c[k] = a[k]
      BY <2>3, <3>1, <3>3, AppendProperties DEF m
    <3>6. Len(d) = m + 1 /\ d[m + 1] = far /\ \A k \in 1 .. m : d[k] = b[k]
      BY <2>3, <2>4, <3>2, <3>3, AppendProperties
    <3>7. ASSUME NEW k \in 1 .. m + 1
          PROVE  d[k].pid = c[k].pid /\ d[k].duration = c[k].duration /\ d[k].start = c[k].start * step
      <4>1. k \in 1 .. m \/ k = m + 1
        BY <2>4
      <4>2. CASE k \in 1 .. m
        BY <2>4, <3>5, <3>6, <4>2, Zenon
      <4>3. CASE k = m + 1
        BY <3>4, <3>5, <3>6, <4>3, Zenon
      <4> QED
        BY <4>1, <4>2, <4>3
    <3>8. Len(c) \in Nat \ {0}
      BY <2>4, <3>5
    <3> QED
      BY <3>5, <3>6, <3>7, <3>8 DEF c, d
  <2> QED
    BY <2>6, <2>7
<1>6. ASSUME NEW i \in 0 .. (n - 1) - 1, i \in S PROVE i + 1 \in S
  <2>1. i + 1 \in 0 .. n - 1 /\ i + 1 \in 1 .. n - 1
    BY <1>1
  <2> HIDE DEF Same
  <2> QED
    BY <1>5, <1>6, <2>1
<1>7. Same(u[n], w[n])
  <2>1. n - 1 \in Nat /\ n - 1 \in 0 .. n - 1 /\ (n - 1) + 1 = n
    BY <1>1
  <2> HIDE DEF S, Same
  <2>2. \A i \in 0 .. n - 1 : i \in S
    BY <1>4, <1>6, <2>1, UpTo
  <2>3. n - 1 \in S
    BY <2>1, <2>2
  <2> QED
    BY <2>1, <2>3 DEF S
<1>8. w[n] \in Seq(Run(P))
  BY <1>1, <1>3
<1> QED
  BY <1>2, <1>3, <1>7, <1>8
-----------------------------------------------------------------------------
(***************************************************************************)
(* The charts.                                                             *)
(***************************************************************************)
LEMMA FunctionIsSeq ==
  ASSUME NEW n \in Nat, NEW S, NEW f \in [1 .. n -> S]
  PROVE  f \in Seq(S) /\ Len(f) = n /\ DOMAIN f = 1 .. n
OBVIOUS

LEMMA MaxOfTwo ==
  ASSUME NEW a \in Int, NEW b \in Int
  PROVE  Max({a, b}) = IF a >= b THEN a ELSE b
BY DEF Max

LEMMA MinOfTwo ==
  ASSUME NEW a \in Int, NEW b \in Int
  PROVE  Min({a, b}) = IF a <= b THEN a ELSE b
BY DEF Min

LEMMA Quotient ==
  ASSUME NEW a \in Nat, NEW c \in Nat \ {0}
  PROVE  /\ a \div c \in Nat
         /\ (a \div c) * c <= a /\ a < ((a \div c) + 1) * c
         /\ a % c = 0 => (a \div c) * c = a
OBVIOUS

LEMMA ProductIsMonotonic ==
  ASSUME NEW a \in Int, NEW b \in Int, NEW c \in Nat \ {0}
  PROVE  (a * c < b * c <=> a < b) /\ (a * c <= b * c <=> a <= b) /\ a * c \in Int
OBVIOUS

LEMMA ExactChartIsRight ==
  ASSUME NEW entries \in Seq(Names), entries # << >>, chart = ExactChart(entries)
  PROVE  /\ chart.total = Len(entries) /\ chart.mode = "exact"
         /\ chart.blocks \in Seq(Block)
         /\ BlocksTile
         /\ \A i \in DOMAIN chart.blocks : \A t \in Covered(i) : entries[t] = chart.blocks[i].pid
         /\ \A i \in DOMAIN chart.blocks :
              chart.blocks[i].width >= 3 /\ chart.blocks[i].end <= Len(entries)
<1> DEFINE b == Blocks(entries, 1)
           n == Len(entries)
           m == Len(b)
           c == chart.blocks
           Width(i) == Max({3, (b[i].duration * 60) \div n})
           Shown(i) == [pid |-> b[i].pid, start |-> b[i].start,
                        end |-> b[i].start + b[i].duration, width |-> Width(i)]
<1>1. b \in Seq(Run(Names)) /\ MaximalRuns(b, entries, n)
  BY UnitBlocks
<1>2. n \in Nat \ {0} /\ DOMAIN b = 1 .. m
  BY <1>1, EmptySeq, LenProperties
<1>3. chart.total = n /\ chart.mode = "exact" /\ c = [i \in 1 .. m |-> Shown(i)]
  <2>1. chart = [mode |-> "exact", total |-> n, blocks |-> [i \in 1 .. m |-> Shown(i)]]
    BY <1>2 DEF ExactChart
  <2> HIDE DEF Shown, m, n
  <2> QED
    BY <2>1
<1> HIDE DEF b, n, c
<1>4. /\ m \in 1 .. n /\ b[1].start = 0 /\ b[m].start + b[m].duration = n
      /\ \A k \in 1 .. m :
           /\ b[k].start \in Nat /\ b[k].duration \in Nat \ {0} /\ b[k].start + b[k].duration <= n
           /\ \A j \in b[k].start + 1 .. b[k].start + b[k].duration : entries[j] = b[k].pid
      /\ \A k \in 1 .. m - 1 :
           b[k].start + b[k].duration = b[k + 1].start /\ b[k].pid # b[k + 1].pid
  BY <1>1 DEF MaximalRuns
<1>5. ASSUME NEW i \in 1 .. m PROVE Width(i) \in Nat /\ Width(i) >= 3
  <2>1. b[i].duration * 60 \in Nat
    BY <1>4
  <2>2. (b[i].duration * 60) \div n \in Nat
    BY <1>2, <2>1, Quotient
  <2> DEFINE w == (b[i].duration * 60) \div n
  <2> HIDE DEF w
  <2>3. Max({3, w}) = IF 3 >= w THEN 3 ELSE w
    BY <2>2, MaxOfTwo DEF w
  <2> QED
    BY <2>2, <2>3 DEF w
<1>6. ASSUME NEW i \in 1 .. m PROVE b[i].pid \in Names
  <2>1. b[i] \in Run(Names)
    BY <1>1, ElementOfSeq
  <2> QED
    BY <2>1 DEF Run
<1> HIDE DEF Width, m
<1>7. ASSUME NEW i \in 1 .. m
      PROVE  /\ c[i].pid = b[i].pid /\ c[i].start = b[i].start
             /\ c[i].end = b[i].start + b[i].duration /\ c[i].width = Width(i)
             /\ c[i] \in Block
  <2>1. c[i] = Shown(i)
    BY <1>3
  <2>2. Shown(i) \in Block
    <3>1. b[i].start \in Nat /\ b[i].start + b[i].duration \in Nat
      BY <1>4
    <3>2. Block = [pid : Names, start : Nat, end : Nat, width : Nat]
      BY DEF Block, Names, Pieces
    <3> QED
      BY <1>5, <1>6, <3>1, <3>2
  <2> QED
    BY <2>1, <2>2
<1> HIDE DEF Shown
<1>8. c \in Seq(Block) /\ Len(c) = m /\ DOMAIN c = 1 .. m
  <2>1. m \in Nat
    BY <1>2, <1>4
  <2>2. c \in [1 .. m -> Block]
    BY <1>3, <1>7
  <2> QED
    BY <2>1, <2>2, FunctionIsSeq
<1>9. BlocksTile
  <2>1. c # << >>
    BY <1>4, <1>8, EmptySeq
  <2>2. 1 \in 1 .. m /\ m \in 1 .. m
    BY <1>4
  <2>3. c[1].start = 0 /\ c[Len(c)].end = chart.total
    BY <1>3, <1>4, <1>7, <1>8, <2>2
  <2>4. ASSUME NEW i \in 1 .. m PROVE c[i].start < c[i].end
    <3>1. b[i].start \in Nat /\ b[i].duration \in Nat \ {0}
      BY <1>4
    <3>2. c[i].start = b[i].start /\ c[i].end = b[i].start + b[i].duration
      BY <1>7
    <3> QED
      BY <3>1, <3>2
  <2>5. ASSUME NEW i \in 1 .. m - 1
        PROVE  c[i].end = c[i + 1].start /\ c[i].pid # c[i + 1].pid
    <3>1. i \in 1 .. m /\ i + 1 \in 1 .. m
      BY <1>4
    <3>2. b[i].start + b[i].duration = b[i + 1].start /\ b[i].pid # b[i + 1].pid
      BY <1>4
    <3>3. /\ c[i].end = b[i].start + b[i].duration /\ c[i + 1].start = b[i + 1].start
          /\ c[i].pid = b[i].pid /\ c[i + 1].pid = b[i + 1].pid
      BY <1>7, <3>1
    <3> QED
      BY <3>2, <3>3
  <2> QED
    BY <1>8, <2>1, <2>3, <2>4, <2>5 DEF BlocksTile, c
<1>10. \A i \in 1 .. m : \A t \in Covered(i) : entries[t] = c[i].pid
  BY <1>4, <1>7 DEF Covered, c
<1>11. \A i \in 1 .. m : c[i].width >= 3 /\ c[i].end <= n
  BY <1>4, <1>5, <1>7
<1> QED
  BY <1>3, <1>8, <1>9, <1>10, <1>11 DEF c, n

LEMMA SamplesAreEntries ==
  ASSUME NEW entries \in Seq(Names), entries # << >>
  PROVE  LET n == Len(entries)
             s == Sampled(entries)
         IN  /\ s \in Seq(Names) /\ s # << >>
             /\ Len(s) = (n - 1) \div ChunkSize + 1
             /\ (n - 1) \div ChunkSize \in Nat
             /\ ((n - 1) \div ChunkSize) * ChunkSize <= n - 1
             /\ \A k \in 1 .. Len(s) : s[k] = entries[(k - 1) * ChunkSize + 1]
<1> DEFINE n == Len(entries)
           q == (n - 1) \div ChunkSize
           s == Sampled(entries)
<1>1. n \in Nat \ {0} /\ \A i \in 1 .. n : entries[i] \in Names
  BY EmptySeq, ElementOfSeq
<1>2. ChunkSize \in Nat \ {0}
  BY GanttAssumption DEF GanttAssumption
<1>3. q \in Nat /\ q * ChunkSize <= n - 1
  <2>1. n - 1 \in Nat
    BY <1>1
  <2> QED
    BY <1>2, <2>1, Quotient
<1>4. s = [k \in 1 .. q + 1 |-> entries[(k - 1) * ChunkSize + 1]]
  BY DEF Sampled
<1> HIDE DEF n, q, s
<1>5. ASSUME NEW k \in 1 .. q + 1 PROVE entries[(k - 1) * ChunkSize + 1] \in Names
  <2>1. k - 1 \in Nat /\ k - 1 <= q /\ q \in Int /\ k - 1 \in Int
    BY <1>3
  <2>2. (k - 1) * ChunkSize \in Nat /\ (k - 1) * ChunkSize <= q * ChunkSize /\ q * ChunkSize \in Int
    BY <1>2, <2>1, ProductIsMonotonic
  <2> DEFINE t == (k - 1) * ChunkSize
             z == q * ChunkSize
  <2> HIDE DEF t, z
  <2>3. t \in Nat /\ t <= z /\ z <= n - 1 /\ z \in Int
    BY <1>3, <2>2 DEF t, z
  <2>4. t + 1 \in 1 .. n
    BY <1>1, <2>3
  <2> QED
    BY <1>1, <2>4 DEF t
<1>6. s \in [1 .. q + 1 -> Names]
  BY <1>4, <1>5
<1>7. q + 1 \in Nat /\ q + 1 # 0
  BY <1>3
<1>8. s \in Seq(Names) /\ Len(s) = q + 1
  BY <1>6, <1>7, FunctionIsSeq
<1>9. s # << >>
  BY <1>7, <1>8, EmptySeq
<1>10. \A k \in 1 .. q + 1 : s[k] = entries[(k - 1) * ChunkSize + 1]
  BY <1>4
<1> QED
  BY <1>3, <1>8, <1>9, <1>10 DEF n, q, s

LEMMA SampledChartIsRight ==
  ASSUME NEW entries \in Seq(Names), entries # << >>, chart = SampledChart(entries)
  PROVE  /\ chart.total = Len(entries) /\ chart.mode = "sampled"
         /\ chart.blocks \in Seq(Block)
         /\ Len(chart.blocks) <= max_blocks(chart.total)
         /\ BlocksTile
         /\ \A i \in DOMAIN chart.blocks : \A t \in Covered(i) :
              (t - 1) % ChunkSize = 0 => entries[t] = chart.blocks[i].pid
<1> DEFINE s == Sampled(entries)
           n == Len(entries)
           q == (n - 1) \div ChunkSize
           u == Blocks(s, 1)
           b == Blocks(s, ChunkSize)
           m == Len(u)
           c == chart.blocks
           Until(i) == IF i < m THEN b[i + 1].start ELSE n
           Shown(i) == [pid |-> b[i].pid, start |-> b[i].start, end |-> Until(i),
                        width |-> Min({MaxWidth, b[i].duration})]
<1>1. ChunkSize \in Nat \ {0} /\ ChunkSize \in Nat /\ MaxWidth \in Nat
  BY GanttAssumption DEF GanttAssumption
<1>2. n \in Nat \ {0} /\ \A i \in 1 .. n : entries[i] \in Names
  BY EmptySeq, ElementOfSeq
<1>3. /\ s \in Seq(Names) /\ s # << >> /\ Len(s) = q + 1 /\ q \in Nat /\ q * ChunkSize <= n - 1
      /\ \A k \in 1 .. q + 1 : s[k] = entries[(k - 1) * ChunkSize + 1]
  BY SamplesAreEntries
<1>4. u \in Seq(Run(Names)) /\ MaximalRuns(u, s, q + 1)
  BY <1>3, UnitBlocks
<1>5. /\ m \in 1 .. q + 1 /\ u[1].start = 0 /\ u[m].start + u[m].duration = q + 1
      /\ \A k \in 1 .. m :
           /\ u[k].start \in Nat /\ u[k].duration \in Nat \ {0} /\ u[k].start + u[k].duration <= q + 1
           /\ \A j \in u[k].start + 1 .. u[k].start + u[k].duration : s[j] = u[k].pid
      /\ \A k \in 1 .. m - 1 :
           u[k].start + u[k].duration = u[k + 1].start /\ u[k].pid # u[k + 1].pid
  BY <1>4 DEF MaximalRuns
<1>6. /\ Len(b) = m
      /\ \A k \in 1 .. m : /\ b[k].pid = u[k].pid /\ b[k].duration = u[k].duration
                           /\ b[k].start = u[k].start * ChunkSize
  BY <1>1, <1>3, ScaledBlocks
<1>7. b \in Seq(Run(Names))
  BY <1>1, <1>3, ScaledBlocks
<1>8. DOMAIN b = 1 .. m
  BY <1>6, <1>7, LenProperties
<1>9. chart.total = n /\ chart.mode = "sampled" /\ c = [i \in 1 .. m |-> Shown(i)]
  <2>1. chart = [mode |-> "sampled", total |-> n, blocks |-> [i \in 1 .. m |-> Shown(i)]]
    BY <1>6, <1>8 DEF SampledChart
  <2> HIDE DEF Shown, m, n
  <2> QED
    BY <2>1
<1> HIDE DEF s, u, b, c, q, n
<1>10. \A i \in 1 .. m : b[i].pid \in Names
  <2> SUFFICES ASSUME NEW i \in 1 .. m PROVE b[i].pid \in Names
    OBVIOUS
  <2>1. b[i] \in Run(Names)
    BY <1>6, <1>7, ElementOfSeq
  <2> QED
    BY <2>1 DEF Run
<1> HIDE DEF m
\* The blocks in units of chunks and of time.
<1>11. ASSUME NEW i \in 1 .. m
       PROVE  /\ b[i].start \in Nat /\ Until(i) \in Nat /\ b[i].start < Until(i)
              /\ \A k \in Nat : /\ b[i].start <= k * ChunkSize <=> u[i].start <= k
                                /\ k * ChunkSize < Until(i) /\ k <= q => k < u[i].start + u[i].duration
  <2>1. /\ b[i].start = u[i].start * ChunkSize /\ u[i].start \in Nat
        /\ u[i].duration \in Nat \ {0} /\ u[i].start + u[i].duration <= q + 1
    BY <1>5, <1>6
  <2>2. b[i].start \in Nat
    BY <1>1, <2>1
  <2>3. ASSUME NEW k \in Nat PROVE b[i].start <= k * ChunkSize <=> u[i].start <= k
    <3>1. u[i].start \in Int /\ k \in Int
      BY <2>1
    <3> QED
      BY <1>1, <2>1, <3>1, ProductIsMonotonic
  <2>4. CASE i < m
    <3>1. i + 1 \in 1 .. m /\ i \in 1 .. m - 1
      BY <1>5, <2>4
    <3>2. b[i + 1].start = u[i + 1].start * ChunkSize /\ u[i + 1].start = u[i].start + u[i].duration
      BY <1>5, <1>6, <3>1
    <3> DEFINE next == u[i].start + u[i].duration
    <3>3. Until(i) = next * ChunkSize
      BY <2>4, <3>2
    <3>4. u[i].start \in Int /\ next \in Int /\ u[i].start < next
      BY <2>1
    <3>5. u[i].start * ChunkSize < next * ChunkSize /\ next * ChunkSize \in Int
      <4> HIDE DEF next
      <4> QED
        BY <1>1, <3>4, ProductIsMonotonic
    <3>6. ASSUME NEW k \in Nat, k * ChunkSize < Until(i) PROVE k < next
      <4>1. k \in Int
        OBVIOUS
      <4> HIDE DEF next, Until
      <4> QED
        BY <1>1, <3>3, <3>4, <3>6, <4>1, ProductIsMonotonic
    <3> HIDE DEF next, Until
    <3>7. Until(i) \in Nat /\ b[i].start < Until(i)
      BY <2>1, <2>2, <3>3, <3>5
    <3> QED
      BY <2>2, <2>3, <3>6, <3>7 DEF next
  <2>5. CASE ~(i < m)
    <3>1. i = m /\ Until(i) = n
      BY <1>5, <2>5
    <3>2. u[i].start + u[i].duration = q + 1
      BY <1>5, <3>1
    <3>3. u[i].start <= q /\ u[i].start \in Int /\ q \in Int
      BY <1>3, <2>1, <3>2
    <3>4. u[i].start * ChunkSize <= q * ChunkSize /\ q * ChunkSize \in Int
      BY <1>1, <3>3, ProductIsMonotonic
    <3>5. b[i].start <= q * ChunkSize
      BY <2>1, <3>4
    <3> DEFINE z == q * ChunkSize
    <3> HIDE DEF Until, z
    <3>6. b[i].start < n
      BY <1>2, <1>3, <2>2, <3>4, <3>5 DEF z
    <3>7. \A k \in Nat : k <= q => k < u[i].start + u[i].duration
      BY <1>3, <3>2
    <3> QED
      BY <1>2, <2>2, <2>3, <3>1, <3>6, <3>7
  <2> QED
    BY <2>4, <2>5
<1>12. ASSUME NEW i \in 1 .. m
       PROVE  /\ c[i].pid = b[i].pid /\ c[i].start = b[i].start /\ c[i].end = Until(i)
              /\ c[i] \in Block
  <2>1. c[i] = Shown(i)
    BY <1>9
  <2>2. Min({MaxWidth, b[i].duration}) \in Nat
    <3>1. b[i].duration \in Nat
      BY <1>5, <1>6
    <3>2. MaxWidth \in Int /\ b[i].duration \in Int
      BY <1>1, <3>1
    <3>3. \/ Min({MaxWidth, b[i].duration}) = MaxWidth
          \/ Min({MaxWidth, b[i].duration}) = b[i].duration
      BY <3>2, MinOfTwo
    <3> QED
      BY <1>1, <3>1, <3>3
  <2>3. Block = [pid : Names, start : Nat, end : Nat, width : Nat]
    BY DEF Block, Names, Pieces
  <2> HIDE DEF Until
  <2>4. Shown(i) \in Block
    BY <1>10, <1>11, <2>2, <2>3
  <2> QED
    BY <2>1, <2>4
<1> HIDE DEF Shown
<1>13. c \in Seq(Block) /\ Len(c) = m /\ DOMAIN c = 1 .. m
  <2>1. m \in Nat
    BY <1>3, <1>5
  <2>2. c \in [1 .. m -> Block]
    BY <1>9, <1>12
  <2> QED
    BY <2>1, <2>2, FunctionIsSeq
<1>14. m <= max_blocks(n)
  <2>1. n \in Nat /\ n - 1 \in Nat
    BY <1>2
  <2>2. (n - 1) \div ChunkSize <= n \div ChunkSize /\ n \div ChunkSize \in Nat
    <3> DEFINE r == n \div ChunkSize
    <3>1. r \in Nat /\ n < (r + 1) * ChunkSize
      BY <1>1, <2>1, Quotient
    <3>2. q * ChunkSize <= n - 1 /\ q \in Int
      BY <1>3
    <3> HIDE DEF r
    <3>3. r + 1 \in Int /\ q * ChunkSize \in Int /\ (r + 1) * ChunkSize \in Int
      BY <1>1, <3>1, <3>2, ProductIsMonotonic
    <3>4. q * ChunkSize < (r + 1) * ChunkSize
      <4> DEFINE x == q * ChunkSize
                 y == (r + 1) * ChunkSize
      <4> HIDE DEF x, y
      <4>1. x <= n - 1 /\ n < y /\ x \in Int /\ y \in Int
        BY <3>1, <3>2, <3>3 DEF x, y
      <4>2. x < y
        BY <2>1, <4>1
      <4> QED
        BY <4>2 DEF x, y
    <3>5. q < r + 1
      BY <1>1, <3>2, <3>3, <3>4, ProductIsMonotonic
    <3> QED
      BY <3>1, <3>2, <3>5 DEF q, r
  <2>3. m <= q + 1 /\ q <= n \div ChunkSize
    BY <1>5, <2>2 DEF q
  <2> QED
    BY <1>3, <1>5, <2>2, <2>3 DEF max_blocks
<1>15. BlocksTile
  <2>1. c # << >>
    BY <1>5, <1>13, EmptySeq
  <2>2. 1 \in 1 .. m /\ m \in 1 .. m /\ ~(m < m)
    BY <1>5
  <2>3. c[1].start = 0
    <3>1. 0 * ChunkSize = 0
      BY <1>1
    <3> QED
      BY <1>5, <1>6, <1>12, <2>2, <3>1
  <2>4. c[Len(c)].end = chart.total
    BY <1>9, <1>12, <1>13, <2>2
  <2>5. \A i \in 1 .. m : c[i].start < c[i].end
    BY <1>11, <1>12
  <2>6. ASSUME NEW i \in 1 .. m - 1
        PROVE  c[i].end = c[i + 1].start /\ c[i].pid # c[i + 1].pid
    <3>1. i \in 1 .. m /\ i + 1 \in 1 .. m /\ i < m
      BY <1>5
    <3>2. b[i].pid # b[i + 1].pid
      BY <1>5, <1>6, <3>1
    <3> QED
      BY <1>12, <3>1, <3>2
  <2> QED
    BY <1>13, <2>1, <2>3, <2>4, <2>5, <2>6 DEF BlocksTile, c
<1>16. ASSUME NEW i \in 1 .. m, NEW t \in Covered(i), (t - 1) % ChunkSize = 0
       PROVE  entries[t] = c[i].pid
  <2>1. t \in b[i].start + 1 .. Until(i)
    BY <1>12 DEF Covered, c
  <2>2. Until(i) <= n
    <3>1. CASE i < m
      <4>1. i + 1 \in 1 .. m
        BY <1>5, <3>1
      <4>2. Until(i) = b[i + 1].start /\ b[i + 1].start < Until(i + 1) /\ Until(i + 1) \in Nat
        BY <1>11, <3>1, <4>1
      <4>3. b[i + 1].start <= q * ChunkSize
        <5>1. u[i + 1].start <= q /\ q \in Nat
          <6>1. /\ u[i + 1].start + u[i + 1].duration <= q + 1
                /\ u[i + 1].start \in Nat /\ u[i + 1].duration \in Nat \ {0}
            BY <1>5, <4>1
          <6> QED
            BY <1>3, <6>1
        <5> QED
          BY <1>11, <4>1, <5>1
      <4>4. q * ChunkSize \in Int
        BY <1>1, <1>3
      <4>5. b[i + 1].start \in Nat
        BY <1>11, <4>1
      <4> DEFINE z == q * ChunkSize
      <4> HIDE DEF z, Until
      <4> QED
        BY <1>2, <1>3, <4>2, <4>3, <4>4, <4>5 DEF z
    <3>2. CASE ~(i < m)
      BY <1>2, <3>2
    <3> QED
      BY <3>1, <3>2
  <2> DEFINE k == (t - 1) \div ChunkSize
  <2>3. b[i].start \in Nat /\ Until(i) \in Nat
    BY <1>11
  <2>4. t \in Nat \ {0} /\ t - 1 \in Nat /\ b[i].start <= t - 1 /\ t - 1 < Until(i) /\ t <= n
    <3> HIDE DEF Until
    <3> QED
      BY <1>2, <2>1, <2>2, <2>3
  <2>5. k \in Nat /\ k * ChunkSize = t - 1
    BY <1>1, <1>16, <2>4, Quotient
  <2> HIDE DEF k, Until
  <2>6. k <= q
    <3>1. q + 1 \in Int /\ k \in Int /\ k * ChunkSize <= n - 1
      BY <1>2, <1>3, <2>4, <2>5
    <3>2. n - 1 \in Nat /\ n - 1 < (q + 1) * ChunkSize
      <4>1. n - 1 \in Nat
        BY <1>2
      <4> QED
        BY <1>1, <4>1, Quotient DEF q
    <3>3. (q + 1) * ChunkSize \in Int
      BY <1>1, <3>1, ProductIsMonotonic
    <3>4. k * ChunkSize < (q + 1) * ChunkSize
      <4> DEFINE y == (q + 1) * ChunkSize
      <4> HIDE DEF y
      <4>1. n - 1 < y /\ y \in Int
        BY <3>2, <3>3 DEF y
      <4>2. k * ChunkSize < y
        BY <1>2, <2>4, <2>5, <4>1
      <4> QED
        BY <4>2 DEF y
    <3>5. k < q + 1
      BY <1>1, <3>1, <3>4, ProductIsMonotonic
    <3> QED
      BY <1>3, <2>5, <3>5
  <2>7. u[i].start <= k /\ k < u[i].start + u[i].duration
    BY <1>11, <2>4, <2>5, <2>6
  <2>8. k + 1 \in u[i].start + 1 .. u[i].start + u[i].duration
    <3>1. u[i].start \in Nat /\ u[i].duration \in Nat
      BY <1>5
    <3> QED
      BY <2>5, <2>7, <3>1
  <2>9. s[k + 1] = u[i].pid
    BY <1>5, <2>8
  <2>10. s[k + 1] = entries[t]
    <3>1. k + 1 \in 1 .. q + 1 /\ (k + 1) - 1 = k /\ (t - 1) + 1 = t
      BY <1>3, <2>4, <2>5, <2>6
    <3> QED
      BY <1>3, <2>5, <3>1
  <2> QED
    BY <1>6, <1>12, <2>9, <2>10
<1> QED
  BY <1>9, <1>13, <1>14, <1>15, <1>16 DEF c, n
-----------------------------------------------------------------------------
(***************************************************************************)
(* The lines of an exact chart.                                            *)
(***************************************************************************)
\* Every time of an exact chart has one to three digits.
LEMMA DigitsOfTime ==
  ASSUME NEW n \in Nat, n <= ExactLimit
  PROVE  Digits(n) \in 1 .. 3
<1> DEFINE small == {power \in {10, 100, 1000, 10000} : power <= n}
<1>1. small \subseteq {10, 100}
  <2>1. ExactLimit \in Nat /\ ExactLimit < 1000
    BY GanttAssumption DEF GanttAssumption
  <2>2. n < 1000
    BY <2>1
  <2> QED
    BY <2>2
<1>2. IsFiniteSet({10, 100}) /\ Cardinality({10, 100}) = 2
  <2>1. IsFiniteSet({10}) /\ Cardinality({10}) = 1
    BY FS_Singleton
  <2>2. {10, 100} = {10} \cup {100} /\ 100 \notin {10}
    OBVIOUS
  <2>3. IsFiniteSet({10} \cup {100}) /\ Cardinality({10} \cup {100}) = Cardinality({10}) + 1
    BY <2>1, <2>2, FS_AddElement
  <2> QED
    BY <2>1, <2>2, <2>3
<1>3. IsFiniteSet(small) /\ Cardinality(small) <= Cardinality({10, 100})
  BY <1>1, <1>2, FS_Subset
<1>4. Cardinality(small) \in Nat
  BY <1>3, FS_CardinalityType
<1> HIDE DEF small
<1>5. 1 + Cardinality(small) \in 1 .. 3
  BY <1>2, <1>3, <1>4
<1> QED
  BY <1>5 DEF Digits, small

\* The time line is laid out from left to right.
LEMMA TimeSteps ==
  ASSUME NEW b, Len(b) \in Nat,
         \A i \in 1 .. Len(b) : b[i].end \in Nat /\ b[i].end <= ExactLimit,
         NEW pipe \in [0 .. Len(b) -> Int], pipe = PipePosition(b)
  PROVE  LET cursor(i, column) == column + (IF i = 0 THEN 1 ELSE Digits(b[i].end))
         IN  /\ TimeColumn(b)[0] = 0
             /\ \A i \in 1 .. Len(b) :
                  TimeColumn(b)[i] = cursor(i - 1, TimeColumn(b)[i - 1])
                                       + Max({1, pipe[i] - cursor(i - 1, TimeColumn(b)[i - 1])})
<1> DEFINE n == Len(b)
           Width(i) == IF i = 0 THEN 1 ELSE Digits(b[i].end)
           Next1(i, v) == (v + Width(i - 1)) + Max({1, pipe[i] - (v + Width(i - 1))})
           next == [i \in 1 .. n |-> [v \in Int |-> Next1(i, v)]]
           Loop(g) == [i \in 0 .. n |-> IF i = 0 THEN 0 ELSE Next1(i, g[i - 1])]
           time == CHOOSE g : g = Loop(g)
<1>1. n \in Nat /\ 0 \in Int
  OBVIOUS
<1>2. \A i \in 1 .. n : \A v \in Int : Next1(i, v) \in Int
  <2> SUFFICES ASSUME NEW i \in 1 .. n, NEW v \in Int PROVE Next1(i, v) \in Int
    OBVIOUS
  <2>1. Width(i - 1) \in Int
    <3>1. CASE i = 1
      BY <3>1
    <3>2. CASE i # 1
      <4>1. i - 1 \in 1 .. Len(b) /\ i - 1 # 0
        BY <3>2
      <4>2. Digits(b[i - 1].end) \in 1 .. 3
        BY <4>1, DigitsOfTime
      <4> QED
        BY <4>1, <4>2
    <3> QED
      BY <3>1, <3>2
  <2> DEFINE c == v + Width(i - 1)
             d == pipe[i] - c
  <2> HIDE DEF Width
  <2>2. c \in Int /\ d \in Int
    BY <2>1
  <2> HIDE DEF d, c
  <2>3. Max({1, d}) \in Int
    BY <2>2, MaxOfTwo
  <2>4. c + Max({1, d}) \in Int
    BY <2>2, <2>3
  <2> QED
    BY <2>4 DEF c, d
<1>3. TimeColumn(b) = time
  BY DEF TimeColumn
<1> HIDE DEF n, Next1
<1>4. next \in [1 .. n -> [Int -> Int]]
  BY <1>2
<1>5. PICK g \in [0 .. n -> Int] : Follows(g, n, 0, next)
  <2> HIDE DEF next
  <2> QED
    BY <1>1, <1>4, RecursiveFunction
<1>6. g = Loop(g)
  <2>1. ASSUME NEW i \in 1 .. n PROVE g[i] = Next1(i, g[i - 1])
    <3>1. g[i - 1] \in Int /\ g[i] = next[i][g[i - 1]]
      <4> HIDE DEF next
      <4>1. i - 1 \in 0 .. n
        BY <1>1
      <4> QED
        BY <1>5, <4>1 DEF Follows
    <3> QED
      BY <3>1
  <2>2. g[0] = 0
    BY <1>5 DEF Follows
  <2> HIDE DEF next
  <2> QED
    BY <1>1, <2>1, <2>2
<1>7. time = Loop(time)
  <2> HIDE DEF Loop
  <2> QED
    BY <1>6, Zenon
<1> HIDE DEF time, next
<1>8. time[0] = 0 /\ \A i \in 1 .. n : time[i] = Next1(i, time[i - 1])
  <2>1. \A h : /\ Loop(h)[0] = 0
               /\ \A i \in 1 .. n : Loop(h)[i] = Next1(i, h[i - 1])
    BY <1>1
  <2> HIDE DEF Loop
  <2> QED
    BY <1>7, <2>1
<1> QED
  BY <1>3, <1>8 DEF n, Next1

LEMMA TimesMeetBars ==
  ASSUME NEW entries \in Seq(Names), entries # << >>, Len(entries) <= ExactLimit,
         chart = ExactChart(entries)
  PROVE  TimesUnderBars
<1> DEFINE b == chart.blocks
           n == Len(b)
           time == TimeColumn(b)
           Bar(k) == Max({b[k].width, LabelLength[b[k].pid]}) + 1
<1> SUFFICES ASSUME \A i \in DOMAIN b : LabelLength[b[i].pid] <= b[i].width
             PROVE  \A i \in DOMAIN b : time[i] = BarColumn(b)[i]
  BY DEF TimesUnderBars
<1>1. /\ b \in Seq(Block) /\ Len(entries) \in Nat
      /\ \A i \in DOMAIN b : b[i].width >= 3 /\ b[i].end <= Len(entries)
  BY ExactChartIsRight, LenProperties
<1>2. n \in Nat /\ DOMAIN b = 1 .. n
  BY <1>1, LenProperties
<1>3. ASSUME NEW i \in 1 .. n
      PROVE  /\ b[i].width \in Nat /\ b[i].width >= 3
             /\ b[i].end \in Nat /\ b[i].end <= ExactLimit
             /\ Bar(i) = b[i].width + 1
  <2>1. b[i] \in Block
    BY <1>1, ElementOfSeq
  <2>2. /\ b[i].width \in Nat /\ b[i].end \in Nat
        /\ b[i].pid \in DOMAIN LabelLength
    BY <2>1 DEF Block
  <2>3. LabelLength[b[i].pid] \in Nat /\ ExactLimit \in Nat
    BY <2>2, GanttAssumption DEF GanttAssumption
  <2>4. b[i].width >= 3 /\ b[i].end <= ExactLimit /\ LabelLength[b[i].pid] <= b[i].width
    BY <1>1, <1>2, <2>2, <2>3
  <2>5. Max({b[i].width, LabelLength[b[i].pid]}) = b[i].width
    <3> DEFINE x == b[i].width
               y == LabelLength[b[i].pid]
    <3>1. x \in Int /\ y \in Int /\ y <= x
      BY <2>2, <2>3, <2>4
    <3> HIDE DEF x, y
    <3>2. Max({x, y}) = x
      BY <3>1, MaxOfTwo
    <3> QED
      BY <3>2 DEF x, y
  <2> QED
    BY <2>2, <2>4, <2>5
\* The two lines place the bars alike.
<1> DEFINE f(i) == [k \in 1 .. i |-> b[k].width + 1]
           pipe == PipePosition(b)
<1> HIDE DEF b, n
<1>4. ASSUME NEW i \in 0 .. n
      PROVE  /\ f(i) \in [1 .. i -> Int] /\ pipe[i] = Total(i, f(i)) /\ pipe[i] \in Int
             /\ BarColumn(b)[i] = pipe[i]
  <2>1. i \in Nat /\ \A k \in 1 .. i : k \in 1 .. n
    BY <1>2
  <2>2. \A k \in 1 .. i : b[k].width + 1 \in Int /\ Bar(k) = b[k].width + 1
    <3> HIDE DEF Bar
    <3>1. \A k \in 1 .. i : b[k].width \in Nat /\ Bar(k) = b[k].width + 1
      BY <1>3, <2>1
    <3> QED
      BY <3>1
  <2>3. f(i) \in [1 .. i -> Int]
    BY <2>2
  <2>4. [k \in 1 .. i |-> Bar(k)] = f(i)
    <3> HIDE DEF Bar
    <3> QED
      BY <2>2
  <2>5. BarColumn(b)[i] = Total(i, [k \in 1 .. i |-> Bar(k)])
    BY DEF BarColumn, n
  <2>6. pipe[i] = Total(i, f(i))
    BY DEF PipePosition, n
  <2> HIDE DEF Bar, f, pipe
  <2>7. Total(i, f(i)) \in Int
    BY <2>1, <2>3, TotalIsInt
  <2> QED
    BY <2>3, <2>4, <2>5, <2>6, <2>7
<1>5. ASSUME NEW i \in 1 .. n PROVE pipe[i] = pipe[i - 1] + b[i].width + 1
  <2>1. i - 1 \in Nat /\ i - 1 \in 0 .. n /\ i \in 0 .. n /\ (i - 1) + 1 = i
    BY <1>2
  <2>2. \A k \in 1 .. i - 1 : f(i - 1)[k] = f(i)[k]
    BY <2>1
  <2>3. f(i)[i] = b[i].width + 1
    BY <2>1
  <2>4. f(i) \in [1 .. (i - 1) + 1 -> Int] /\ f(i - 1) \in [1 .. i - 1 -> Int]
    BY <1>4, <2>1
  <2> HIDE DEF f, pipe
  <2>5. Total((i - 1) + 1, f(i)) = Total(i - 1, f(i - 1)) + f(i)[(i - 1) + 1]
    BY <2>1, <2>2, <2>4, TotalGrows
  <2>6. pipe[i] = pipe[i - 1] + (b[i].width + 1)
    BY <1>4, <2>1, <2>3, <2>5
  <2>7. pipe[i - 1] \in Int /\ b[i].width \in Nat
    BY <1>3, <1>4, <2>1
  <2> QED
    BY <2>6, <2>7
<1>6. pipe[0] = 0
  <2>1. PICK s \in [0 .. 0 -> Int] : s[0] = 0 /\ Total(0, f(0)) = s[0]
    <3>1. 0 \in Nat /\ 0 \in 0 .. n
      BY <1>2
    <3> HIDE DEF f
    <3> QED
      BY <1>4, <3>1, TotalSteps
  <2>2. 0 \in 0 .. n
    BY <1>2
  <2> HIDE DEF f, pipe
  <2> QED
    BY <1>4, <2>1, <2>2
<1>7. pipe \in [0 .. n -> Int]
  <2>1. pipe = [i \in 0 .. n |-> pipe[i]]
    BY DEF PipePosition, n
  <2> HIDE DEF pipe
  <2> QED
    BY <1>4, <2>1
<1> DEFINE Cursor(i, column) == column + (IF i = 0 THEN 1 ELSE Digits(b[i].end))
<1> HIDE DEF pipe
<1>8. /\ time[0] = 0
      /\ \A i \in 1 .. n : time[i] = Cursor(i - 1, time[i - 1])
                                       + Max({1, pipe[i] - Cursor(i - 1, time[i - 1])})
  BY <1>2, <1>3, <1>7, TimeSteps DEF n, pipe
\* So the times keep up with the bars.
<1> HIDE DEF time, f, Bar
<1> DEFINE S == {i \in 0 .. n : time[i] = pipe[i]}
<1>9. 0 \in S
  BY <1>2, <1>6, <1>8
<1>10. ASSUME NEW i \in 0 .. n - 1, i \in S PROVE i + 1 \in S
  <2>1. i + 1 \in 1 .. n /\ i + 1 \in 0 .. n /\ (i + 1) - 1 = i /\ i \in 0 .. n
    BY <1>2
  <2> DEFINE d == IF i = 0 THEN 1 ELSE Digits(b[i].end)
             w == b[i + 1].width
  <2>2. d \in 1 .. 3
    <3>1. CASE i = 0
      BY <3>1
    <3>2. CASE i # 0
      <4>1. i \in 1 .. n
        BY <2>1, <3>2
      <4>2. Digits(b[i].end) \in 1 .. 3
        BY <1>3, <4>1, DigitsOfTime
      <4> QED
        BY <3>2, <4>2
    <3> QED
      BY <3>1, <3>2
  <2>3. w \in Nat /\ w >= 3 /\ pipe[i] \in Int /\ pipe[i + 1] = pipe[i] + w + 1
    BY <1>3, <1>4, <1>5, <2>1
  <2>4. time[i + 1] = (pipe[i] + d) + Max({1, pipe[i + 1] - (pipe[i] + d)})
    <3>1. time[i] = pipe[i]
      BY <1>10
    <3>2. Cursor(i, time[i]) = pipe[i] + d
      BY <3>1
    <3> HIDE DEF Cursor, d
    <3> QED
      BY <1>8, <2>1, <3>2
  <2> HIDE DEF d, w
  <2>5. pipe[i + 1] - (pipe[i] + d) = (w + 1) - d /\ (w + 1) - d \in Int /\ (w + 1) - d >= 1
    BY <2>2, <2>3
  <2>6. Max({1, (w + 1) - d}) = (w + 1) - d
    <3> DEFINE r == (w + 1) - d
    <3> HIDE DEF r
    <3>1. r \in Int /\ r >= 1
      BY <2>5 DEF r
    <3>2. Max({1, r}) = r
      BY <3>1, MaxOfTwo
    <3> QED
      BY <3>2 DEF r
  <2>7. time[i + 1] = pipe[i + 1]
    <3>1. Max({1, pipe[i + 1] - (pipe[i] + d)}) = (w + 1) - d
      BY <2>5, <2>6
    <3>2. time[i + 1] = (pipe[i] + d) + ((w + 1) - d)
      BY <2>4, <3>1
    <3> QED
      BY <2>2, <2>3, <3>2
  <2> QED
    BY <2>1, <2>7
<1>11. \A i \in 0 .. n : i \in S
  <2> HIDE DEF S
  <2> QED
    BY <1>2, <1>9, <1>10, UpTo
<1>12. \A i \in 1 .. n : time[i] = BarColumn(b)[i]
  <2>1. \A i \in 1 .. n : i \in 0 .. n
    BY <1>2
  <2> QED
    BY <1>4, <1>11, <2>1
<1> QED
  BY <1>2, <1>12 DEF b, time
-----------------------------------------------------------------------------
(***************************************************************************)
(* The inductive invariant.  It follows the log until it is freed, and     *)
(* then the chart drawn from it: what can be read in either are the units  *)
(* whose entry was kept.  The array of entries is lost only with them.     *)
(***************************************************************************)
LogTypeOK ==
  /\ gantt_log = NoLog \/ gantt_log \in Seq(Pieces)
  /\ ran \in Seq(Entries)
  /\ dropped \subseteq DOMAIN ran
  /\ memory \subseteq {"log", "tokens"}
  /\ "log" \in memory <=> gantt_log # NoLog
  /\ pc \in {"init", "run", "rendered", "cleaned", "crashed"}

\* Nothing is logged, drawn or lost before its time.
InOrder ==
  /\ pc = "init" => gantt_log = NoLog /\ ran = << >> /\ dropped = {}
  /\ LoggedUnits = {} => gantt_log \in {NoLog, << >>}
  /\ pc \in {"init", "run"} => chart = NoChart /\ "tokens" \notin memory
  /\ pc = "cleaned" => gantt_log = NoLog

LogIsKept   == gantt_log # NoLog => split_gantt_log(gantt_log) = Kept
ChartIsKept == chart = NoChart \/ (Kept # << >> /\ chart = Chart(Kept))
LostArray   == "tokens" \in memory => LoggedUnits # {} /\ Kept = << >>

GanttInductive == LogTypeOK /\ InOrder /\ LogIsKept /\ ChartIsKept /\ LostArray

LEMMA GanttInit ==
  ASSUME Init
  PROVE  GanttInductive
<1>1. ran = << >> /\ dropped = {} /\ << >> \in Seq(Entries)
  BY EmptySeq DEF Init
<1>2. LogTypeOK
  BY <1>1 DEF Init, LogTypeOK
<1> QED
  BY <1>2 DEF Init, GanttInductive, InOrder, LogIsKept, ChartIsKept, LostArray

\* Kept is a sequence of names.
LEMMA SurvivingType ==
  ASSUME NEW run \in Seq(Entries), NEW lost
  PROVE  Surviving(run, lost) \in Seq(Names)
<1>1. PICK k \in [0 .. Len(run) -> Seq(Names)] : Surviving(run, lost) = k[Len(run)]
  BY SurvivingSteps
<1>2. Len(run) \in 0 .. Len(run)
  BY LenProperties
<1> QED
  BY <1>1, <1>2

\* The pieces of what is logged.
LEMMA LoggedTypes ==
  ASSUME LogTypeOK
  PROVE  /\ Kept \in Seq(Names)
         /\ \A entry \in Entries : entry \in Seq(Pieces)
         /\ DOMAIN ran = 1 .. Len(ran) /\ Len(ran) \in Nat
         /\ NoLog \notin Seq(Pieces)
<1>1. /\ \A entry \in Entries : entry \in Seq(Pieces)
      /\ NoLog \notin Seq(Pieces)
  BY GanttAssumption DEF GanttAssumption, Pieces
<1>2. ran \in Seq(Entries) /\ dropped \in SUBSET DOMAIN ran
  BY DEF LogTypeOK
<1>3. DOMAIN ran = 1 .. Len(ran) /\ Len(ran) \in Nat
  BY <1>2, LenProperties
<1>4. Kept \in Seq(Names)
  BY <1>2, <1>3, SurvivingType DEF Kept
<1> QED
  BY <1>1, <1>3, <1>4

LEMMA WiderRange ==
  ASSUME NEW n \in Nat, NEW S \in SUBSET (1 .. n)
  PROVE  S \subseteq 1 .. n + 1 /\ n + 1 \in 1 .. n + 1
OBVIOUS

\* A unit whose entry is logged.
LEMMA AppendPreserves ==
  ASSUME GanttInductive, NEW entry \in Entries, append_gantt_entry(entry)
  PROVE  GanttInductive'
<1> USE DEF append_gantt_entry, Unit
<1>1. LogTypeOK /\ InOrder /\ LogIsKept
  BY DEF GanttInductive
<1>2. /\ DOMAIN ran = 1 .. Len(ran) /\ Len(ran) \in Nat
      /\ entry \in Seq(Pieces) /\ NoLog \notin Seq(Pieces)
  BY <1>1, LoggedTypes
<1>3. gantt_log \in Seq(Pieces) /\ ran \in Seq(Entries) /\ dropped \in SUBSET (1 .. Len(ran))
  BY <1>1, <1>2 DEF LogTypeOK
<1>4. gantt_log' \in Seq(Pieces)
  BY <1>2, <1>3, ConcatProperties
<1>5. ran' \in Seq(Entries) /\ DOMAIN ran' = 1 .. Len(ran) + 1 /\ ran' # << >>
  BY <1>3, AppendProperties
<1>6. Kept' = Kept \o split_gantt_log(entry)
  BY <1>3, SurvivingGrows DEF Kept
<1>7. split_gantt_log(gantt_log') = split_gantt_log(gantt_log) \o split_gantt_log(entry)
  BY <1>2, <1>3, SplitJoin
<1>8. LogTypeOK'
  <2>1. dropped' \subseteq DOMAIN ran'
    BY <1>2, <1>3, <1>5, WiderRange
  <2> QED
    BY <1>1, <1>2, <1>4, <1>5, <2>1 DEF LogTypeOK
<1>9. InOrder'
  <2>1. Len(ran) + 1 \in LoggedUnits'
    BY <1>2, <1>3, <1>5 DEF LoggedUnits
  <2> QED
    BY <1>1, <1>5, <2>1 DEF InOrder
<1>10. LogIsKept'
  BY <1>1, <1>6, <1>7 DEF LogIsKept
<1>11. ChartIsKept' /\ LostArray'
  BY <1>9 DEF InOrder, ChartIsKept, LostArray
<1> QED
  BY <1>8, <1>9, <1>10, <1>11 DEF GanttInductive

\* A unit whose entry is lost.
LEMMA DropPreserves ==
  ASSUME GanttInductive, NEW entry \in Entries, append_gantt_entry_dropped(entry)
  PROVE  GanttInductive'
<1> USE DEF append_gantt_entry_dropped, Unit
<1>1. LogTypeOK /\ InOrder /\ LogIsKept
  BY DEF GanttInductive
<1>2. DOMAIN ran = 1 .. Len(ran) /\ Len(ran) \in Nat
  BY <1>1, LoggedTypes
<1>3. ran \in Seq(Entries) /\ dropped \in SUBSET (1 .. Len(ran))
  BY <1>1, <1>2 DEF LogTypeOK
<1>4. ran' \in Seq(Entries) /\ DOMAIN ran' = 1 .. Len(ran) + 1 /\ ran' # << >>
  BY <1>3, AppendProperties
<1>5. dropped' \subseteq DOMAIN ran'
  <2>1. dropped \subseteq 1 .. Len(ran) + 1 /\ Len(ran) + 1 \in 1 .. Len(ran) + 1
    BY <1>2, <1>3, WiderRange
  <2> QED
    BY <1>4, <2>1
<1>6. Kept' = Kept
  BY <1>3, SurvivingGrows DEF Kept
<1>7. LogTypeOK'
  BY <1>1, <1>4, <1>5 DEF LogTypeOK
<1>8. InOrder'
  <2>1. LoggedUnits' = LoggedUnits
    BY <1>2, <1>3, <1>4 DEF LoggedUnits
  <2> QED
    BY <1>1, <1>4, <2>1 DEF InOrder
<1>9. LogIsKept'
  BY <1>1, <1>6 DEF LogIsKept
<1>10. ChartIsKept' /\ LostArray'
  BY <1>8 DEF InOrder, ChartIsKept, LostArray
<1> QED
  BY <1>7, <1>8, <1>9, <1>10 DEF GanttInductive

LEMMA GanttStep ==
  ASSUME GanttInductive, [Next]_vars
  PROVE  GanttInductive'
<1> USE DEF GanttInductive
<1>1. LogTypeOK /\ InOrder /\ LogIsKept /\ ChartIsKept /\ LostArray
  OBVIOUS
<1>2. ASSUME UNCHANGED << ran, dropped >> PROVE Kept' = Kept /\ LoggedUnits' = LoggedUnits
  BY <1>2 DEF Kept, LoggedUnits
<1>3. CASE init_gantt_log
  <2>1. ran = << >> /\ dropped = {}
    BY <1>1, <1>3 DEF init_gantt_log, InOrder
  <2>2. Kept = << >> /\ Kept' = << >>
    BY <1>2, <1>3, <2>1, SurvivingNothing DEF init_gantt_log, Kept
  <2>3. << >> \in Seq(Pieces) /\ << >> # NoLog
    <3>1. << >> \in Seq(Pieces)
      BY EmptySeq
    <3> QED
      BY <1>1, <3>1, LoggedTypes
  <2>4. LogTypeOK'
    BY <1>1, <1>3, <2>3 DEF init_gantt_log, LogTypeOK, InOrder
  <2>5. InOrder'
    BY <1>1, <1>3 DEF init_gantt_log, InOrder
  <2>6. LogIsKept'
    BY <1>1, <1>3, <2>2, SplitEmpty DEF init_gantt_log, LogIsKept, InOrder
  <2>7. ChartIsKept' /\ LostArray'
    BY <2>5, <1>3 DEF init_gantt_log, InOrder, ChartIsKept, LostArray
  <2> QED
    BY <2>4, <2>5, <2>6, <2>7
<1>4. CASE \E entry \in Entries : append_gantt_entry(entry) \/ append_gantt_entry_dropped(entry)
  BY <1>4, AppendPreserves, DropPreserves
<1>5. CASE render_nothing
  <2>1. LogTypeOK' /\ InOrder'
    BY <1>1, <1>2, <1>5 DEF render_nothing, Rendered, LogTypeOK, InOrder
  <2>2. LogIsKept' /\ ChartIsKept' /\ LostArray'
    BY <1>1, <1>2, <1>5 DEF render_nothing, Rendered, LogIsKept, ChartIsKept, LostArray
  <2> QED
    BY <2>1, <2>2
<1>6. CASE render_no_entries
  <2>1. LogTypeOK' /\ InOrder'
    BY <1>1, <1>2, <1>6 DEF render_no_entries, Rendered, LogTypeOK, InOrder
  <2>2. LogIsKept' /\ ChartIsKept'
    BY <1>1, <1>2, <1>6 DEF render_no_entries, Rendered, LogIsKept, ChartIsKept
  <2>3. LoggedUnits # {} /\ Kept = << >>
    BY <1>1, <1>6 DEF render_no_entries, InOrder, LogIsKept
  <2>4. LostArray'
    BY <1>2, <1>6, <2>3 DEF render_no_entries, Rendered, LostArray
  <2> QED
    BY <2>1, <2>2, <2>4
<1>7. CASE render_gantt_chart
  <2>1. LogTypeOK' /\ InOrder'
    BY <1>1, <1>2, <1>7 DEF render_gantt_chart, Rendered, LogTypeOK, InOrder
  <2>2. LogIsKept' /\ LostArray'
    BY <1>1, <1>2, <1>7 DEF render_gantt_chart, Rendered, LogIsKept, LostArray
  <2>3. Kept' = Kept /\ Kept = split_gantt_log(gantt_log)
    BY <1>1, <1>2, <1>7 DEF render_gantt_chart, Rendered, LogIsKept
  <2>4. ChartIsKept'
    BY <1>7, <2>3 DEF render_gantt_chart, ChartIsKept
  <2> QED
    BY <2>1, <2>2, <2>4
<1>8. CASE render_crash
  <2>1. LogTypeOK' /\ InOrder'
    BY <1>1, <1>2, <1>8 DEF render_crash, LogTypeOK, InOrder
  <2>2. LogIsKept' /\ ChartIsKept' /\ LostArray'
    BY <1>1, <1>2, <1>8 DEF render_crash, LogIsKept, ChartIsKept, LostArray
  <2> QED
    BY <2>1, <2>2
<1>9. CASE cleanup_gantt_log
  <2>1. LogTypeOK' /\ InOrder'
    BY <1>1, <1>2, <1>9 DEF cleanup_gantt_log, Freed, LogTypeOK, InOrder
  <2>2. LogIsKept' /\ ChartIsKept' /\ LostArray'
    BY <1>1, <1>2, <1>9 DEF cleanup_gantt_log, Freed, LogIsKept, ChartIsKept, LostArray
  <2> QED
    BY <2>1, <2>2
<1>10. CASE UNCHANGED vars
  <2>1. LogTypeOK' /\ InOrder'
    BY <1>1, <1>2, <1>10 DEF vars, LogTypeOK, InOrder
  <2>2. LogIsKept' /\ ChartIsKept' /\ LostArray'
    BY <1>1, <1>2, <1>10 DEF vars, LogIsKept, ChartIsKept, LostArray
  <2> QED
    BY <2>1, <2>2
<1>11. CASE ended
  BY <1>10, <1>11 DEF ended
<1> QED
  BY <1>3, <1>4, <1>5, <1>6, <1>7, <1>8, <1>9, <1>10, <1>11 DEF Next

LEMMA GanttCorrect == Spec => []GanttInductive
<1>1. Init => GanttInductive
  BY GanttInit
<1>2. GanttInductive /\ [Next]_vars => GanttInductive'
  BY GanttStep
<1> QED
  BY <1>1, <1>2, PTL DEF Spec

\* The chart that is drawn, if any, is the one of the kept units.
LEMMA DrawnChart ==
  ASSUME GanttInductive, chart.mode # "none"
  PROVE  Kept \in Seq(Names) /\ Kept # << >> /\ chart = Chart(Kept)
<1>1. chart # NoChart
  BY DEF NoChart
<1> QED
  BY <1>1, LoggedTypes DEF GanttInductive, ChartIsKept
-----------------------------------------------------------------------------
(***************************************************************************)
(* Every log, block and chart is well formed, and whatever allocation      *)
(* fails, the log and its copies are free at the end: except the array of  *)
(* entries of a log of separators only (gantt.c:78).                       *)
(***************************************************************************)
THEOREM GanttSafe == Spec => []GanttInv
<1>1. GanttInductive => GanttInv
  <2> SUFFICES ASSUME GanttInductive PROVE GanttInv
    OBVIOUS
  <2>1. LogTypeOK /\ InOrder /\ ChartIsKept /\ LostArray
    BY DEF GanttInductive
  <2>2. NoLeaks
    BY <2>1 DEF NoLeaks, LogTypeOK, InOrder, LostArray
  <2>3. /\ chart.mode \in {"none", "exact", "sampled"}
        /\ chart.total \in Nat /\ chart.blocks \in Seq(Block)
    <3>1. CASE chart = NoChart
      <4>1. << >> \in Seq(Block)
        BY EmptySeq
      <4> QED
        BY <3>1, <4>1 DEF NoChart
    <3>2. CASE chart # NoChart
      <4>1. Kept \in Seq(Names) /\ Kept # << >> /\ chart = Chart(Kept)
        BY <2>1, <3>2, LoggedTypes DEF ChartIsKept
      <4>2. Len(Kept) \in Nat
        BY <4>1, LenProperties
      <4>3. CASE Len(Kept) > ExactLimit
        <5>1. chart = SampledChart(Kept)
          BY <4>1, <4>3 DEF Chart
        <5> QED
          BY <4>1, <4>2, <5>1, SampledChartIsRight
      <4>4. CASE ~(Len(Kept) > ExactLimit)
        <5>1. chart = ExactChart(Kept)
          BY <4>1, <4>4 DEF Chart
        <5> QED
          BY <4>1, <4>2, <5>1, ExactChartIsRight
      <4> QED
        BY <4>3, <4>4
    <3> QED
      BY <3>1, <3>2
  <2>4. GanttTypeOK
    BY <2>1, <2>3 DEF LogTypeOK, GanttTypeOK, Pieces
  <2> QED
    BY <2>2, <2>4 DEF GanttInv
<1> QED
  BY <1>1, GanttCorrect, PTL

\* Which of the two charts is drawn.
LEMMA ModeOfChart ==
  ASSUME GanttInductive
  PROVE  /\ chart.mode = "exact" =>
              /\ Kept \in Seq(Names) /\ Kept # << >> /\ Len(Kept) <= ExactLimit
              /\ chart = ExactChart(Kept)
         /\ chart.mode = "sampled" =>
              Kept \in Seq(Names) /\ Kept # << >> /\ chart = SampledChart(Kept)
<1> SUFFICES ASSUME chart.mode \in {"exact", "sampled"}
             PROVE  /\ Kept \in Seq(Names) /\ Kept # << >>
                    /\ chart.mode = "exact" => Len(Kept) <= ExactLimit /\ chart = ExactChart(Kept)
                    /\ chart.mode = "sampled" => chart = SampledChart(Kept)
  OBVIOUS
<1>1. Kept \in Seq(Names) /\ Kept # << >> /\ chart = Chart(Kept)
  BY DrawnChart
<1>2. Len(Kept) \in Nat /\ ExactLimit \in Nat
  BY <1>1, LenProperties, GanttAssumption DEF GanttAssumption
<1>3. CASE Len(Kept) > ExactLimit
  <2>1. chart = SampledChart(Kept)
    BY <1>1, <1>3 DEF Chart
  <2>2. chart.mode = "sampled"
    BY <2>1 DEF SampledChart
  <2> QED
    BY <1>1, <2>1, <2>2
<1>4. CASE Len(Kept) <= ExactLimit
  <2>1. chart = ExactChart(Kept)
    BY <1>1, <1>2, <1>4 DEF Chart
  <2>2. chart.mode = "exact"
    BY <2>1 DEF ExactChart
  <2> QED
    BY <1>1, <1>4, <2>1, <2>2
<1> QED
  BY <1>2, <1>3, <1>4

(***************************************************************************)
(* An exact chart is the run: its blocks tile the units whose entry was    *)
(* kept, and each names the process that held the CPU in all of its units, *)
(* in every run and whatever reallocations fail (gantt.c:163-199); there   *)
(* is one entry for each such unit when no name contains a '|'.            *)
(***************************************************************************)
THEOREM ExactChart_IsTheRun == Spec => []ExactChartIsTheRun
<1>1. GanttInductive => ExactChartIsTheRun
  <2> SUFFICES ASSUME GanttInductive, chart.mode = "exact"
               PROVE  /\ chart.total = Len(Kept) /\ BlocksTile
                      /\ (\A t \in LoggedUnits : Len(ran[t]) = 1) =>
                           chart.total = Cardinality(LoggedUnits)
                      /\ \A i \in DOMAIN chart.blocks : \A t \in Covered(i) :
                           Kept[t] = chart.blocks[i].pid
    BY DEF ExactChartIsTheRun
  <2>1. Kept \in Seq(Names) /\ Kept # << >> /\ chart = ExactChart(Kept)
    BY ModeOfChart
  <2>2. /\ chart.total = Len(Kept) /\ BlocksTile
        /\ \A i \in DOMAIN chart.blocks : \A t \in Covered(i) :
             Kept[t] = chart.blocks[i].pid
    BY <2>1, ExactChartIsRight
  <2>3. ASSUME \A t \in LoggedUnits : Len(ran[t]) = 1
        PROVE  Len(Kept) = Cardinality(LoggedUnits)
    <3>1. ran \in Seq(Entries)
      BY DEF GanttInductive, LogTypeOK
    <3> QED
      BY <2>3, <3>1, SurvivingWhole DEF Kept, LoggedUnits
  <2> QED
    BY <2>2, <2>3
<1> QED
  BY <1>1, GanttCorrect, PTL

(***************************************************************************)
(* The blocks of a sampled chart tile the kept units, name the process     *)
(* that held the CPU wherever the log was sampled, and fit the arrays that *)
(* were allocated before they were counted (gantt.c:88-129), for every     *)
(* size of the chunks.                                                     *)
(***************************************************************************)
THEOREM SampledChart_IsRight == Spec => []SampledChartIsRightAtSamples
<1>1. GanttInductive => SampledChartIsRightAtSamples
  <2> SUFFICES ASSUME GanttInductive, chart.mode = "sampled"
               PROVE  /\ chart.total = Len(Kept)
                      /\ Len(chart.blocks) <= max_blocks(chart.total)
                      /\ BlocksTile
                      /\ \A i \in DOMAIN chart.blocks : \A t \in Covered(i) :
                           (t - 1) % ChunkSize = 0 => Kept[t] = chart.blocks[i].pid
    BY DEF SampledChartIsRightAtSamples
  <2>1. Kept \in Seq(Names) /\ Kept # << >> /\ chart = SampledChart(Kept)
    BY ModeOfChart
  <2> QED
    BY <2>1, SampledChartIsRight
<1> QED
  BY <1>1, GanttCorrect, PTL

(***************************************************************************)
(* The end times of an exact chart stand under the bars that close their   *)
(* blocks, when every label fits: the two loops that place them count the  *)
(* same columns, as no time of an exact chart has more digits than the     *)
(* narrowest block has columns (gantt.c:219-262).                          *)
(***************************************************************************)
THEOREM TimesStandUnderBars == Spec => []TimesUnderBars
<1>1. GanttInductive => TimesUnderBars
  <2> SUFFICES ASSUME GanttInductive PROVE TimesUnderBars
    OBVIOUS
  <2>1. CASE chart.mode = "exact"
    <3>1. Kept \in Seq(Names) /\ Kept # << >> /\ Len(Kept) <= ExactLimit /\ chart = ExactChart(Kept)
      BY <2>1, ModeOfChart
    <3> QED
      BY <3>1, TimesMeetBars
  <2>2. CASE chart.mode # "exact"
    BY <2>2 DEF TimesUnderBars
  <2> QED
    BY <2>1, <2>2
<1> QED
  BY <1>1, GanttCorrect, PTL
=============================================================================
