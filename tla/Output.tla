------------------------------- MODULE Output -------------------------------
(***************************************************************************)
(* The output package: what the table and the document show of a score, of *)
(* the measurements behind it and of the machine.  A text that a property  *)
(* looks at is the sequence of its characters, with a fraction as one.     *)
(***************************************************************************)
EXTENDS Scoring, SequencesExt, Collections

CONSTANT Second        \* timings are whole numbers of parts of a second

ASSUME OutputAssumption == Second \in Nat \ {0}
-----------------------------------------------------------------------------
(* The table.                                                              *)

\* Position k, counted from 0, of the values in order.
Ordered(values, k) ==
    Min({values[b] : b \in {b \in DOMAIN values :
            Cardinality({c \in DOMAIN values : values[c] <= values[b]}) > k}})

\* The upper of two middle values, 0 without any.
MedianOfMedians(names, byName) ==
    LET medians == [b \in names \cap DOMAIN byName |-> byName[b].median]
        len     == Cardinality(DOMAIN medians)
    IN  IF len = 0 THEN 0 ELSE Ordered(medians, len \div 2)

MaxP99(names, byName) == Max({0} \cup {byName[b].p99 : b \in names \cap DOMAIN byName})

Dash == <<"-">>

Digit(n) == <<"0", "1", "2", "3", "4", "5", "6", "7", "8", "9">>[n + 1]

Digits(n) == IF n < 10 THEN <<Digit(n)>> ELSE <<Digit(n \div 10), Digit(n % 10)>>

\* time.Duration.String for less than an hour: below a second a number with
\* its unit, ms and the like as one character; from there on minutes if there
\* are any, seconds, and a fraction without zeros at its end.
DurationString(t) ==
    LET minutes  == t \div (60 * Second)
        seconds  == (t \div Second) % 60
        fraction == t % Second
    IN  IF t < Second THEN <<ToString(t), "ms">>
        ELSE (IF minutes > 0 THEN Digits(minutes) \o <<"m">> ELSE <<>>)
             \o Digits(seconds)
             \o (IF fraction > 0 THEN <<".", ToString(fraction)>> ELSE <<>>)
             \o <<"s">>

TrimSuffix(s, suffix) == IF IsSuffix(suffix, s) THEN SubSeq(s, 1, Len(s) - Len(suffix)) ELSE s

FormatDuration(t) == IF t <= 0 THEN Dash ELSE TrimSuffix(DurationString(t), <<"0", "s">>)

\* The timings of a row, of the single-threaded runs.
Timings(c, st) ==
    [median |-> MedianOfMedians(BenchmarksFor(c), ByName(st)),
     p99    |-> MaxP99(BenchmarksFor(c), ByName(st))]

\* The rows of the table.
Rows(score, st) ==
    [c \in Category |->
        [st |-> score.st.scores[c], mt |-> score.mt.scores[c],
         median |-> IF c = "latency" THEN Dash ELSE FormatDuration(Timings(c, st).median),
         p99    |-> IF c = "latency" THEN Dash ELSE FormatDuration(Timings(c, st).p99)]]
-----------------------------------------------------------------------------
(* The document.                                                           *)

\* Mutant: both modes under one key.
KeyOfName(name, mode) == <<name, "st">>

\* r.Name+"_st" or r.Name+"_mt"
Key(name, mode) == <<name, mode>>

\* The raw block of BuildDocument: MT results are stored after ST results.
Raw(st, mt) ==
    LET Entries(rs, mode) ==
            [key \in {Key(rs[k].name, mode) : k \in DOMAIN rs} |-> ByName(rs)[key[1]]]
    IN  Stored(Entries(st, "st"), Entries(mt, "mt"))
-----------------------------------------------------------------------------
(* The machine.  A line of /proc/cpuinfo is its key and its value, or empty. *)

EmptyLine == <<"", "">>

NoCore == [impl |-> "", part |-> ""]

\* ARM's own cores have a name; of the twenty that the code lists, two.
ArmCoreName(core) ==
    CASE core = [impl |-> "0x41", part |-> "0xd05"] -> <<"Cortex-A55">>
      [] core = [impl |-> "0x41", part |-> "0xd0b"] -> <<"Cortex-A76">>
      [] core.impl = "0x41" /\ core.part \notin {"0xd05", "0xd0b"} -> <<"ARM", core.part>>
      [] OTHER -> <<core.impl, core.part>>

\* Mutant: what a block does not say is taken from the block before.
KeptCore(core) == core

\* cur = key{}
NextCore(core) == NoCore

\* A block ends: its core is counted if it is complete.
Flushed(s) ==
    LET seen == s.cur \in DOMAIN s.counts IN
    IF s.cur.impl = "" \/ s.cur.part = ""
    THEN s
    ELSE [s EXCEPT !.order = IF seen THEN @ ELSE Append(@, s.cur),
                   !.counts = Stored(@, [core \in {s.cur} |-> IF seen THEN @[core] + 1 ELSE 1])]

ScanLine(s, line) ==
    CASE line = EmptyLine -> [Flushed(s) EXCEPT !.cur = NextCore(@)]
      [] line[1] = "CPU implementer" -> [s EXCEPT !.cur.impl = line[2]]
      [] line[1] = "CPU part" -> [s EXCEPT !.cur.part = line[2]]
      [] OTHER -> s

\* summarizeARMTopology: how many there are of each kind of core.
Topology(cpuinfo) ==
    LET scanned == Flushed(FoldLeft(ScanLine, [cur |-> NoCore, order |-> <<>>, counts |-> <<>>], cpuinfo))
    IN  [k \in DOMAIN scanned.order |->
            [count |-> scanned.counts[scanned.order[k]], core |-> ArmCoreName(scanned.order[k])]]

\* The value of the first "model name", "" without any.
LinuxCPUModel(cpuinfo) ==
    LET Named == {k \in DOMAIN cpuinfo : cpuinfo[k][1] = "model name"}
    IN  IF Named = {} THEN "" ELSE cpuinfo[Min(Named)][2]

\* The model of the CPU, or the board with its cores, or either of them.
DetectCPUModel(host) ==
    LET name == LinuxCPUModel(host.cpuinfo)
        topo == Topology(host.cpuinfo)
    IN  CASE host.os # "linux" -> [name |-> "unknown", cores |-> <<>>]
          [] host.os = "linux" /\ name # "" -> [name |-> name, cores |-> <<>>]
          [] host.os = "linux" /\ name = "" /\ (host.board # "" \/ topo # <<>>) ->
                [name |-> host.board, cores |-> topo]
          [] OTHER -> [name |-> "unknown", cores |-> <<>>]
=============================================================================
