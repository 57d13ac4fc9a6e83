-------------------------------- MODULE Cli --------------------------------
(***************************************************************************)
(* The command line.  In measuring mode flags are validated, the selected  *)
(* benchmarks measured one after the other, single-threaded and then       *)
(* multi-threaded, and the results scored and written to stdout; in stress *)
(* mode the flags become the configuration of one stress run.              *)
(*                                                                         *)
(* Of runner.Run only what it returns is here, module Runner has the rest: *)
(* a machine has what it returns for each benchmark and mode (perf), and   *)
(* what detectCPUModel reads (host).  Module Stress has stress.Run.        *)
(***************************************************************************)
EXTENDS Output, StressConfig

CONSTANTS
    Commands,     \* the command lines
    Machines,
    IntMiB        \* how many MiB an int can tell apart: 2^44 with 64 bits

Measurement == [ops : Nat, median : Nat, p99 : Nat]

\* Without samples a call has no statistics and no throughput, with them it
\* has: an iteration takes some time, but not so long that its rate is zero.
Plausible(r) == r.median <= r.p99 /\ (r.ops = 0 <=> r.median = 0) /\ (r.ops = 0 => r.p99 = 0)

Host == [os : STRING, board : STRING, cpuinfo : Seq(STRING \X STRING)]

ASSUME CliAssumption ==
    /\ Commands \subseteq
          [duration : Int, warmup : Int, threads : Int, size : STRING,
           output : STRING, profile : STRING, benchmarks : Seq(STRING),
           stress : BOOLEAN, stressDuration : Int, stressCPU : Int,
           stressMem : Int, stressMemMiB : Int]
    /\ Machines \subseteq [perf : [Names -> [Modes -> Measurement]], host : Host]
    /\ \A m \in Machines, b \in Names, mode \in Modes : Plausible(m.perf[b][mode])
    /\ IntMiB \in Nat \ {0}

VARIABLES
    pc,         \* "flags", "st", "mt", "table", "json", "stress" or "exit"
    flags,
    machine,
    rest,       \* the entries of selected that are still to be measured
    st, mt,     \* stResults and mtResults
    score,      \* scoring.Result, or <<>> before
    stdout,     \* what was written: "table" with its rows, "json" with its raw block
    load,       \* the stress run, or <<>>
    status      \* of the process: 0, 1 after fail, 2 when it was killed

input   == <<flags, machine>>
results == <<st, mt, score>>
vars == <<pc, input, rest, results, stdout, load, status>>

Registry == <<"primes", "sorting", "matrix_int", "matrix_float",
              "hashing", "json", "php_like", "apache_like">>

Init ==
    /\ pc = "flags"
    /\ flags \in Commands
    /\ machine \in Machines
    /\ rest = <<>>
    /\ st = <<>>
    /\ mt = <<>>
    /\ score = <<>>
    /\ stdout = <<>>
    /\ load = <<>>
    /\ status = 0
-----------------------------------------------------------------------------
(* Flags.                                                                  *)

\* The names of --benchmarks, which was split at its commas; empty ones are
\* skipped.
Wanted(tokens) == {tokens[k] : k \in DOMAIN tokens} \ {""}

Everything(tokens) == tokens \in {<<"">>, <<"all">>}

\* resolveBenchmarks finds no error.
Resolvable(tokens) ==
    Everything(tokens) \/ (Wanted(tokens) # {} /\ Wanted(tokens) \subseteq Names)

\* Mutant: the benchmarks are run as they were typed.
SelectedAsTyped(tokens) ==
    IF Everything(tokens) THEN Registry
                          ELSE SelectSeq(tokens, LAMBDA token : token # "")

\* What resolveBenchmarks returns: in the registry's order, each once.
Selected(tokens) ==
    IF Everything(tokens) THEN Registry ELSE Filtered(Registry, Wanted(tokens))

\* Mutant: the profile is first looked at by scoring.
ProfileUnchecked(profile) == TRUE

ProfileChecked(profile) == profile \in Profiles

ValidStress == flags.stressDuration >= 0 /\ flags.stressMemMiB > 0

ValidMeasuring ==
    /\ flags.duration > 0
    /\ flags.warmup > 0
    /\ flags.threads >= 0
    /\ flags.size \in {"small", "medium", "large"}
    /\ flags.output \in {"table", "json", "both"}
    /\ ProfileChecked(flags.profile)
    /\ Resolvable(flags.benchmarks)

RunMT == flags.threads # 1

Reject ==
    /\ pc = "flags"
    /\ ~IF flags.stress THEN ValidStress ELSE ValidMeasuring
    /\ status' = 1
    /\ pc' = "exit"
    /\ UNCHANGED <<input, rest, results, stdout, load>>

Accept ==
    /\ pc = "flags"
    /\ ~flags.stress /\ ValidMeasuring
    /\ rest' = Selected(flags.benchmarks)
    /\ pc' = "st"
    /\ UNCHANGED <<input, results, stdout, load, status>>
-----------------------------------------------------------------------------
(* Stress mode.                                                            *)

\* Mutant: -1 is handed on as a number of workers.
NeverDisabled == FALSE

DisableMem == flags.stressMem < 0

\* m << 20 in an int, in MiB.
Shifted(m) == IF m % IntMiB < IntMiB \div 2 THEN m % IntMiB ELSE (m % IntMiB) - IntMiB

\* runStress: stress.Run is called, and SIGINT no longer kills the process.
StartStress ==
    /\ pc = "flags"
    /\ flags.stress /\ ValidStress
    /\ load' = Resolve([duration |-> flags.stressDuration, cpu |-> flags.stressCPU,
                        mem |-> IF DisableMem THEN 0 ELSE flags.stressMem,
                        mib |-> Shifted(flags.stressMemMiB), disableMem |-> DisableMem,
                        interval |-> 0, status |-> TRUE])
    /\ pc' = "stress"
    /\ UNCHANGED <<input, rest, results, stdout, status>>

\* stress.Run returns, after its Duration or after a signal.
StressEnds ==
    /\ pc = "stress"
    /\ pc' = "exit"
    /\ UNCHANGED <<input, rest, results, stdout, load, status>>
-----------------------------------------------------------------------------
(* Measuring.                                                              *)

\* What runner.Run returns for the next benchmark.
Result(mode) ==
    LET m == machine.perf[Head(rest)][mode]
    IN  [name |-> Head(rest), ops |-> m.ops, median |-> m.median, p99 |-> m.p99]

MeasureST ==
    /\ pc = "st"
    /\ rest # <<>>
    /\ st' = Append(st, Result("st"))
    /\ IF RunMT THEN pc' = "mt" /\ rest' = rest
                ELSE pc' = "st" /\ rest' = Tail(rest)
    /\ UNCHANGED <<input, mt, score, stdout, load, status>>

MeasureMT ==
    /\ pc = "mt"
    /\ mt' = Append(mt, Result("mt"))
    /\ rest' = Tail(rest)
    /\ pc' = "st"
    /\ UNCHANGED <<input, st, score, stdout, load, status>>

\* The switch over the output format.
AfterScore == IF flags.output = "json" THEN "json" ELSE "table"

\* scoring.Score, which fails for a profile it does not know.
ComputeScore ==
    /\ pc = "st"
    /\ rest = <<>>
    /\ IF flags.profile \in Profiles
       THEN /\ score' = Score(st, mt, flags.profile)
            /\ pc' = AfterScore
            /\ status' = status
       ELSE /\ score' = score
            /\ pc' = "exit"
            /\ status' = 1
    /\ UNCHANGED <<input, rest, st, mt, stdout, load>>
-----------------------------------------------------------------------------
(* Output.                                                                 *)

Written(kind, content) ==
    Append(stdout, [kind |-> kind, content |-> content, cpu |-> DetectCPUModel(machine.host)])

\* RenderTable; that its writes may fail goes unnoticed.
RenderTable ==
    /\ pc = "table"
    /\ stdout' \in {stdout, Written("table", Rows(score, st))}
    /\ pc' = IF flags.output = "both" THEN "json" ELSE "exit"
    /\ UNCHANGED <<input, rest, results, load, status>>

\* emitJSON; the write to stdout may fail.
EmitJSON ==
    /\ pc = "json"
    /\ pc' = "exit"
    /\ \/ /\ stdout' = Written("json", Raw(st, mt))
          /\ status' = status
       \/ /\ stdout' = stdout
          /\ status' = 1
    /\ UNCHANGED <<input, rest, results, load>>

\* Ctrl-C: nothing catches the signal outside of the stress run.
Interrupt ==
    /\ pc \notin {"stress", "exit"}
    /\ pc' = "exit"
    /\ status' = 2
    /\ UNCHANGED <<input, rest, results, stdout, load>>

Terminated == pc = "exit" /\ UNCHANGED vars

Next ==
    \/ Reject \/ Accept
    \/ StartStress \/ StressEnds
    \/ MeasureST \/ MeasureMT \/ ComputeScore
    \/ RenderTable \/ EmitJSON
    \/ Interrupt
    \/ Terminated

Spec == Init /\ [][Next]_vars
-----------------------------------------------------------------------------
(* Properties.                                                             *)

Succeeded == pc = "exit" /\ status = 0 /\ ~flags.stress

Kinds == [k \in DOMAIN stdout |-> stdout[k].kind]

Scored == score # <<>>

\* The type invariant.
TypeOK ==
    /\ pc \in {"flags", "st", "mt", "table", "json", "stress", "exit"}
    /\ flags \in Commands
    /\ machine \in Machines
    /\ \A rs \in {st, mt} : \A k \in DOMAIN rs : rs[k].name \in Names
    /\ Len(rest) + Len(st) <= 9 /\ Len(mt) <= Len(st)
    /\ Scored => /\ score.profile \in Profiles \ {""}
                 /\ \A mode \in Modes : score[mode].total \in Nat
    /\ \A k \in DOMAIN Kinds : Kinds[k] \in {"table", "json"}
    /\ load # <<>> => /\ {load.cpu, load.mib} \subseteq Nat \ {0}
                      /\ load.mem \in Nat
    /\ status \in 0 .. 2

\* Measuring takes minutes: once it has begun, the process fails for nothing
\* that the flags could have told.
FailsEarly == [][st # <<>> /\ status' = 1 => pc = "json" \/ status = 1]_vars

\* Each selected benchmark is measured once in each mode, in the order of the
\* registry, however often and in whatever order it was named.
MeasuredOnce ==
    Succeeded =>
        /\ \A j, k \in DOMAIN st : j < k =>
              \E p, q \in DOMAIN Registry :
                 p < q /\ Registry[p] = st[j].name /\ Registry[q] = st[k].name
        /\ {st[k].name : k \in DOMAIN st} =
              IF Everything(flags.benchmarks) THEN Names ELSE Wanted(flags.benchmarks)
        /\ [k \in DOMAIN mt |-> mt[k].name] =
              IF flags.threads = 1 THEN <<>> ELSE [k \in DOMAIN st |-> st[k].name]

\* The exit status is the document's: a process that succeeds has written it
\* if it was asked to, with every run under a key of its own, after the table
\* and nothing else; one that fails has not.  The table has no such promise.
RawHasEveryRun(raw) ==
    /\ Cardinality(DOMAIN raw) = Len(st) + Len(mt)
    /\ {raw[key] : key \in DOMAIN raw} = {st[r] : r \in DOMAIN st} \cup {mt[r] : r \in DOMAIN mt}

AllOrNothing ==
    /\ Succeeded =>
          Kinds \in CASE flags.output = "table" -> {<<>>, <<"table">>}
                      [] flags.output = "json"  -> {<<"json">>}
                      [] flags.output = "both"  -> {<<"json">>, <<"table", "json">>}
    /\ \A k \in DOMAIN stdout :
          Kinds[k] = "json" => status # 1 /\ RawHasEveryRun(stdout[k].content)

\* A benchmark that gets faster raises the total, whichever it is and whether
\* it gets faster in throughput, by any amount, or halves its P99: each of
\* them counts, and counts the right way round.  (The gain of a P99 above a
\* thousand times that of the reference may be less than a part of a point.)
Better(rs, k) ==
    {[rs EXCEPT ![k].ops = @ + 1]} \cup
    (IF rs[k].p99 \in 2 .. 1000 * Reference[rs[k].name]["st"].p99
     THEN {[rs EXCEPT ![k].p99 = @ \div 2]} ELSE {})

FasterScoresHigher ==
    Scored /\ pc # "exit" =>
        \A k \in DOMAIN st : \A better \in Better(st, k) :
            ComputeMode(better, "st", WeightsFor(flags.profile)).total > score.st.total

\* The table's timings belong to its scores: a row has a dash for its P99 just
\* where its score is zero, and no median then; a median is no higher than the
\* P99 next to it.
RowsBelongTogether ==
    \A k \in DOMAIN stdout : stdout[k].kind = "table" =>
        \A c \in Category \ {"latency"} : LET row == stdout[k].content[c] IN
            /\ row.p99 = Dash <=> row.st = 0
            /\ row.p99 = Dash => row.median = Dash
            /\ Timings(c, st).median <= Timings(c, st).p99

\* Where the CPU has no model name, table and document count its cores: each
\* block of cpuinfo that describes one counts once, under its own kind, and
\* the kinds come in the order in which they first appear.
Block(cpuinfo, p) == {q \in p .. Len(cpuinfo) : \A r \in p .. q : cpuinfo[r] # EmptyLine}

Says(cpuinfo, p, key) ==
    LET Lines == {q \in Block(cpuinfo, p) : cpuinfo[q][1] = key}
    IN  IF Lines = {} THEN "" ELSE cpuinfo[Max(Lines)][2]

CoreAt(cpuinfo, p) ==
    [impl |-> Says(cpuinfo, p, "CPU implementer"), part |-> Says(cpuinfo, p, "CPU part")]

Starts(cpuinfo) == {p \in DOMAIN cpuinfo : p = 1 \/ cpuinfo[p - 1] = EmptyLine}

\* The cores, by the lines at which their blocks start.
Cores(cpuinfo) ==
    [p \in {p \in Starts(cpuinfo) : CoreAt(cpuinfo, p).impl # "" /\ CoreAt(cpuinfo, p).part # ""} |->
        CoreAt(cpuinfo, p)]

CoresCounted ==
    LET cores    == Cores(machine.host.cpuinfo)
        Of(kind) == {p \in DOMAIN cores : cores[p] = kind}
    IN  machine.host.os = "linux" /\ LinuxCPUModel(machine.host.cpuinfo) = "" =>
        \A k \in DOMAIN stdout : LET shown == stdout[k].cpu.cores IN
            \E kinds \in [DOMAIN shown -> Range(cores)] :
                /\ Range(kinds) = Range(cores)
                /\ \A j \in DOMAIN shown :
                      shown[j] = [count |-> Cardinality(Of(kinds[j])), core |-> ArmCoreName(kinds[j])]
                /\ \A i, j \in DOMAIN shown : i < j => Min(Of(kinds[i])) < Min(Of(kinds[j]))

\* TestReferenceMachineScoresExactly1000, for every profile: the reference
\* machine scores 1000 in each category and in total if it runs everything.
AsReference(rs, mode) ==
    rs # <<>> /\ \A k \in DOMAIN rs :
        /\ rs[k].ops = Reference[rs[k].name][mode].ops
        /\ rs[k].p99 = Reference[rs[k].name][mode].p99

Scores1000(m) ==
    /\ \A c \in Category : m.scores[c] = 1000 * Point
    /\ m.total = 1000 * 100 * Point
    /\ m.label = "Referenz"

ReferenceScores1000 ==
    Scored => /\ AsReference(st, "st") /\ Len(st) = 8 => Scores1000(score.st)
              /\ AsReference(mt, "mt") /\ Len(mt) = 8 => Scores1000(score.mt)

\* Stress mode does what its flags say: "0 = NumCPU", "0 = NumCPU/2, -1 =
\* disable" (one worker with one processor), and the memory asked for unless
\* its bytes do not fit in an int.  It measures nothing, writes nothing to
\* stdout, and Ctrl-C ends it with its summary.
StressAsAsked ==
    load # <<>> =>
        /\ flags.stress
        /\ load.duration = flags.stressDuration
        /\ flags.stressCPU >= 0 =>
              load.cpu = IF flags.stressCPU = 0 THEN NumCPU ELSE flags.stressCPU
        /\ flags.stressMem >= -1 =>
              load.mem = CASE flags.stressMem = -1 -> 0
                           [] flags.stressMem = 0  -> Max({1, NumCPU \div 2})
                           [] flags.stressMem > 0  -> flags.stressMem
        /\ flags.stressMemMiB < IntMiB \div 2 => load.mib = flags.stressMemMiB
        /\ st = <<>> /\ mt = <<>> /\ stdout = <<>>
        /\ status = 0

\* The line under the table, "Referenz: Apple M3 Pro - Score 1000": the
\* reference machine has a total of 1000.
ReferenceTotal1000 ==
    Scored /\ AsReference(st, "st") => score.st.total = 1000 * 100 * Point

\* formatDuration says that it trims trailing zero fractions and noise: what
\* is left of a timing has its unit still.
TimingsLegible ==
    \A k \in DOMAIN stdout : stdout[k].kind = "table" =>
        \A c \in Category : LET row == stdout[k].content[c] IN
            \A timing \in {row.median, row.p99} :
                timing = Dash \/ Last(timing) \in {"ms", "s"}
=============================================================================
