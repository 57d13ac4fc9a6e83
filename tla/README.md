# A TLA+ model of cpu_bench_go

This directory holds a specification of `cpu_bench_go`, a CPU benchmark written
in Go: TLA+ modules translated from its source, TLC configurations that check
them on small instances, and theorems that TLAPS proves for every value of the
constants. `PROJECT.json` is the index: components, runs, the source lines each
definition stands for, hazards, findings, theorems.

## 1. The system

`main.go` reads flags and either measures (`runner`, `results`, `scoring`,
`output`) or heats the machine (`stress`).

| Component | State | Operations | Talks to |
|---|---|---|---|
| `runner/` | instances and their scratch buffers, one WaitGroup per phase, a deadline per phase, `perG`, `firsts`, the package variable `sink`, GOMAXPROCS | `Run`, `measureLoop`, `finalize` | a `Benchmark` per goroutine through a factory; `results.Compute`; called by `main.go` once (ST) or twice (ST, MT) per benchmark |
| `results/` | none | `Compute`, `percentile` | called by `finalize` |
| `stress/` | context, stop flag, two atomic counters, two WaitGroups, a ticker, GOMAXPROCS | `Run`, its watcher, reporter and workers | cancelled by a signal through `main.go`; writes status lines |
| `benchmarks/` | scratch buffers, expected results | `Setup`, `Run`, `Verify` of eight kernels | called by `runner` |
| `scoring/` | reference values | `Score`, `WeightsFor`, `Label`, `BenchmarksFor` | reads the results of all runs |
| `output/` | none | `RenderTable`, `BuildDocument`, CPU detection | reads score and results |
| `main.go` | flags | validation, selection, the loop over benchmarks, stress mode | all of the above |
| `scripts/`, `.github/`, `dev-plan/` | files, network | installer, CI, design document | - |

What is hard, and what makes each part correct:

* **runner.** Goroutines of two phases work on the same instances; a result is a
  slice of an instance's scratch buffer; the goroutines hand over samples and
  results through slices that only `wg.Wait` protects; the warm-up goroutines race
  on `sink`; a deadline passes while an iteration runs. Correct means: the phases
  do not overlap, nobody writes to what was handed over, every sample taken is
  returned once, samples lie in the window, at most one per goroutine ends late,
  the verdict is about a result that is still there, GOMAXPROCS is put back, and
  every call returns.
* **results.** Percentiles are indices computed with a floor: correct means they
  have the rank they are named for and go with the samples.
* **stress.** A flag polled between batches, a timeout that may fire during the
  set-up, a reporter in a `select` with two ready cases, counters read by three
  parties. Correct means: it ends when it should and not before, leaves nothing
  running, counts every batch, and its figures are coherent.
* **scoring, output, main.go.** Sequential, in one long pipeline with boundaries:
  half-open label bounds, categories without benchmarks, lists of names kept in two
  places, failures after minutes of measuring, flag arithmetic, a scanner whose last
  block may lack its end. Correct means: what is selected is measured once per mode,
  every benchmark counts and the right way round, table and document show what was
  measured and on which cores, the exit status is true, and a stress run is the one
  that was asked for.
* **benchmarks.** Scratch that is reused between iterations and between the requests
  of one iteration, maps that are visited in any order, checksums computed by the code
  they check, a quicksort with a cutoff. Correct means: every `Run` ends and returns the
  right result, the tenth like the first; for the sort also indices inside the array and
  a logarithmic depth of recursion.

## 2. The modules

| Module | What it is |
|---|---|
| `Tally` | Abstract: a call opens, counts units of work one at a time, and closes with exactly that count. |
| `Results` | `Compute` and `percentile` as operators over a finite function of latencies. |
| `Runner` | One call of `runner.Run` after the other; every goroutine interleaved with the others and with the clock. |
| `RunnerProofs`, `StressProofs`, `SortingProofs`, `KernelsProofs`, `CliProofs` | Theorems about `Runner`, `Stress`, `Sorting`, `Kernels` (and with it the five kernels) and `Cli` (with `Scoring` and `Output`). |
| `ResultsProofs`, `MCResultsProofs` | Lemmas about `Compute` and `percentile`, used by `RunnerProofs` too, and the theorem about the slices that `MCResults` builds. |
| `Basics` | What the proofs need to know about numbers, finite sums, ranks and filtered slices. |
| `Stress` | One call of `stress.Run`. |
| `Sorting` | The quicksort of the sorting benchmark, one round of each loop at a time. |
| `Kernel` | Abstract: a benchmark that is run again and again ends each `Run` with the right result. |
| `Primes`, `Matrix`, `Json`, `PhpLike`, `ApacheLike` | `Setup` and `Run` of a benchmark, with the scratch of its instance, and a reference definition of its result. |
| `Kernels` | The five of them behind the interface the runner uses; implements `Kernel`. |
| `Collections` | Storing into a map and filtering a slice, as Go does it. |
| `Scoring` | The scoring package as operators in fixed-point arithmetic. |
| `Output` | What table and document show, as operators; extends `Scoring`. |
| `StressConfig` | The defaults of `stress.Run`, used by `Stress` and `Cli`. |
| `Cli` | `main.go` in both modes, from the flags to the exit status; extends `Output` and `StressConfig`. |
| `MCRunner`, `MCResults`, `MCStress`, `MCKernels`, `MCCli` | Instances for TLC. `MCResults` also has the driver that builds the slices `Compute` is checked on. `Sorting` needs none: its constants are numbers and sets of them. |

Definitions that a comment marks *Mutant* are variants of a definition below them,
with a plausible bug; `PROJECT.json` says which property each of them breaks. No
specification uses them.

### Runner and the code

`pc` is where `Run` is: `warm` from the call to `warmWg.Wait` (runner.go:99), `gc`
until the measuring goroutines are started, `measure` until `wg.Wait` returns (118).
`wpc[w]` is where goroutine `w` is: at the loop condition (`warm`, `check`), inside
`b.Run()` (`warmRun`, `run`), between the two stores to `sink` (`typeLeft`,
`dataLeft`), before `t0` is read (`timing`), about to store `perG[i]` (`publish`),
about to call `Done` (`release`), or not there (`off`).

* A call with one thread runs its loops on the caller (61-78). That is the machine
  with one worker whose end the caller waits for; the WaitGroup stands for the
  sequence of the statements then.
* A benchmark is its type (`Benchmarks`), and an instance is its scratch:
  `setup`, `partial` while a `Run` is inside it, `result` afterwards. A result is a
  reference to the instance, because `sorting` and `matrix` return slices of their
  scratch (sorting.go:43, matrix.go:42, 125); `Verify` looks at what the scratch
  holds when it is called. A benchmark that is wrong in itself is not modelled: its
  results verify exactly while they are intact.
* `sink = b.Run()` stores the two words of an interface without synchronisation.
  `WarmEnd` stores either of them first and `WarmStore` the other, so that the
  mixtures a build can produce are states of the model.
* `clock` is the time since the phase started, in units that make the durations
  small integers. Any number of steps may be taken without the clock moving, and
  the clock may move between any two steps.
* `Finalize` is the code after `wg.Wait`: it runs on the caller alone, touches
  nothing a goroutine could still reach, and is one action; slices that end their
  scope there are reset. `OpsPerSec`, `Name` and `Tags` are left out.

### Stress and the code

`pc` is where `stress.Run` is: `alloc` while the buffers are allocated and touched
(stress.go:101-110), `start` before `time.Now()` (120), `wait` in `wg.Wait` (147),
`statusWait` in `statusWg.Wait` (149). The CPU workers are started by `Call`, the
memory workers by `StartMemWorkers`, so that the context may be done in between.
`wpc[w]` is a worker at its loop condition or in a batch; a batch of 16384 rounds
(173-193) and a pass over a buffer (215-226) are a unit each of `cpuOps` and
`memBytes`. `done` is `runCtx.Done()`, raised by `Cancel` (the signal of
`main.go:255`), `Expire` (the timeout) or `Return` (the deferred `cancel`). The
reporter loads the two counters in two steps and its `select` takes either case
when both are ready. The channel of a ticker holds one tick.

### Sorting and the code

`lo` and `hi` are the range of the current call of `quicksort`. A recursive call
(sorting.go:76, 79) pushes the range its caller goes on with after it, and `Return`
pops it; the loop over the larger part is the same step without a call. `Scan` is a
round of the partition (67-72), `Insert` a round of `insertionSort`'s outer loop, whose
inner loop is the operator `Inserted`. `Init` chooses the array: the code fills it with
random numbers.

### Kernels and the code

`inst` is the instance, with its fields and the loop variables of `Run` in a record; `pc`
is "idle" between two Runs. The benchmarks have no variables in common, so `Kernels`
lends its own to the module of the one it runs, by `INSTANCE`.

* A round of a loop is one step: `Mark` is a round of the sieve's outer loop, `AddRow` of
  the two outer loops of the product, `DecodeOne` an element of the JSON array,
  `ParseHeader` a header line. `php_like` takes three steps for a request, one for each
  thing that is kept in scratch until the next: the map, the page, the response.
* A checksum is the sequence of what was written to the hash, so that two Runs have the
  same one just when they rendered the same. `h` starts empty in each Run (`fnv.New64a`).
* `range` over a map starts anywhere: `Visits` are the rotations of one order, of which
  `Render` takes any.
* `json.Unmarshal` into an element that was used before keeps the entries of its map that
  the document does not mention (`Decoded`); the payload mentions the same keys each time.
* A path is the sequence of its parts, a header its name and its spelling, a response its
  route. `Matches` takes equality or `IsPrefix` on parts, which is `HasPrefix` on the paths
  that are requested.
* `Right` in each module knows of no scratch: prime numbers by division, the product by
  dot products, requests by themselves, routes by the longest prefix rather than by their
  order. `Setup` of `php_like` and `apache_like` runs the benchmark once for the checksum
  that `Verify` expects; that is one of the Runs here.

### Scoring, Output, Cli and the code

`Scoring` has an operator for each function of scoring.go. A score is a whole number of
1/840 of a point, and a total has two more decimal digits for the weights in percent; the
code has float64. Throughput is a whole number too, in a unit fine enough to tell one benchmark
from another and coarse enough that one unit shows in a mean of eight scores: `MaxReference`
bounds the reference by 105000 units, and the highest of the code, 25294.70 per second
(scoring.go:65), is less than that in units of a quarter. `BenchmarksFor` (71-86) and `Collected` (176-178) are two definitions
because the code has two lists. A mode whose measurements are missing scores 0.

`pc` of `Cli` is the stage `main` has reached. A command line is a record, its
benchmarks the tokens between the commas. `Accept` and `Reject` are the validation
(main.go:131-158, 249-254); `MeasureST` and `MeasureMT` are the calls of `runner.Run` (172, 175),
which return what `machine` says. Of that, `Plausible` assumes what `finalize` (runner.go:134-151)
and `Compute` make of any samples: the median is not above the P99, and both are zero for a
call without samples only (`ResultsPlausible` in section 4); and that a call with samples has a
throughput of one unit at least, which an iteration of less than four seconds has. `ComputeScore`, `RenderTable` and `EmitJSON` are the rest.
`machine.perf` is what the runner measures, `machine.host` what `detectCPUModel` reads:
the operating system, the board's name, the lines of `/proc/cpuinfo` as keys and values.
Of a table, the model has its rows and its CPU, of a document its raw block and its CPU. A
timing in a row is the text that `formatDuration` makes of it, character by character,
since its trimming works on characters. Writes to stdout may fail:
that of the document with an exit status of 1, those of the table silently, as in the code.
`Interrupt` is Ctrl-C, which nothing handles outside of the stress run.

In stress mode, `StartStress` is `runStress` up to the call of `stress.Run`: `load` is the
configuration that the flags have become after both layers of defaults, its memory in MiB.
`Shifted` is `memMiB << 20` in an `int`, whose width is the constant `IntMiB`. `StressEnds` is
the return of `stress.Run`, by its Duration or by a signal; when that may happen is module
`Stress`.

## 3. What the runs check

| Run | Question | Result |
|---|---|---|
| `runner` | Is a call of `Run` safe under every interleaving, and the next one after it? | holds, 1.6 million states |
| `runner_live` | Does every call return, and is it a `Tally`? | holds |
| `runner_verdict` | Is a call that measured right results verified? | **violated**, see 6 |
| `results` | Do the percentiles have their rank, in whatever order samples come? | holds |
| `stress` | Is a stress run safe, in whatever moment it is stopped? | holds, 0.5 million states |
| `stress_live` | Does it end? | holds |
| `stress_elapsed` | Does an uncancelled run report its Duration? | **violated**, see 6 |
| `sorting` | Does quicksort sort, whatever the array, without deep recursion? | holds, all 9,840 arrays |
| `kernels` | Does every Run of a kernel return the right result, whatever ran before it? | holds |
| `cli` | Is what was selected measured, scored and written, the exit status true, and a stress run the one asked for? | holds |
| `cli_durations` | Has every timing in the table its unit? | **violated**, see 6 |
| `cli_reference` | Does the reference machine total 1000, whatever it runs? | **violated**, see 6 |

Properties of `Runner`:

* `TypeOK`; with it, that the WaitGroup never goes negative (which panics in Go).
* `PhaseBarrier`: no goroutine outlives its phase.
* `HandedOverIntact`: what `firsts[i]` refers to holds one finished computation.
* `NoSampleLost`: the returned samples are the goroutines' samples, all, unchanged.
* `SamplesInWindow`, `DeadlineHonoured`: how samples lie in time. The latter is
  `OneLateSample`, only the last sample of a goroutine may end late, with
  `DurationHonoured`, no measurement is too short.
* `VerdictOfWorker0`: what `Verified` means.
* `ProcsRestored`, `SinkCoherent`: the process-wide state after a call.
* `StatsOrdered`: the statistics are ordered latencies of this run.
* `EveryCallReturns`, and `ImplementsTally` with its fairness.

Properties of `Results`: `RankHonoured`.

Properties of `Stress`:

* `TypeOK`; `NothingLeftBehind`: no goroutine at work after the return, GOMAXPROCS put back.
* `NeverEarly`, `StopIsPrompt`, `DoneReturns`, `EndsByItself`: when it ends.
* `FiguresCoherent`: status lines never go back, and never exceed the totals.
* `ImplementsTally`: the totals are what the workers counted.

Properties of `Kernels`:

* `TypeOK`; with it, that arrays, maps, slices and buffers hold no more than one Run, or one
  request of it, puts there: a buffer that is not cut back grows beyond it in the second.
* `OwnHeaders`: `apache_like` looks headers up in those of the request at hand.
* `PartialResults`: the loop invariants of the sieve and of the product.
* `ImplementsKernel`: every Run ends, with what `Right` says. It refines `Kernel`, fairness
  included, and makes the point that a Verify against the code's own first result cannot.

Properties of `Sorting`:

* `TypeOK`; with it, that no index leaves the array.
* `SortedAtEnd` is `Verify`; `Permutes` is what `Verify` does not ask.
* `Separated`: pending ranges keep apart, the reason why it sorts.
* `DepthLogarithmic`: with k callers waiting, the current range has at most a 2^k-th of
  the array. `Ends`.

Properties of `Cli`:

* `MeasuredOnce`: each selected benchmark once per mode, in the registry's order.
* `FailsEarly`: after the first measurement only the document's write can fail.
* `FasterScoresHigher`: one unit more of throughput of any benchmark that ran, or half its P99
  (up to a thousand times the reference's), is a higher total: each counts, and the right way
  round.
* `ReferenceScores1000`: `TestReferenceMachineScoresExactly1000`, for every profile.
* `RowsBelongTogether`: a row shows the timings of the benchmarks its score is made of: a dash
  where the score is zero and nowhere else, and no median above the P99 next to it.
* `AllOrNothing`: exit status and document go together, and in the document no run
  overwrites another.
* `CoresCounted`: the count of ARM cores against a definition that looks at blocks instead of
  scanning lines. `Cores` are the blocks between empty lines that say an implementer and a part;
  of what a block says twice the last counts, as in the code.
* `StressAsAsked`: the stress run that starts is the one the help texts of the flags describe.

### Bounds

* `MaxThreads` 3 (2 with fairness), two processors: three goroutines are enough for
  one to be in each part of a phase at once, and `InitialProcs` differs from
  `NumCPU` and from every thread count but one, so that putting back the wrong value
  shows.
* `MaxCalls` 2: the state a call leaves to the next one; `main.go` makes two per
  benchmark, with different thread counts. The configurations are the serial and the
  parallel one and one that is left to its defaults, with a negative and a zero field.
* `MaxIter` 2 and `MaxOverrun` 1: an iteration in time and one that ends late. A
  goroutine with `MaxIter` samples waits for the deadline; the proofs are for any
  `MaxIter`, also one that no run can reach.
* Benchmarks `b1` and `b2`: a `sink` with words of two types. They are
  interchangeable, hence the symmetry (not used where liveness is checked).
* `MaxBatches` 3, `MaxClock` 3, two workers of each kind: batches begun before and
  ended after the flag went up, by several workers; the timeout before and after the
  memory workers are started. `MaxClock` is beyond every Duration; from then on the clock
  stands still, but the ticker goes on, without end.
* Bursts of 1 or 19 samples of three latencies, at most four: lengths 1 to 76, with
  the lengths from 21 on at which p95 and p99 part.

* Arrays of up to eight elements of three values: every order of distinct elements of
  three, and ties. `InsertionCutoff` is 1 instead of 16, so that eight elements are
  partitioned up to three levels deep, with the smaller part on either side; no other
  definition depends on its value.
* Kernels: n from 1 to 30 for the sieve, with squares of primes and their neighbours; three
  sizes of a product; 18 requests of `apache_like`, so that each path is routed and each
  method occurs, with and without additional headers; requests of `php_like` and elements of
  `json` that differ in each field. Two Runs: the second finds what the first left.
* Machines: those that are half as fast as the reference in any subset of four
  benchmarks that differ in the categories they count in, and those that are twice as
  fast, or measured nothing at all, in any single one. Command lines: four that are
  valid, one for each profile, with all outputs, serial and parallel, the full set and
  selections in odd orders with repetitions and empty names; four that are invalid in
  different ways.
* Hosts: one with model names, four boards whose `/proc/cpuinfo` has two kinds of core in
  turn, an unfinished last block, blocks about the board, with half a core or with a part said
  twice, or no cores at all, and one that is not Linux. Five processors, so that half of them is rounded.
* Stress flags: each field at its default, negative, and given; `IntMiB` is 2^12 instead of
  2^44, so that 2048, 4096 and 4097 MiB wrap below zero, to zero and to one. `Second` is 2:
  timings are half seconds; those of `MCSlowMachine` reach ten seconds.

### Fairness

Each goroutine is weakly fair: Go's scheduler preempts, so a goroutine that can run
does. The clock is, and so is the timeout. The reporter has weak fairness for its
steps and strong fairness for seeing `Done`: a Go `select` picks among ready cases
at random, so with a tick ready each time it does not miss `Done` for ever. The ticker is
fair with the clock and never runs dry; with weak fairness alone `DoneReturns` fails, on a
reporter that takes tick after tick. Nobody
is obliged to press Ctrl-C, hence `EndsByItself` is about runs with a Duration.
`EveryCallReturns` needs that `b.Run()` returns, which `WorkerStep` says by being
fair inside it. `Sorting` is a sequential program that is run to its end, hence the
weak fairness of its step; so are the kernels, and `Kernels` is fair for its `Step`.

## 4. What is proved

TLAPS checks eight modules of proofs. Their theorems start from the assumptions on
the constants that the modules state (`RunnerAssumption`, `StressAssumption`,
`SortingAssumption`, `KernelsAssumption`, `BurstAssumption`, and for `Cli`
`CliAssumption`, `ReferenceAssumption`, `OutputAssumption` and
`StressConfigAssumption`) and from nothing else: any number of goroutines,
processors, configurations, calls and iterations; arrays of any length; any
reference machine of up to `MaxReference` units, any command line, any `/proc/cpuinfo` and any
measurements that are `Plausible`.

| Module | Theorems |
|---|---|
| `RunnerProofs` | each safety property of the run, and the safety half of `Tally` |
| `StressProofs` | each safety property of the run, and the safety half of `Tally` |
| `MCResultsProofs`, `ResultsProofs` | `RankHonoured`; what `Cli` may assume of the statistics of a run |
| `SortingProofs` | `TypeOK`, `Separated`, `SortedAtEnd`, `Permutes`, `DepthLogarithmic` |
| `KernelsProofs` | `TypeOK`, `PartialResults`, `OwnHeaders`, and the safety half of `Kernel` |
| `CliProofs` | `TypeOK`, `FailsEarly`, `MeasuredOnce`, `AllOrNothing`, `ReferenceScores1000`, `StressAsAsked`, `CoresCounted`, `RowsBelongTogether`, `FasterScoresHigher` |

**Runner.** None of the properties is inductive. The argument has four layers:

1. `Control`: types, `PhaseBarrier`, and `Awaited`, which says that the WaitGroup's
   counter is the *cardinality* of the set of goroutines that have not called
   `Done`. It is what turns `wg = 0`, all that `Wait` looks at, into "no goroutine
   runs"; the lemmas on launching and leaving are about finite sets.
2. `Data`, in steps where `Control` holds: what is in the slices at each point of a
   goroutine (`Buffers`, `HandedOver`), which instance a result refers to
   (`LastKnown`), and how samples lie in time (`Times`), with the clock of the phase
   as the bound.
3. `Outcome`: what `Finalize` makes of it in the result. That its statistics are in
   order (`RunnerStatsOrdered`) is a fact about `Compute`, see *Results*.
4. `Procs` and `SinkRace` for the process-wide state. `SinkRace` says that while the
   two words of `sink` differ, some goroutine is between its two stores; after the
   barrier there is none.

`RunnerNoSampleLost` is an action property, and `RunnerImplementsTally` the safety
half of the refinement: the count of the tally is the cardinality of the set of
samples taken.

**Stress.** `Control` relates the WaitGroup to the set of workers, the phases of the
caller to the goroutines there can be, and the flag to the context (`Stopping`,
`Reasons`): as long as the flag is down all CPU workers are there, so the counter
cannot be zero, so `Run` cannot return before the context is done.
`StressStopIsPrompt` counts the batches in progress. `Figures` bounds what the
reporter has read by what the counters hold, from which the status lines, the totals
and the refinement of `Tally` follow.

**Results.** `SortedPlace` shows that position k of the sorted slice exists, for any
finite slice of integers, ties included; `SortedRank` how many samples are below and
above it. `PercentilePlace` bounds the floored index on both sides. The rank of a
percentile, and that a higher one is not smaller, follow. `ResultsPlausible` is about samples
that each took some time: zero then stands for a run without samples, which is what the
command line takes it for.

**Scores and products.** The means of `Scoring` and the dot products of `Matrix` are sums, folds
over a set in no particular order: `SumsAnyOrder` in `Basics` shows that the order does not
matter.

**Sorting.** The inductive invariant says where the pending ranges are (`Control`),
that they keep `Apart`, and that any two elements are in order unless *one* range
still has both of them (`OrderedApart`); and it has the two loop invariants
(`Partitioned`, `PrefixSorted`). `Separated` alone is not inductive: it says nothing
about the elements that have left the ranges. Once there is no range left, nothing
can have two elements, so the array is sorted. That a partition or an insertion only
reorders its range (`Shuffled`) carries the invariant through every step, and is what
`Permutes` asks. For the depth, `Shares` gives each caller on the stack its power of
two, the current range included.

**Kernels.** Each kernel has a loop invariant about what its scratch holds in the
middle of a Run: the sieve has lost the multiples of the numbers below `i` and
nothing else; the product is a sum over the rows visited (`DotGrows`, by
`SumTakenOut`); the slots of the decoder are each empty or *exactly the user that will be
decoded there*, which is why what they keep from the Run before does no harm; the
digest of `php_like` and `apache_like` is the beginning of the right one, and the map, the
page and the headers at hand belong to the request at hand. `Common` lets a result be
there between two Runs only. `KernelsTypeOK` bounds the scratch from the same invariants: what is
in a buffer is a beginning of what one Run writes (`PhpBuffers`), or has one entry for each
request, header or field so far (`ApacheSizes`). `KernelsReturnRightResults` then is the refinement: each step is
the abstract `Begin`, its `End` with the right result, or a stutter. The routes are a
table of eighteen paths, each routed by a lemma of its own.

**Cli.** What was measured is always a *beginning* of the selection, the rest to be
measured its *end*, and the score and everything on stdout are functions of what was
measured and of the machine (`Progress`, `Scores`, `Papers`); the stress run is a
function of the flags (`Heating`). A selection is in the registry's order without
repetitions (`InOrder`, from `FilteredPlaces`), whatever was typed. From this,
`MeasuredOnce` is immediate, and `AllOrNothing` counts the keys of the document: no
two runs share one, as no name was measured twice in a mode. `ReferenceScores1000`
holds for every reference machine: normalising a value against itself has no
remainder, a mean of equal values is that value, and each profile's weights add up to 100.

`FasterScoresHigher` is about what the divisions leave of a gain. A unit of throughput is worth
at least eight parts of a point against any reference up to `MaxReference` (`NormalizeRises`),
half a P99 as many up to a thousand times the reference's (`LatencyRises`), and a mean of at
most eight scores rises by a part at least when one of them rises by eight (`MeanRises`). Every
benchmark is in some category (`EachCollected`), the other categories do not fall, and no
profile has a weight of zero (`TotalRises`). The faster run is not one that the process has
made: `SameNames` carries what is known about names and results over to it.

`RowsBelongTogether` uses the same resolution the other way: a score that is not zero is eight
at least, so a mean is zero just where nothing was done (`MeanZero`, `CategoryZero`), and so is
the highest P99 (`TimingsAre`). `OrderedIs` shows that the median of medians is one of them.
`ToString` is opaque to the provers, so `DashIsZero` counts characters: a duration above zero has two
or more, a text of three does not begin like a dash, and so none is left a dash by the trimming.
That a table is only written with its score there takes an invariant of its own, `Shown`.

`CoresCounted` is about a fold over the lines of a file of any length. `ScansUnfold` turns it
into a function of the number of lines read, as `SumsUnfold` does for sums. The invariant
(`Scanned`) says that the counts are those of the blocks which have *ended* (`Counted`), that the
kinds are in the order of their first block (`InTurn`), and that the core at hand is what the lines of the
unfinished block say so far (`CoreSaid`). `FlushedCounts` is the step at the end of a block, and `BlockSays`
relates the lines of a block to the definition over whole blocks.

**Induction.** The library's induction theorems take an operator as a parameter, which the
provers cannot instantiate. `LeastNatural` does without: it follows from the
well-foundedness of `<` on a set of pairs, and a proof by induction takes the least
element of the set of counterexamples. So a fold (`SumFunction`, with its recursive
function inside) is unfolded one element at a time (`SumsUnfold`), and sums, dot products
and powers of two are reasoned about for all inputs.

**Model-checked only:**

* Liveness (`EveryCallReturns`, `DoneReturns`, `EndsByItself`, `Ends`), and the fairness halves of the refinements of `Tally` and `Kernel`: ENABLED
  is out of the prover's reach.

Every invariant of the passing runs is proved.

## 5. What is not modelled, and the plan

Time has no unit and no drift; memory, allocation failure and the operating system's
scheduler are left out. Of the Go runtime only what the code relies on is there. The
arithmetic of the workers and kernels is abstracted as said above.

Next: composition of `Cli` and `Runner`. `Cli` takes what a call returns from `machine`, and
`Plausible` states what it relies on; `RunnerStatsOrdered` and `ResultsPlausible` are that promise
on the runner's side. What a composed module would add is the thread counts of the two modes
and GOMAXPROCS across calls, which `ProcsRestored` has for one sequence of calls.

Not modelled, and not planned: the installer and the CI workflow, whose state is the file
system and the network; `hashing`, which is one call of a library function on a constant
buffer; JSON encoding, layout of the table and the rounding of scores, which are conversions
that no property is about; the branches of the kernels' parsers for malformed input, which
their own inputs never reach; `Verify` of the kernels beyond the comparison with the right
result.

## 6. Findings

* `runner_verdict`: `Verified` is decided by `firsts[0]` (runner.go:129). If goroutine
  0 gets no iteration in before the deadline, which takes a short Duration or a loaded
  machine, it is nil and `Verified` false although the other goroutines measured right
  results. The README says that each benchmark "runs for a fixed duration ... and verifies
  its own output" (README.md:18); the comment at runner.go:140 speaks of avoiding "any
  dependence on goroutine-0's state", of its scratch buffers that is.
* `stress_elapsed`: the timeout is armed (stress.go:77) before the clock for `Elapsed` is read
  (120). Whatever passes in between is missing from `Elapsed`: a preemption, which is all the
  shortest trace has, and above all the allocation and touching of the buffers. A run announced
  as "stress mode running for" its Duration (main.go:272) and not aborted is reported as
  "stress complete: elapsed=" something less (main.go:277). If the buffers take longer than the
  Duration, the memory workers do not run at all.
* `cli_reference`: a category none of whose benchmarks were selected scores 0 and keeps
  its weight (scoring.go:133, 189). With the README's own example
  `--benchmarks primes,sorting,matrix_int`, the reference machine totals 750, "Entry
  Level", above the line "Referenz: Apple M3 Pro - Score 1000" (table.go:73).
* `cli_durations`: `formatDuration` removes the suffix "0s" (table.go:118) from a text in
  which Go has trimmed fractions already. What it meets is the last digit and the unit of
  whole tens of seconds, and the seconds of full minutes: a P99 of ten seconds is shown as
  "1". The comment above the line speaks of trailing zero fractions and noise suffixes.
