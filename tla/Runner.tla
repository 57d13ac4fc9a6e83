------------------------------- MODULE Runner -------------------------------
(***************************************************************************)
(* The runner package: one call of runner.Run at a time, each a warm-up    *)
(* and a timed measurement on `threads' goroutines, joined by a WaitGroup  *)
(* after each phase.                                                       *)
(*                                                                         *)
(* Every goroutine of a phase is scheduled at will: between any two of its *)
(* steps the others may run and time may pass.  A call with one thread     *)
(* runs its loops on the caller itself; that is the same machine with one  *)
(* worker whose exit the caller waits for.                                 *)
(*                                                                         *)
(* A benchmark's Run fills scratch buffers of its instance and may return  *)
(* a slice of them (sorting.go and matrix.go do), so a result is modelled  *)
(* as a reference to an instance, and it verifies exactly while that       *)
(* instance's buffers hold one finished computation.                       *)
(***************************************************************************)
EXTENDS Results, Sequences

CONSTANTS
    MaxThreads,       \* the most threads a configuration asks for
    NumCPU,           \* runtime.NumCPU()
    InitialProcs,     \* GOMAXPROCS before the first call
    DefaultDuration,
    DefaultWarmup,
    Configs,          \* the runner.Config values Run is called with
    Benchmarks,       \* the dynamic types of the results that Run returns
    Nil,
    MaxCalls,         \* bound: calls of Run
    MaxIter,          \* bound: iterations one worker measures in a call
    MaxOverrun        \* bound: how far past a deadline the clock may go

ASSUME RunnerAssumption ==
    /\ MaxThreads \in Nat \ {0}
    /\ NumCPU \in 1 .. MaxThreads
    /\ InitialProcs \in Nat \ {0}
    /\ DefaultDuration \in Nat \ {0}
    /\ DefaultWarmup \in Nat \ {0}
    /\ Configs \subseteq [duration : Int, warmup : Int, threads : Int]
    /\ \A c \in Configs : c.threads <= MaxThreads
    /\ Nil \notin Benchmarks
    /\ Nil \notin Nat
    /\ MaxCalls \in Nat
    /\ MaxIter \in Nat \ {0}
    /\ MaxOverrun \in Nat

Worker == 0 .. MaxThreads - 1     \* goroutine i of a phase, and instances[i]

VARIABLES
    pc,          \* where Run is: "idle", "warm", "gc" or "measure"
    call,        \* its resolved configuration, benchmark and saved GOMAXPROCS
    calls,       \* calls made so far
    gomaxprocs,
    clock,       \* time since the current phase started
    wg,          \* the counter of the phase's WaitGroup
    instances,   \* instances[i]: the instance goroutine i works on
    scratch,     \* what an instance's buffers hold
    wpc,         \* where each goroutine is
    t0,          \* start of the iteration a goroutine is timing
    local,       \* the samples a goroutine has taken
    last,        \* measureLoop's last: the latest result of a goroutine
    perG,        \* the samples each goroutine has handed over
    firsts,      \* the result each goroutine has handed over
    sink,        \* the package variable the warm-up stores to, two words
    result       \* the RawResult of the last call that returned

mainVars    == <<pc, call, calls, gomaxprocs, instances, result>>
measureVars == <<t0, local, last, perG, firsts>>
vars == <<mainVars, measureVars, clock, wg, scratch, wpc, sink>>

WarmPcs    == {"warm", "warmRun", "typeLeft", "dataLeft"}
MeasurePcs == {"check", "timing", "run", "publish", "release"}
InRun      == {"warmRun", "run"}

\* The goroutines of the current call, and a value for each of them.
Active   == 0 .. call.threads - 1
Fresh(x) == [w \in Worker |-> x]

NoCall   == [bench |-> Nil, threads |-> 0, duration |-> 0, warmup |-> 0, prev |-> 0]
NoResult == [samples |-> <<>>, total |-> 0, verified |-> FALSE]

Init ==
    /\ pc = "idle"
    /\ call = NoCall
    /\ calls = 0
    /\ gomaxprocs = InitialProcs
    /\ clock = 0
    /\ wg = 0
    /\ instances = Fresh(Nil)
    /\ scratch = Fresh("setup")
    /\ wpc = Fresh("off")
    /\ t0 = Fresh(0)
    /\ local = Fresh(<<>>)
    /\ last = Fresh(Nil)
    /\ perG = Fresh(<<>>)
    /\ firsts = Fresh(Nil)
    /\ sink = [type |-> Nil, data |-> Nil]
    /\ result = NoResult
-----------------------------------------------------------------------------
(* Pieces of the code the actions below share.                             *)

\* Zero or negative fields take their defaults.
Resolve(c) ==
    [duration |-> IF c.duration <= 0 THEN DefaultDuration ELSE c.duration,
     warmup   |-> IF c.warmup <= 0 THEN DefaultWarmup ELSE c.warmup,
     threads  |-> IF c.threads <= 0 THEN NumCPU ELSE c.threads]

\* Mutant: one instance for all goroutines.
SharedInstance(threads) ==
    [w \in Worker |-> IF w < threads THEN 0 ELSE Nil]

\* instances[i] = factory(): every goroutine gets an instance of its own.
NewInstances(threads) ==
    [w \in Worker |-> IF w < threads THEN w ELSE Nil]

\* The deadline of the current phase.
Deadline == IF pc = "warm" THEN call.warmup ELSE call.duration

\* Mutant: !time.Now().After(deadline).
NotAfterDeadline == clock <= Deadline

\* time.Now().Before(deadline)
BeforeDeadline == clock < Deadline

\* go func() for each goroutine of a phase, and the WaitGroup's Add before it.
Started(threads, at) == [w \in Worker |-> IF w < threads THEN at ELSE "off"]

\* Mutants: Add moved into goroutines that have not run yet, Add(1) for all of
\* them, and one goroutine too many awaited.
AddedInside(threads) == 0
AddedOnce(threads) == 1
AddedTooMany(threads) == threads + 1

Added(threads) == threads

\* Mutant: the next phase starts when the time is up.
TimeIsUp == ~BeforeDeadline

\* The WaitGroup's Wait returns.
Joined == wg = 0

\* Mutant: t0 is read once, before the loop.
SampleSinceStart(w) == [start |-> 0, end |-> clock]

\* Sample{Duration: time.Since(t0)}, with both of its clock readings kept.
SampleNow(w) == [start |-> t0[w], end |-> clock]
Elapsed(sample) == sample.end - sample.start

\* Mutant: the last sample of each goroutine is cut off.
PlacesButLast(slices) ==
    {place \in Active \X (1 .. MaxIter) : place[2] < Len(slices[place[1]])}

\* The places of the samples in perG, sample k of goroutine w, and the merge.
Places(slices) ==
    {place \in Active \X (1 .. MaxIter) : place[2] <= Len(slices[place[1]])}
Merged(slices) ==
    [place \in Places(slices) |-> slices[place[1]][place[2]]]

\* Mutant: GOMAXPROCS goes back to the machine's default.
RuntimeDefault == NumCPU

\* What the deferred GOMAXPROCS(prev) puts back.
RestoredProcs == call.prev

\* Mutant: a missing result is taken for a right one.
VerifyMissing(r) == IF r = Nil THEN TRUE ELSE scratch[r] = "result"

\* Benchmark.Verify: false without a result, true for a right one.
Verify(r) == IF r = Nil THEN FALSE ELSE scratch[r] = "result"
-----------------------------------------------------------------------------
(* The call up to the end of the warm-up.                                  *)

\* Run(factory, cfg) is called: configuration, GOMAXPROCS, instances, and the
\* warm-up goroutines are started.
Call(b, c) ==
    LET cfg == Resolve(c) IN
    /\ pc = "idle"
    /\ calls < MaxCalls
    /\ pc' = "warm"
    /\ call' = [bench |-> b, threads |-> cfg.threads, duration |-> cfg.duration,
                warmup |-> cfg.warmup, prev |-> gomaxprocs]
    /\ calls' = calls + 1
    /\ gomaxprocs' = cfg.threads
    /\ instances' = NewInstances(cfg.threads)
    /\ scratch' = Fresh("setup")
    /\ wpc' = Started(cfg.threads, "warm")
    /\ wg' = Added(cfg.threads)
    /\ clock' = 0
    /\ result' = NoResult
    /\ UNCHANGED <<measureVars, sink>>

\* The warm-up deadline has not passed: b.Run() starts.
WarmBegin(w) ==
    /\ wpc[w] = "warm"
    /\ BeforeDeadline
    /\ wpc' = [wpc EXCEPT ![w] = "warmRun"]
    /\ scratch' = [scratch EXCEPT ![instances[w]] = "partial"]
    /\ UNCHANGED <<mainVars, measureVars, clock, wg, sink>>

\* b.Run() returns and the first word of sink is stored.  The goroutines race
\* on sink, and the build may store the two words of an interface in either
\* order.
WarmEnd(w) ==
    /\ wpc[w] = "warmRun"
    /\ scratch' = [scratch EXCEPT ![instances[w]] = "result"]
    /\ \/ /\ sink' = [sink EXCEPT !.type = call.bench]
          /\ wpc' = [wpc EXCEPT ![w] = "dataLeft"]
       \/ /\ sink' = [sink EXCEPT !.data = call.bench]
          /\ wpc' = [wpc EXCEPT ![w] = "typeLeft"]
    /\ UNCHANGED <<mainVars, measureVars, clock, wg>>

\* The other word of sink is stored.
WarmStore(w) ==
    /\ \/ /\ wpc[w] = "dataLeft"
          /\ sink' = [sink EXCEPT !.data = call.bench]
       \/ /\ wpc[w] = "typeLeft"
          /\ sink' = [sink EXCEPT !.type = call.bench]
    /\ wpc' = [wpc EXCEPT ![w] = "warm"]
    /\ UNCHANGED <<mainVars, measureVars, clock, wg, scratch>>

\* The warm-up deadline has passed: defer warmWg.Done().
WarmExit(w) ==
    /\ wpc[w] = "warm"
    /\ ~BeforeDeadline
    /\ wpc' = [wpc EXCEPT ![w] = "off"]
    /\ wg' = wg - 1
    /\ UNCHANGED <<mainVars, measureVars, clock, scratch, sink>>

\* warmWg.Wait() returns and runtime.GC() runs.
WarmJoin ==
    /\ pc = "warm"
    /\ Joined
    /\ pc' = "gc"
    /\ UNCHANGED <<call, calls, gomaxprocs, instances, result, measureVars,
                   clock, wg, scratch, wpc, sink>>
-----------------------------------------------------------------------------
(* The measurement.                                                        *)

\* measureStart and deadline are read, and the measuring goroutines started.
StartMeasure ==
    /\ pc = "gc"
    /\ pc' = "measure"
    /\ wpc' = Started(call.threads, "check")
    /\ wg' = Added(call.threads)
    /\ clock' = 0
    /\ UNCHANGED <<call, calls, gomaxprocs, instances, result, measureVars,
                   scratch, sink>>

\* measureLoop: time.Now().Before(deadline) holds.
MeasureCheck(w) ==
    /\ wpc[w] = "check"
    /\ BeforeDeadline
    /\ Len(local[w]) < MaxIter
    /\ wpc' = [wpc EXCEPT ![w] = "timing"]
    /\ UNCHANGED <<mainVars, measureVars, clock, wg, scratch, sink>>

\* t0 := time.Now(), and b.Run() starts.
BeginIteration(w) ==
    /\ wpc[w] = "timing"
    /\ wpc' = [wpc EXCEPT ![w] = "run"]
    /\ t0' = [t0 EXCEPT ![w] = clock]
    /\ scratch' = [scratch EXCEPT ![instances[w]] = "partial"]
    /\ UNCHANGED <<mainVars, local, last, perG, firsts, clock, wg, sink>>

\* b.Run() returns: last is set, the sample is appended, t0 ends its scope.
EndIteration(w) ==
    /\ wpc[w] = "run"
    /\ wpc' = [wpc EXCEPT ![w] = "check"]
    /\ scratch' = [scratch EXCEPT ![instances[w]] = "result"]
    /\ last' = [last EXCEPT ![w] = instances[w]]
    /\ local' = [local EXCEPT ![w] = Append(@, SampleNow(w))]
    /\ t0' = [t0 EXCEPT ![w] = 0]
    /\ UNCHANGED <<mainVars, perG, firsts, clock, wg, sink>>

\* The deadline has passed: measureLoop returns last into firsts[i].
MeasureExit(w) ==
    /\ wpc[w] = "check"
    /\ ~BeforeDeadline
    /\ wpc' = [wpc EXCEPT ![w] = "publish"]
    /\ firsts' = [firsts EXCEPT ![w] = last[w]]
    /\ UNCHANGED <<mainVars, t0, local, last, perG, clock, wg, scratch, sink>>

\* perG[i] = local
Publish(w) ==
    /\ wpc[w] = "publish"
    /\ wpc' = [wpc EXCEPT ![w] = "release"]
    /\ perG' = [perG EXCEPT ![w] = local[w]]
    /\ UNCHANGED <<mainVars, t0, local, last, firsts, clock, wg, scratch, sink>>

\* defer wg.Done()
Release(w) ==
    /\ wpc[w] = "release"
    /\ wpc' = [wpc EXCEPT ![w] = "off"]
    /\ wg' = wg - 1
    /\ UNCHANGED <<mainVars, measureVars, clock, scratch, sink>>
-----------------------------------------------------------------------------
(* The end of the call.                                                    *)

\* wg.Wait() returns: totalDuration is read, perG is merged, firsts[0] is
\* verified on a fresh instance, the deferred GOMAXPROCS runs, and the slices
\* of the call end their scope.
Finalize ==
    /\ pc = "measure"
    /\ Joined
    /\ pc' = "idle"
    /\ gomaxprocs' = RestoredProcs
    /\ result' = [samples |-> Merged(perG),
                  total |-> clock,
                  verified |-> Verify(firsts[0])]
    /\ local' = Fresh(<<>>)
    /\ last' = Fresh(Nil)
    /\ perG' = Fresh(<<>>)
    /\ firsts' = Fresh(Nil)
    /\ UNCHANGED <<call, calls, instances, t0, clock, wg, scratch, wpc, sink>>

\* Time passes while a phase runs.
Tick ==
    /\ pc \in {"warm", "measure"}
    /\ clock < Deadline + MaxOverrun
    /\ clock' = clock + 1
    /\ UNCHANGED <<mainVars, measureVars, wg, scratch, wpc, sink>>

\* All calls of the bound are made.
Terminated ==
    /\ pc = "idle"
    /\ calls = MaxCalls
    /\ UNCHANGED vars

WorkerStep(w) ==
    \/ WarmBegin(w) \/ WarmEnd(w) \/ WarmStore(w) \/ WarmExit(w)
    \/ MeasureCheck(w) \/ BeginIteration(w) \/ EndIteration(w)
    \/ MeasureExit(w) \/ Publish(w) \/ Release(w)

Main == WarmJoin \/ StartMeasure \/ Finalize

Next ==
    \/ \E b \in Benchmarks, c \in Configs : Call(b, c)
    \/ \E w \in Worker : WorkerStep(w)
    \/ Main
    \/ Tick
    \/ Terminated

Spec == Init /\ [][Next]_vars

\* The scheduler runs every goroutine that can run, and time goes on.
Fairness ==
    /\ \A w \in Worker : WF_vars(WorkerStep(w))
    /\ WF_vars(Main)
    /\ WF_vars(Tick)

FairSpec == Spec /\ Fairness
-----------------------------------------------------------------------------
(* Properties.                                                             *)

Sample == [start : Nat, end : Nat]

Frame == [bench : Benchmarks \cup {Nil}, threads : 0 .. MaxThreads,
          duration : Nat, warmup : Nat, prev : Nat]

\* The type invariant.
TypeOK ==
    /\ pc \in {"idle", "warm", "gc", "measure"}
    /\ call \in Frame
    /\ calls \in 0 .. MaxCalls
    /\ gomaxprocs \in Nat
    /\ clock \in Nat
    /\ wg \in Nat
    /\ instances \in [Worker -> Worker \cup {Nil}]
    /\ scratch \in [Worker -> {"setup", "partial", "result"}]
    /\ wpc \in [Worker -> WarmPcs \cup MeasurePcs \cup {"off"}]
    /\ t0 \in [Worker -> Nat]
    /\ local \in [Worker -> Seq(Sample)]
    /\ last \in [Worker -> Worker \cup {Nil}]
    /\ perG \in [Worker -> Seq(Sample)]
    /\ firsts \in [Worker -> Worker \cup {Nil}]
    /\ sink \in [type : Benchmarks \cup {Nil}, data : Benchmarks \cup {Nil}]
    /\ DOMAIN result.samples \subseteq Worker \X (1 .. MaxIter)
    /\ \A place \in DOMAIN result.samples : result.samples[place] \in Sample
    /\ result.total \in Nat
    /\ result.verified \in BOOLEAN

Returned == pc = "idle" /\ calls > 0

\* No goroutine of a phase outlives it: while the collector runs or nothing
\* is measured, none is inside a benchmark, so that no warm-up work is paid
\* for by a measured iteration.
PhaseBarrier ==
    \A w \in Worker :
        /\ wpc[w] \in WarmPcs => pc = "warm"
        /\ wpc[w] \in MeasurePcs => pc = "measure"

\* A result handed over through firsts[i] refers to buffers of an instance;
\* no other goroutine writes to them between the hand-over and Verify.
HandedOverIntact ==
    \A w \in Worker :
        pc = "measure" /\ w \in Active /\ wpc[w] \in {"publish", "release", "off"}
            => firsts[w] = Nil \/ scratch[firsts[w]] = "result"

\* The RawResult holds every sample that any goroutine took, each of them once
\* and unchanged: Run returns only after the last hand-over through perG.
NoSampleLost ==
    [][pc = "measure" /\ pc' = "idle" =>
          /\ DOMAIN result'.samples =
                {place \in Active \X (1 .. MaxIter) : place[2] <= Len(local[place[1]])}
          /\ \A place \in DOMAIN result'.samples :
                result'.samples[place] = local[place[1]][place[2]]]_vars

\* Every sample lies inside the measured window, and the samples of a
\* goroutine follow one another: no time is counted twice, and no goroutine is
\* busy for longer than TotalDuration.
SamplesInWindow ==
    Returned =>
        \A w \in Worker, k \in 1 .. MaxIter :
            <<w, k>> \in DOMAIN result.samples =>
                LET s == result.samples[<<w, k>>] IN
                /\ s.start <= s.end
                /\ s.end <= result.total
                /\ k > 1 => /\ <<w, k - 1>> \in DOMAIN result.samples
                            /\ result.samples[<<w, k - 1>>].end <= s.start

\* Past the deadline a goroutine ends the iteration it has begun and begins no
\* other: only its last sample may end late...
OneLateSample ==
    Returned =>
        \A w \in Worker, k \in 1 .. MaxIter :
            {<<w, k>>, <<w, k + 1>>} \subseteq DOMAIN result.samples
                => result.samples[<<w, k>>].end < call.duration

\* ... and the measurement lasts at least as long as it was asked to.
DurationHonoured == Returned => result.total >= call.duration

\* The deadline of a measurement is neither early nor overrun by more than an
\* iteration of each goroutine.
DeadlineHonoured == OneLateSample /\ DurationHonoured

\* What Verified says: that goroutine 0 measured at least one iteration.
VerdictOfWorker0 ==
    Returned => (result.verified <=> <<0, 1>> \in DOMAIN result.samples)

\* GOMAXPROCS is the number of goroutines during a call, and between calls
\* what it was before the first of them.
ProcsRestored ==
    gomaxprocs = IF pc = "idle" THEN InitialProcs ELSE call.threads

\* The goroutines race on the two words of sink, and while they do it may hold
\* the type of one benchmark with the data of another; after the warm-up it is
\* a value of one benchmark again.
SinkCoherent == pc # "warm" => sink.type = sink.data

\* The statistics of a run are ordered, are latencies of measured iterations
\* and do not exceed the time the run took.
Latencies == [place \in DOMAIN result.samples |-> Elapsed(result.samples[place])]

StatsOrdered ==
    Returned /\ DOMAIN result.samples # {} =>
        LET stats == Compute(Latencies) IN
        /\ stats.median <= stats.p95
        /\ stats.p95 <= stats.p99
        /\ stats.p99 <= result.total
        /\ {stats.median, stats.p95, stats.p99}
               \subseteq {Latencies[place] : place \in DOMAIN Latencies}

\* Every call returns, whatever its goroutines are held up by.
EveryCallReturns == pc # "idle" ~> pc = "idle"

\* Run is a tally of measured iterations: RawResult.Iterations is the number
\* of samples taken between the call and its return.
Taken ==
    {place \in Active \X (1 .. MaxIter) : place[2] <= Len(local[place[1]])}

T == INSTANCE Tally WITH
    open     <- pc # "idle",
    count    <- Cardinality(Taken),
    reported <- Cardinality(DOMAIN result.samples)

ImplementsTally == T!Spec

\* The README: each benchmark collects latencies and "verifies its own output".
\* A call whose measured iterations all computed the right answer is verified.
RightOutputVerified ==
    Returned /\ DOMAIN result.samples # {} => result.verified
=============================================================================
