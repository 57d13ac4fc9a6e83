---------------------------- MODULE RunnerProofs ----------------------------
(***************************************************************************)
(* What holds of runner.Run for any number of goroutines, calls, samples   *)
(* and configurations.  The inductive invariant comes in two layers:       *)
(* Control says where the caller and its goroutines are, Data what they    *)
(* hold there.                                                             *)
(***************************************************************************)
EXTENDS Runner, ResultsProofs, FiniteSetTheorems, TLAPS

Running == {w \in Worker : wpc[w] # "off"}

\* The frame of a call in progress.
CallOK ==
    pc # "idle" =>
        /\ call.threads \in 1 .. MaxThreads
        /\ call.bench \in Benchmarks
        /\ instances = NewInstances(call.threads)

\* The WaitGroup counts the goroutines that have not called Done.
Awaited == wg = Cardinality(Running)

Control ==
    /\ TypeOK
    /\ CallOK
    /\ PhaseBarrier
    /\ Running \subseteq Active
    /\ Awaited
-----------------------------------------------------------------------------
LEMMA WorkersFinite ==
    /\ IsFiniteSet(Worker)
    /\ \A n \in 0 .. MaxThreads : /\ IsFiniteSet(0 .. n - 1)
                                  /\ Cardinality(0 .. n - 1) = n
<1>1. \A n \in Nat : IsFiniteSet(0 .. n - 1) /\ Cardinality(0 .. n - 1) = n
  <2> SUFFICES ASSUME NEW n \in Nat
               PROVE  IsFiniteSet(0 .. n - 1) /\ Cardinality(0 .. n - 1) = n
    OBVIOUS
  <2>1. CASE n = 0
    <3>1. 0 .. n - 1 = {}
      BY <2>1
    <3> QED
      BY <2>1, <3>1, FS_EmptySet
  <2>2. CASE n # 0
    BY <2>2, FS_Interval
  <2> QED
    BY <2>1, <2>2
<1>2. MaxThreads \in Nat
  BY RunnerAssumption
<1>3. IsFiniteSet(Worker)
  BY <1>1, <1>2 DEF Worker
<1> QED
  BY <1>1, <1>2, <1>3

\* A goroutine that calls Done lowers the number of those awaited by one.
LEMMA DoneCounts ==
    ASSUME TypeOK, Awaited, NEW w \in Worker, wpc[w] # "off",
           wpc' = [wpc EXCEPT ![w] = "off"], wg' = wg - 1
    PROVE  Awaited' /\ wg' \in Nat
<1>1. IsFiniteSet(Running) /\ w \in Running
  BY WorkersFinite, FS_Subset DEF Running
<1>2. Running' = Running \ {w}
  BY DEF Running, TypeOK
<1>3. /\ IsFiniteSet(Running \ {w})
      /\ Cardinality(Running \ {w}) = Cardinality(Running) - 1
  BY <1>1, FS_RemoveElement
<1>4. Cardinality(Running \ {w}) \in Nat
  BY <1>3, FS_CardinalityType
<1> QED
  BY <1>2, <1>3, <1>4 DEF Awaited

\* A goroutine that moves on without calling Done leaves that number alone.
LEMMA MoveCounts ==
    ASSUME TypeOK, Awaited, NEW w \in Worker, NEW at, wpc[w] # "off", at # "off",
           wpc' = [wpc EXCEPT ![w] = at], wg' = wg
    PROVE  Awaited' /\ Running' = Running
BY DEF Awaited, Running, TypeOK

\* Starting a phase makes every goroutine of the call one to wait for.
LEMMA StartCounts ==
    ASSUME NEW threads \in 1 .. MaxThreads, NEW at, at # "off",
           wpc' = Started(threads, at), wg' = Added(threads)
    PROVE  Awaited' /\ Running' = 0 .. threads - 1
<1>1. Running' = 0 .. threads - 1
  BY RunnerAssumption DEF Running, Started, Worker
<1>2. Cardinality(0 .. threads - 1) = threads
  BY WorkersFinite
<1> QED
  BY <1>1, <1>2 DEF Awaited, Added

\* Once Wait returns no goroutine is left.
LEMMA JoinedMeansOff ==
    ASSUME TypeOK, Awaited, Joined
    PROVE  Running = {} /\ \A w \in Worker : wpc[w] = "off"
<1>1. IsFiniteSet(Running)
  BY WorkersFinite, FS_Subset DEF Running
<1>2. Running = {}
  BY <1>1, FS_EmptySet DEF Awaited, Joined
<1> QED
  BY <1>2 DEF Running
-----------------------------------------------------------------------------
LEMMA ControlInit == Init => Control
<1> SUFFICES ASSUME Init PROVE Control
  OBVIOUS
<1> USE DEF Init, Fresh
<1>1. TypeOK
  BY RunnerAssumption DEF TypeOK, Frame, NoCall, NoResult
<1>2. CallOK /\ PhaseBarrier /\ Running \subseteq Active
  BY DEF CallOK, PhaseBarrier, Running, WarmPcs, MeasurePcs
<1>3. Awaited
  <2>1. Running = {}
    BY DEF Running
  <2> QED
    BY <2>1, FS_EmptySet DEF Awaited
<1> QED
  BY <1>1, <1>2, <1>3 DEF Control

LEMMA ControlCall ==
    ASSUME Control, NEW b \in Benchmarks, NEW c \in Configs, Call(b, c)
    PROVE  Control'
<1> DEFINE cfg == Resolve(c)
<1>1. cfg.threads \in 1 .. MaxThreads /\ cfg.duration \in Nat /\ cfg.warmup \in Nat
  BY RunnerAssumption DEF Resolve
<1>2. /\ pc = "idle" /\ pc' = "warm" /\ calls < MaxCalls /\ calls' = calls + 1
      /\ call' = [bench |-> b, threads |-> cfg.threads, duration |-> cfg.duration,
                  warmup |-> cfg.warmup, prev |-> gomaxprocs]
      /\ gomaxprocs' = cfg.threads
      /\ instances' = NewInstances(cfg.threads)
      /\ scratch' = Fresh("setup")
      /\ wpc' = Started(cfg.threads, "warm") /\ wg' = Added(cfg.threads)
      /\ clock' = 0 /\ result' = NoResult /\ UNCHANGED <<measureVars, sink>>
  BY DEF Call
<1> HIDE DEF cfg
<1>3. Awaited' /\ Running' = 0 .. cfg.threads - 1
  BY <1>1, <1>2, StartCounts
<1>4. TypeOK'
  <2> USE DEF Control, TypeOK
  <2>1. call' \in Frame /\ calls' \in 0 .. MaxCalls /\ gomaxprocs' \in Nat
    BY <1>1, <1>2, RunnerAssumption DEF Frame
  <2>2. /\ instances' \in [Worker -> Worker \cup {Nil}]
        /\ scratch' \in [Worker -> {"setup", "partial", "result"}]
        /\ wpc' \in [Worker -> WarmPcs \cup MeasurePcs \cup {"off"}]
        /\ wg' \in Nat
    BY <1>1, <1>2 DEF NewInstances, Fresh, Started, Added, WarmPcs
  <2>3. /\ DOMAIN result'.samples = {}
        /\ result'.total \in Nat /\ result'.verified \in BOOLEAN
    BY <1>2 DEF NoResult
  <2> QED
    BY <1>2, <2>1, <2>2, <2>3 DEF measureVars
<1>5. CallOK' /\ PhaseBarrier' /\ (Running \subseteq Active)'
  BY <1>1, <1>2, <1>3
     DEF CallOK, PhaseBarrier, Active, Started, WarmPcs, MeasurePcs, NewInstances
<1> QED
  BY <1>3, <1>4, <1>5 DEF Control

LEMMA ControlWorker ==
    ASSUME Control, NEW v \in Worker, WorkerStep(v)
    PROVE  Control'
<1>1. ASSUME NEW w \in Worker, WarmBegin(w) PROVE Control'
  <2>1. wpc[w] = "warm" /\ wpc' = [wpc EXCEPT ![w] = "warmRun"] /\ wg' = wg
    BY <1>1 DEF WarmBegin
  <2>2. Awaited' /\ Running' = Running
    BY <2>1, MoveCounts DEF Control
  <2>3. TypeOK'
    BY <1>1 DEF Control, TypeOK, WarmBegin, WarmPcs, MeasurePcs, mainVars, measureVars
  <2>4. CallOK' /\ PhaseBarrier' /\ (Running \subseteq Active)'
    BY <1>1, <2>2 DEF Control, TypeOK, CallOK, PhaseBarrier, Active, WarmBegin, WarmPcs, MeasurePcs, mainVars
  <2> QED
    BY <2>2, <2>3, <2>4 DEF Control
<1>2. ASSUME NEW w \in Worker, WarmEnd(w) PROVE Control'
  <2>1. PICK at : /\ at \in WarmPcs /\ wpc' = [wpc EXCEPT ![w] = at]
                 /\ wpc[w] \in WarmPcs /\ wg' = wg
    BY <1>2 DEF WarmEnd, WarmPcs
  <2>2. Awaited' /\ Running' = Running
    BY <2>1, MoveCounts DEF Control, WarmPcs
  <2>3. TypeOK'
    BY <1>2 DEF Control, TypeOK, Frame, WarmEnd, WarmPcs, MeasurePcs, mainVars, measureVars
  <2>4. CallOK' /\ PhaseBarrier' /\ (Running \subseteq Active)'
    BY <1>2, <2>1, <2>2 DEF Control, TypeOK, CallOK, PhaseBarrier, Active, WarmEnd, WarmPcs, MeasurePcs, mainVars
  <2> QED
    BY <2>2, <2>3, <2>4 DEF Control
<1>3. ASSUME NEW w \in Worker, WarmStore(w) PROVE Control'
  <2>1. PICK at : /\ at \in WarmPcs /\ wpc' = [wpc EXCEPT ![w] = at]
                 /\ wpc[w] \in WarmPcs /\ wg' = wg
    BY <1>3 DEF WarmStore, WarmPcs
  <2>2. Awaited' /\ Running' = Running
    BY <2>1, MoveCounts DEF Control, WarmPcs
  <2>3. TypeOK'
    BY <1>3 DEF Control, TypeOK, Frame, WarmStore, WarmPcs, MeasurePcs, mainVars, measureVars
  <2>4. CallOK' /\ PhaseBarrier' /\ (Running \subseteq Active)'
    BY <1>3, <2>1, <2>2 DEF Control, TypeOK, CallOK, PhaseBarrier, Active, WarmStore, WarmPcs, MeasurePcs, mainVars
  <2> QED
    BY <2>2, <2>3, <2>4 DEF Control
<1>4. ASSUME NEW w \in Worker, WarmExit(w) PROVE Control'
  <2>1. /\ wpc[w] # "off" /\ wpc' = [wpc EXCEPT ![w] = "off"] /\ wg' = wg - 1
    BY <1>4 DEF WarmExit
  <2>2. Awaited' /\ wg' \in Nat
    BY <2>1, DoneCounts DEF Control
  <2>3. Running' \subseteq Running
    BY <2>1 DEF Control, TypeOK, Running
  <2>4. TypeOK'
    BY <1>4, <2>2 DEF Control, TypeOK, WarmExit, mainVars, measureVars
  <2>5. CallOK' /\ PhaseBarrier' /\ (Running \subseteq Active)'
    BY <1>4, <2>3 DEF Control, TypeOK, CallOK, PhaseBarrier, Active, WarmExit, WarmPcs, MeasurePcs, mainVars
  <2> QED
    BY <2>2, <2>4, <2>5 DEF Control
<1>5. ASSUME NEW w \in Worker, MeasureCheck(w) PROVE Control'
  <2>1. wpc[w] = "check" /\ wpc' = [wpc EXCEPT ![w] = "timing"] /\ wg' = wg
    BY <1>5 DEF MeasureCheck
  <2>2. Awaited' /\ Running' = Running
    BY <2>1, MoveCounts DEF Control
  <2>3. TypeOK'
    BY <1>5 DEF Control, TypeOK, MeasureCheck, WarmPcs, MeasurePcs, mainVars, measureVars
  <2>4. CallOK' /\ PhaseBarrier' /\ (Running \subseteq Active)'
    BY <1>5, <2>2 DEF Control, TypeOK, CallOK, PhaseBarrier, Active, MeasureCheck, WarmPcs, MeasurePcs, mainVars
  <2> QED
    BY <2>2, <2>3, <2>4 DEF Control
<1>6. ASSUME NEW w \in Worker, BeginIteration(w) PROVE Control'
  <2>1. wpc[w] = "timing" /\ wpc' = [wpc EXCEPT ![w] = "run"] /\ wg' = wg
    BY <1>6 DEF BeginIteration
  <2>2. Awaited' /\ Running' = Running
    BY <2>1, MoveCounts DEF Control
  <2>3. TypeOK'
    BY <1>6 DEF Control, TypeOK, BeginIteration, WarmPcs, MeasurePcs, mainVars, measureVars
  <2>4. CallOK' /\ PhaseBarrier' /\ (Running \subseteq Active)'
    BY <1>6, <2>2 DEF Control, TypeOK, CallOK, PhaseBarrier, Active, BeginIteration, WarmPcs, MeasurePcs, mainVars
  <2> QED
    BY <2>2, <2>3, <2>4 DEF Control
<1>7. ASSUME NEW w \in Worker, EndIteration(w) PROVE Control'
  <2>1. wpc[w] = "run" /\ wpc' = [wpc EXCEPT ![w] = "check"] /\ wg' = wg
    BY <1>7 DEF EndIteration
  <2>2. Awaited' /\ Running' = Running
    BY <2>1, MoveCounts DEF Control
  <2>3. TypeOK'
    <3>1. SampleNow(w) \in Sample
      BY DEF Control, TypeOK, SampleNow, Sample
    <3>2. local' \in [Worker -> Seq(Sample)]
      BY <1>7, <3>1 DEF Control, TypeOK, EndIteration
    <3>3. UNCHANGED <<mainVars, perG, firsts, clock, wg, sink>>
      BY <1>7 DEF EndIteration
    <3>4. /\ scratch' \in [Worker -> {"setup", "partial", "result"}]
          /\ wpc' \in [Worker -> WarmPcs \cup MeasurePcs \cup {"off"}]
          /\ t0' \in [Worker -> Nat]
          /\ last' \in [Worker -> Worker \cup {Nil}]
      BY <1>7 DEF Control, TypeOK, EndIteration, MeasurePcs
    <3> QED
      BY <3>2, <3>3, <3>4 DEF Control, TypeOK, mainVars
  <2>4. CallOK' /\ PhaseBarrier' /\ (Running \subseteq Active)'
    BY <1>7, <2>2 DEF Control, TypeOK, CallOK, PhaseBarrier, Active, EndIteration, WarmPcs, MeasurePcs, mainVars
  <2> QED
    BY <2>2, <2>3, <2>4 DEF Control
<1>8. ASSUME NEW w \in Worker, MeasureExit(w) PROVE Control'
  <2>1. wpc[w] = "check" /\ wpc' = [wpc EXCEPT ![w] = "publish"] /\ wg' = wg
    BY <1>8 DEF MeasureExit
  <2>2. Awaited' /\ Running' = Running
    BY <2>1, MoveCounts DEF Control
  <2>3. TypeOK'
    BY <1>8 DEF Control, TypeOK, MeasureExit, WarmPcs, MeasurePcs, mainVars, measureVars
  <2>4. CallOK' /\ PhaseBarrier' /\ (Running \subseteq Active)'
    BY <1>8, <2>2 DEF Control, TypeOK, CallOK, PhaseBarrier, Active, MeasureExit, WarmPcs, MeasurePcs, mainVars
  <2> QED
    BY <2>2, <2>3, <2>4 DEF Control
<1>9. ASSUME NEW w \in Worker, Publish(w) PROVE Control'
  <2>1. wpc[w] = "publish" /\ wpc' = [wpc EXCEPT ![w] = "release"] /\ wg' = wg
    BY <1>9 DEF Publish
  <2>2. Awaited' /\ Running' = Running
    BY <2>1, MoveCounts DEF Control
  <2>3. TypeOK'
    BY <1>9 DEF Control, TypeOK, Publish, WarmPcs, MeasurePcs, mainVars, measureVars
  <2>4. CallOK' /\ PhaseBarrier' /\ (Running \subseteq Active)'
    BY <1>9, <2>2 DEF Control, TypeOK, CallOK, PhaseBarrier, Active, Publish, WarmPcs, MeasurePcs, mainVars
  <2> QED
    BY <2>2, <2>3, <2>4 DEF Control
<1>10. ASSUME NEW w \in Worker, Release(w) PROVE Control'
  <2>1. /\ wpc[w] # "off" /\ wpc' = [wpc EXCEPT ![w] = "off"] /\ wg' = wg - 1
    BY <1>10 DEF Release
  <2>2. Awaited' /\ wg' \in Nat
    BY <2>1, DoneCounts DEF Control
  <2>3. Running' \subseteq Running
    BY <2>1 DEF Control, TypeOK, Running
  <2>4. TypeOK'
    BY <1>10, <2>2 DEF Control, TypeOK, Release, mainVars, measureVars
  <2>5. CallOK' /\ PhaseBarrier' /\ (Running \subseteq Active)'
    BY <1>10, <2>3 DEF Control, TypeOK, CallOK, PhaseBarrier, Active, Release, WarmPcs, MeasurePcs, mainVars
  <2> QED
    BY <2>2, <2>4, <2>5 DEF Control
<1> QED
  BY <1>1, <1>2, <1>3, <1>4, <1>5, <1>6, <1>7, <1>8, <1>9, <1>10 DEF WorkerStep

LEMMA ControlMain ==
    ASSUME Control, Main \/ Tick \/ UNCHANGED vars
    PROVE  Control'
<1>1. CASE WarmJoin
  <2>1. \A w \in Worker : wpc[w] = "off"
    BY <1>1, JoinedMeansOff DEF Control, WarmJoin
  <2>2. TypeOK' /\ CallOK' /\ Awaited' /\ (Running \subseteq Active)'
    BY <1>1 DEF Control, TypeOK, CallOK, Awaited, Running, Active, WarmJoin, measureVars
  <2>3. PhaseBarrier'
    BY <1>1, <2>1 DEF PhaseBarrier, WarmJoin, WarmPcs, MeasurePcs
  <2> QED
    BY <2>2, <2>3 DEF Control
<1>2. CASE StartMeasure
  <2>1. call.threads \in 1 .. MaxThreads
    BY <1>2 DEF Control, CallOK, StartMeasure
  <2>2. wpc' = Started(call.threads, "check") /\ wg' = Added(call.threads)
    BY <1>2 DEF StartMeasure
  <2>3. Awaited' /\ Running' = Active
    BY <2>1, <2>2, StartCounts DEF Active
  <2>4. TypeOK'
    BY <1>2, <2>1 DEF Control, TypeOK, StartMeasure, measureVars, Started, Added, MeasurePcs
  <2>5. CallOK' /\ PhaseBarrier' /\ (Running \subseteq Active)'
    BY <1>2, <2>3 DEF Control, CallOK, PhaseBarrier, Active, StartMeasure,
                      Started, WarmPcs, MeasurePcs
  <2> QED
    BY <2>3, <2>4, <2>5 DEF Control
<1>3. CASE Finalize
  <2>1. \A w \in Worker : wpc[w] = "off"
    BY <1>3, JoinedMeansOff DEF Control, Finalize
  <2>2. /\ DOMAIN result'.samples = Places(perG)
        /\ \A place \in Places(perG) :
              result'.samples[place] = perG[place[1]][place[2]]
        /\ result'.total = clock
        /\ result'.verified = Verify(firsts[0])
    BY <1>3 DEF Finalize, Merged
  <2>3. Places(perG) \subseteq Worker \X (1 .. MaxIter)
    <3>1. Active \subseteq Worker
      BY <1>3, RunnerAssumption DEF Control, CallOK, Finalize, Active, Worker
    <3> QED
      BY <3>1 DEF Places
  <2>4. \A place \in Places(perG) : perG[place[1]][place[2]] \in Sample
    BY <2>3 DEF Control, TypeOK, Places
  <2>5. Verify(firsts[0]) \in BOOLEAN
    BY DEF Verify
  <2>6. gomaxprocs' \in Nat
    BY <1>3 DEF Control, TypeOK, Frame, Finalize, RestoredProcs
  <2>7. /\ UNCHANGED <<call, calls, instances, t0, clock, wg, scratch, wpc, sink>>
        /\ pc' = "idle"
        /\ local' \in [Worker -> Seq(Sample)] /\ perG' \in [Worker -> Seq(Sample)]
        /\ last' \in [Worker -> Worker \cup {Nil}]
        /\ firsts' \in [Worker -> Worker \cup {Nil}]
    BY <1>3 DEF Finalize, Fresh
  <2>8. TypeOK'
    BY <2>2, <2>3, <2>4, <2>5, <2>6, <2>7 DEF Control, TypeOK
  <2>9. CallOK' /\ PhaseBarrier' /\ Awaited' /\ (Running \subseteq Active)'
    BY <2>1, <2>7 DEF Control, CallOK, PhaseBarrier, Awaited, Running, Active,
                      WarmPcs, MeasurePcs
  <2> QED
    BY <2>8, <2>9 DEF Control
<1>4. CASE Tick
  BY <1>4 DEF Control, TypeOK, CallOK, PhaseBarrier, Awaited, Running, Active,
              Tick, mainVars, measureVars
<1>5. CASE UNCHANGED vars
  BY <1>5 DEF Control, TypeOK, CallOK, PhaseBarrier, Awaited, Running, Active,
              vars, mainVars, measureVars
<1> QED
  BY <1>1, <1>2, <1>3, <1>4, <1>5 DEF Main

LEMMA ControlStep == Control /\ [Next]_vars => Control'
BY ControlCall, ControlWorker, ControlMain DEF Next, Terminated

\* The types of all variables; above all, that the WaitGroup's counter never
\* goes negative, which would make Done panic.
THEOREM RunnerTypeOK == Spec => []TypeOK
<1>1. Spec => []Control
  BY ControlInit, ControlStep, PTL DEF Spec
<1>2. Control => TypeOK
  BY DEF Control
<1> QED
  BY <1>1, <1>2, PTL

\* No goroutine of the warm-up is still running when the collector runs, or
\* when the measurement starts, and none of the measurement after the return.
THEOREM RunnerPhaseBarrier == Spec => []PhaseBarrier
<1>1. Spec => []Control
  BY ControlInit, ControlStep, PTL DEF Spec
<1>2. Control => PhaseBarrier
  BY DEF Control
<1> QED
  BY <1>1, <1>2, PTL
-----------------------------------------------------------------------------
(* The second layer.                                                       *)

\* Outside a measurement no goroutine holds a sample or a result.
NothingHeld ==
    pc # "measure" =>
        \A w \in Worker : /\ local[w] = <<>> /\ perG[w] = <<>>
                          /\ last[w] = Nil /\ firsts[w] = Nil

\* measureLoop has a result exactly when it has a sample, and it is a result
\* of the goroutine's own instance.
LastKnown ==
    \A w \in Worker : /\ last[w] = Nil <=> local[w] = <<>>
                      /\ last[w] # Nil => last[w] = w /\ w \in Active

Bounded ==
    \A w \in Worker : /\ Len(local[w]) <= MaxIter
                      /\ wpc[w] \in {"timing", "run"} => Len(local[w]) < MaxIter

\* What a goroutine has handed over when it is past the loop.
HandedOver ==
    pc = "measure" =>
        \A w \in Active :
            /\ wpc[w] \in {"publish", "release", "off"}
                  => firsts[w] = last[w] /\ clock >= call.duration
            /\ wpc[w] \in {"release", "off"} => perG[w] = local[w]

\* Outside an iteration the buffers behind a goroutine's result are whole.
Buffers ==
    pc = "measure" =>
        \A w \in Active : wpc[w] # "run" /\ last[w] # Nil => scratch[w] = "result"

\* The times of the samples of a goroutine.
Times ==
    \A w \in Worker :
        /\ \A k \in 1 .. Len(local[w]) :
              /\ local[w][k].start <= local[w][k].end
              /\ local[w][k].end <= clock
              /\ k > 1 => local[w][k - 1].end <= local[w][k].start
              /\ k < Len(local[w]) => local[w][k].end < call.duration
              /\ wpc[w] \in {"timing", "run"} => local[w][k].end < call.duration
              /\ wpc[w] = "run" => local[w][k].end <= t0[w]
        /\ wpc[w] = "run" => t0[w] <= clock

Data ==
    /\ NothingHeld
    /\ LastKnown
    /\ Bounded
    /\ HandedOver
    /\ Buffers
    /\ Times

LEMMA ActiveWorkers == Control /\ pc # "idle" => Active \subseteq Worker /\ 0 \in Active
BY RunnerAssumption DEF Control, CallOK, Active, Worker

LEMMA DataInit == Init => Data
BY RunnerAssumption DEF Init, Fresh, Data, NothingHeld, LastKnown, Bounded,
                        HandedOver, Buffers, Times

LEMMA DataCall ==
    ASSUME Control, Data, NEW b \in Benchmarks, NEW c \in Configs, Call(b, c)
    PROVE  Data'
<1>1. pc = "idle" /\ pc' = "warm" /\ UNCHANGED measureVars
  BY DEF Call
<1>2. \A w \in Worker : /\ local'[w] = <<>> /\ perG'[w] = <<>>
                        /\ last'[w] = Nil /\ firsts'[w] = Nil
  BY <1>1 DEF Data, NothingHeld, measureVars
<1>3. \A w \in Worker : wpc'[w] \in {"warm", "off"}
  BY DEF Call, Started
<1> QED
  BY <1>1, <1>2, <1>3, RunnerAssumption
     DEF Data, NothingHeld, LastKnown, Bounded, HandedOver, Buffers, Times

LEMMA DataWarmUp ==
    ASSUME Control, Data, NEW w \in Worker,
           WarmBegin(w) \/ WarmEnd(w) \/ WarmStore(w) \/ WarmExit(w)
    PROVE  Data'
<1>1. pc = "warm" /\ UNCHANGED <<mainVars, measureVars, clock>>
  BY DEF Control, PhaseBarrier, WarmPcs, WarmBegin, WarmEnd, WarmStore, WarmExit
<1>2. \A v \in Worker : /\ local'[v] = <<>> /\ perG'[v] = <<>>
                        /\ last'[v] = Nil /\ firsts'[v] = Nil
  BY <1>1 DEF Data, NothingHeld, measureVars
<1>3. \A v \in Worker : wpc'[v] \notin {"timing", "run"}
  BY <1>1 DEF Control, TypeOK, PhaseBarrier, WarmPcs, MeasurePcs,
              WarmBegin, WarmEnd, WarmStore, WarmExit
<1> QED
  BY <1>1, <1>2, <1>3, RunnerAssumption
     DEF Data, NothingHeld, LastKnown, Bounded, HandedOver, Buffers, Times, mainVars

\* A goroutine inside the measurement.
LEMMA Measuring ==
    ASSUME Control, NEW w \in Worker, wpc[w] \in MeasurePcs
    PROVE  pc = "measure" /\ w \in Active /\ w \in Running /\ instances[w] = w
<1>1. pc = "measure" /\ w \in Running /\ w \in Active
  BY DEF Control, PhaseBarrier, Running, MeasurePcs
<1> QED
  BY <1>1, RunnerAssumption DEF Control, CallOK, NewInstances, Active, Worker

LEMMA DataCheck ==
    ASSUME Control, Data, NEW w \in Worker, MeasureCheck(w)
    PROVE  Data'
<1>1. pc = "measure" /\ w \in Active
  BY Measuring DEF MeasureCheck, MeasurePcs
<1>2. /\ wpc[w] = "check" /\ wpc' = [wpc EXCEPT ![w] = "timing"]
      /\ clock < call.duration /\ Len(local[w]) < MaxIter
      /\ UNCHANGED <<mainVars, measureVars, clock, scratch>>
  BY <1>1 DEF MeasureCheck, BeforeDeadline, Deadline
<1> USE <1>1, <1>2 DEF mainVars, measureVars, Active
<1>3. NothingHeld' /\ LastKnown' /\ Buffers'
  BY DEF Control, TypeOK, Data, NothingHeld, LastKnown, Buffers
<1>4. Bounded' /\ HandedOver'
  BY DEF Control, TypeOK, Data, Bounded, HandedOver
<1>5. Times'
  <2> SUFFICES ASSUME NEW v \in Worker
               PROVE  /\ \A k \in 1 .. Len(local[v]) :
                            wpc'[v] \in {"timing", "run"} => local[v][k].end < call.duration
                      /\ wpc'[v] = "run" => wpc[v] = "run"
    BY DEF Control, TypeOK, Data, Times
  <2>1. \A k \in 1 .. Len(local[v]) :
            /\ local[v][k].end <= clock
            /\ wpc[v] \in {"timing", "run"} => local[v][k].end < call.duration
            /\ local[v][k].end \in Nat
    <3>1. \A k \in 1 .. Len(local[v]) : local[v][k] \in Sample
      BY DEF Control, TypeOK
    <3>2. \A k \in 1 .. Len(local[v]) : local[v][k].end \in Nat
      BY <3>1 DEF Sample
    <3> QED
      BY <3>2 DEF Data, Times
  <2> QED
    BY <2>1 DEF Control, TypeOK, Frame
<1> QED
  BY <1>3, <1>4, <1>5 DEF Data

LEMMA DataBegin ==
    ASSUME Control, Data, NEW w \in Worker, BeginIteration(w)
    PROVE  Data'
<1>1. pc = "measure" /\ w \in Active /\ instances[w] = w
  BY Measuring DEF BeginIteration, MeasurePcs
<1>2. /\ wpc[w] = "timing" /\ wpc' = [wpc EXCEPT ![w] = "run"]
      /\ t0' = [t0 EXCEPT ![w] = clock]
      /\ scratch' = [scratch EXCEPT ![w] = "partial"]
      /\ UNCHANGED <<mainVars, local, last, perG, firsts, clock>>
  BY <1>1 DEF BeginIteration
<1> USE <1>1, <1>2 DEF mainVars, Active
<1>3. NothingHeld' /\ LastKnown'
  BY DEF Control, TypeOK, Data, NothingHeld, LastKnown
<1>4. Bounded' /\ HandedOver' /\ Buffers'
  BY ActiveWorkers DEF Control, TypeOK, Data, Bounded, HandedOver, Buffers
<1>5. Times'
  <2>1. ASSUME NEW v \in Worker
        PROVE  /\ wpc'[v] = "run" => wpc[v] = "run" \/ v = w
               /\ wpc'[v] \in {"timing", "run"} => wpc[v] \in {"timing", "run"}
               /\ t0'[v] = IF v = w THEN clock ELSE t0[v]
    BY DEF Control, TypeOK
  <2>2. local' = local /\ clock' = clock /\ call' = call /\ clock \in Nat
    BY DEF Control, TypeOK
  <2> QED
    BY <2>1, <2>2 DEF Data, Times
<1> QED
  BY <1>3, <1>4, <1>5 DEF Data

LEMMA DataEnd ==
    ASSUME Control, Data, NEW w \in Worker, EndIteration(w)
    PROVE  Data'
<1>1. pc = "measure" /\ w \in Active /\ instances[w] = w
  BY Measuring DEF EndIteration, MeasurePcs
<1> DEFINE s == SampleNow(w)
<1>2. /\ wpc[w] = "run" /\ wpc' = [wpc EXCEPT ![w] = "check"]
      /\ scratch' = [scratch EXCEPT ![w] = "result"]
      /\ last' = [last EXCEPT ![w] = w]
      /\ local' = [local EXCEPT ![w] = Append(@, s)]
      /\ t0' = [t0 EXCEPT ![w] = 0]
      /\ UNCHANGED <<mainVars, perG, firsts, clock>>
  BY <1>1 DEF EndIteration
<1>3. s.start = t0[w] /\ s.end = clock /\ s \in Sample
  BY DEF SampleNow, Sample, Control, TypeOK
<1> HIDE DEF s
<1>4. /\ local[w] \in Seq(Sample) /\ local'[w] = Append(local[w], s)
      /\ Len(local'[w]) = Len(local[w]) + 1
      /\ local'[w][Len(local[w]) + 1] = s
      /\ \A k \in 1 .. Len(local[w]) : local'[w][k] = local[w][k]
      /\ \A v \in Worker : v # w => local'[v] = local[v]
      /\ Len(local[w]) \in Nat
  BY <1>2, <1>3 DEF Control, TypeOK
<1>5. NothingHeld' /\ LastKnown'
  <2>1. pc' = "measure"
    BY <1>1, <1>2 DEF mainVars
  <2>2. local'[w] # <<>> /\ w # Nil
    BY <1>4, RunnerAssumption DEF Worker
  <2> QED
    BY <1>1, <1>2, <1>4, <2>1, <2>2
       DEF Control, TypeOK, Data, NothingHeld, LastKnown, mainVars, Active
<1>6. Bounded'
  <2>1. Len(local[w]) < MaxIter
    BY <1>2 DEF Data, Bounded
  <2>2. Len(local'[w]) <= MaxIter
    BY <1>4, <2>1, RunnerAssumption
  <2> QED
    BY <1>2, <1>4, <2>2 DEF Control, TypeOK, Data, Bounded
<1>7. HandedOver' /\ Buffers'
  BY <1>1, <1>2, <1>4, ActiveWorkers
     DEF Control, TypeOK, Data, HandedOver, Buffers, mainVars, Active
<1>8. Times'
  <2>1. ASSUME NEW k \in 1 .. Len(local[w])
        PROVE  /\ local[w][k].start <= local[w][k].end
               /\ local[w][k].end <= clock
               /\ k > 1 => local[w][k - 1].end <= local[w][k].start
               /\ local[w][k].end < call.duration
               /\ local[w][k].end <= t0[w]
    BY <1>2 DEF Data, Times
  <2>2. t0[w] <= clock
    BY <1>2 DEF Data, Times
  <2>3. ASSUME NEW k \in 1 .. Len(local'[w])
        PROVE  /\ local'[w][k].start <= local'[w][k].end
               /\ local'[w][k].end <= clock
               /\ k > 1 => local'[w][k - 1].end <= local'[w][k].start
               /\ k < Len(local'[w]) => local'[w][k].end < call.duration
    <3>1. CASE k \in 1 .. Len(local[w])
      BY <1>4, <2>1, <3>1
    <3>2. CASE k = Len(local[w]) + 1
      <4>1. local'[w][k] = s /\ s.end = clock /\ s.start = t0[w]
        BY <1>3, <1>4, <3>2
      <4>2. k > 1 => /\ k - 1 \in 1 .. Len(local[w])
                     /\ local'[w][k - 1] = local[w][k - 1]
        BY <1>4, <3>2
      <4>3. k > 1 => local[w][k - 1].end <= t0[w]
        BY <2>1, <4>2
      <4> QED
        BY <1>4, <2>2, <3>2, <4>1, <4>2, <4>3 DEF Control, TypeOK
    <3> QED
      BY <1>4, <3>1, <3>2
  <2>4. ASSUME NEW v \in Worker
        PROVE  /\ v # w => /\ local'[v] = local[v] /\ wpc'[v] = wpc[v]
                           /\ t0'[v] = t0[v]
               /\ wpc'[w] = "check"
    BY <1>2 DEF Control, TypeOK
  <2>5. clock' = clock /\ call' = call
    BY <1>2 DEF mainVars
  <2> QED
    BY <2>3, <2>4, <2>5 DEF Data, Times
<1> QED
  BY <1>5, <1>6, <1>7, <1>8 DEF Data

LEMMA DataHandOver ==
    ASSUME Control, Data, NEW w \in Worker,
           MeasureExit(w) \/ Publish(w) \/ Release(w)
    PROVE  Data'
<1>1. pc = "measure" /\ w \in Active
  BY Measuring DEF MeasureExit, Publish, Release, MeasurePcs
<1>2. UNCHANGED <<mainVars, t0, local, last, clock, scratch>>
  BY DEF MeasureExit, Publish, Release, measureVars
<1>3. \A v \in Worker : /\ wpc'[v] \in {"timing", "run"} => wpc[v] \in {"timing", "run"}
                        /\ wpc'[v] = "run" <=> wpc[v] = "run"
  BY DEF MeasureExit, Publish, Release, Control, TypeOK
<1>4. NothingHeld' /\ LastKnown' /\ Bounded' /\ Times'
  BY <1>1, <1>2, <1>3
     DEF Data, NothingHeld, LastKnown, Bounded, Times, mainVars, Active
<1>5. Buffers'
  BY <1>1, <1>2, <1>3, ActiveWorkers DEF Data, Buffers, mainVars, Active
<1>6. HandedOver'
  <2>1. CASE MeasureExit(w)
    <3>1. clock >= call.duration
      BY <1>1, <2>1 DEF MeasureExit, BeforeDeadline, Deadline, Control, TypeOK, Frame
    <3>2. /\ wpc' = [wpc EXCEPT ![w] = "publish"] /\ perG' = perG
          /\ firsts' = [firsts EXCEPT ![w] = last[w]]
      BY <2>1 DEF MeasureExit
    <3> QED
      BY <1>1, <1>2, <3>1, <3>2, ActiveWorkers
         DEF Control, TypeOK, Data, HandedOver, mainVars, Active
  <2>2. CASE Publish(w)
    <3>1. /\ wpc[w] = "publish" /\ wpc' = [wpc EXCEPT ![w] = "release"]
          /\ perG' = [perG EXCEPT ![w] = local[w]] /\ firsts' = firsts
      BY <2>2 DEF Publish
    <3> QED
      BY <1>1, <1>2, <3>1, ActiveWorkers
         DEF Control, TypeOK, Data, HandedOver, mainVars, Active
  <2>3. CASE Release(w)
    <3>1. /\ wpc[w] = "release" /\ wpc' = [wpc EXCEPT ![w] = "off"]
          /\ perG' = perG /\ firsts' = firsts
      BY <2>3 DEF Release, measureVars
    <3> QED
      BY <1>1, <1>2, <3>1, ActiveWorkers
         DEF Control, TypeOK, Data, HandedOver, mainVars, Active
  <2> QED
    BY <2>1, <2>2, <2>3
<1> QED
  BY <1>4, <1>5, <1>6 DEF Data

LEMMA DataMain ==
    ASSUME Control, Data, Main \/ Tick \/ UNCHANGED vars
    PROVE  Data'
<1>1. CASE WarmJoin
  BY <1>1 DEF Data, NothingHeld, LastKnown, Bounded, HandedOver, Buffers, Times,
              WarmJoin, measureVars, Active
<1>2. CASE StartMeasure
  <2>1. \A w \in Worker : /\ local'[w] = <<>> /\ perG'[w] = <<>>
                          /\ last'[w] = Nil /\ firsts'[w] = Nil
    BY <1>2 DEF Data, NothingHeld, StartMeasure, measureVars
  <2>2. \A w \in Worker : wpc'[w] \in {"check", "off"}
    BY <1>2 DEF StartMeasure, Started
  <2>3. \A w \in Active : w \in Worker /\ wpc'[w] = "check"
    BY <1>2, ActiveWorkers DEF Control, CallOK, StartMeasure, Started, Active
  <2>4. pc' = "measure" /\ call' = call /\ Active' = Active
    BY <1>2 DEF StartMeasure, Active
  <2> QED
    BY <2>1, <2>2, <2>3, <2>4, RunnerAssumption
       DEF Data, NothingHeld, LastKnown, Bounded, HandedOver, Buffers, Times
<1>3. CASE Finalize
  <2>1. \A w \in Worker : /\ local'[w] = <<>> /\ perG'[w] = <<>>
                          /\ last'[w] = Nil /\ firsts'[w] = Nil
    BY <1>3 DEF Finalize, Fresh
  <2>2. \A w \in Worker : wpc'[w] = "off"
    BY <1>3, JoinedMeansOff DEF Control, Finalize
  <2>3. pc' = "idle"
    BY <1>3 DEF Finalize
  <2> QED
    BY <2>1, <2>2, <2>3, RunnerAssumption
       DEF Data, NothingHeld, LastKnown, Bounded, HandedOver, Buffers, Times
<1>4. CASE Tick
  <2>1. /\ clock' = clock + 1 /\ clock \in Nat /\ call.duration \in Nat
        /\ UNCHANGED <<mainVars, measureVars, scratch, wpc>>
    BY <1>4 DEF Tick, Control, TypeOK, Frame
  <2>2. NothingHeld' /\ LastKnown' /\ Bounded' /\ HandedOver' /\ Buffers'
    BY <2>1 DEF Data, NothingHeld, LastKnown, Bounded, HandedOver, Buffers,
                mainVars, measureVars, Active
  <2>3. ASSUME NEW w \in Worker, NEW k \in 1 .. Len(local[w])
        PROVE  local[w][k].end \in Nat
    <3>1. local[w][k] \in Sample
      BY DEF Control, TypeOK
    <3> QED
      BY <3>1 DEF Sample
  <2>4. \A w \in Worker : t0[w] \in Nat
    BY DEF Control, TypeOK
  <2>5. Times'
    BY <2>1, <2>3, <2>4 DEF Data, Times, mainVars, measureVars
  <2> QED
    BY <2>2, <2>5 DEF Data
<1>5. CASE UNCHANGED vars
  BY <1>5 DEF Data, NothingHeld, LastKnown, Bounded, HandedOver, Buffers, Times,
              vars, mainVars, measureVars, Active
<1> QED
  BY <1>1, <1>2, <1>3, <1>4, <1>5 DEF Main

LEMMA DataStep == Control /\ Data /\ [Next]_vars => Data'
BY DataCall, DataWarmUp, DataCheck, DataBegin, DataEnd, DataHandOver, DataMain
   DEF Next, WorkerStep, Terminated
-----------------------------------------------------------------------------
(* What the call returns.                                                  *)

\* When wg.Wait returns, every goroutine has handed over what it holds, and
\* the merge takes all of it.
LEMMA Merge ==
    ASSUME Control, Data, Finalize
    PROVE  /\ pc = "measure" /\ pc' = "idle"
           /\ \A w \in Active : /\ perG[w] = local[w] /\ firsts[w] = last[w]
                                /\ wpc[w] = "off" /\ clock >= call.duration
           /\ DOMAIN result'.samples = Taken
           /\ \A place \in Taken : result'.samples[place] = local[place[1]][place[2]]
           /\ result'.total = clock
           /\ result'.verified = Verify(firsts[0])
<1>1. pc = "measure" /\ \A w \in Worker : wpc[w] = "off"
  BY JoinedMeansOff DEF Control, Finalize
<1>2. \A w \in Active : /\ perG[w] = local[w] /\ firsts[w] = last[w]
                        /\ wpc[w] = "off" /\ clock >= call.duration
  BY <1>1, ActiveWorkers DEF Data, HandedOver
<1>3. /\ DOMAIN result'.samples = Places(perG)
      /\ \A place \in Places(perG) :
            result'.samples[place] = perG[place[1]][place[2]]
  BY DEF Finalize, Merged
<1>4. Places(perG) = Taken
  BY <1>2 DEF Places, Taken
<1>5. \A place \in Taken : perG[place[1]][place[2]] = local[place[1]][place[2]]
  BY <1>2 DEF Taken
<1>6. pc' = "idle" /\ result'.total = clock /\ result'.verified = Verify(firsts[0])
  BY DEF Finalize
<1> QED
  BY <1>1, <1>2, <1>3, <1>4, <1>5, <1>6

Outcome == SamplesInWindow /\ OneLateSample /\ DurationHonoured /\ VerdictOfWorker0

LEMMA OutcomeFinal ==
    ASSUME Control, Data, Finalize
    PROVE  Outcome'
<1>1. /\ pc = "measure" /\ call' = call
      /\ \A w \in Active : clock >= call.duration /\ firsts[w] = last[w] /\ wpc[w] = "off"
      /\ DOMAIN result'.samples = Taken
      /\ result'.total = clock
      /\ result'.verified = Verify(firsts[0])
  BY Merge DEF Finalize
<1>2. Active \subseteq Worker /\ 0 \in Active
  BY <1>1, ActiveWorkers
<1>3. ASSUME NEW w \in Worker, NEW k \in 1 .. MaxIter
      PROVE  <<w, k>> \in Taken <=> w \in Active /\ k <= Len(local[w])
  BY DEF Taken
<1>4. ASSUME NEW w \in Worker, NEW k \in 1 .. MaxIter, <<w, k>> \in Taken
      PROVE  /\ result'.samples[<<w, k>>] = local[w][k]
             /\ k \in 1 .. Len(local[w])
             /\ k > 1 => /\ <<w, k - 1>> \in Taken
                         /\ result'.samples[<<w, k - 1>>] = local[w][k - 1]
             /\ <<w, k + 1>> \in Taken => k < Len(local[w])
  <2>1. w \in Active /\ k <= Len(local[w]) /\ Len(local[w]) \in Nat
    BY <1>3, <1>4 DEF Control, TypeOK
  <2>2. k > 1 => k - 1 \in 1 .. MaxIter /\ k - 1 <= Len(local[w])
    BY <2>1, RunnerAssumption
  <2>3. k > 1 => <<w, k - 1>> \in Taken
    BY <2>1, <2>2 DEF Taken
  <2>4. <<w, k + 1>> \in Taken => k + 1 <= Len(local[w])
    BY DEF Taken
  <2>5. \A place \in Taken : result'.samples[place] = local[place[1]][place[2]]
    BY Merge
  <2> QED
    BY <1>4, <2>1, <2>3, <2>4, <2>5
<1>5. SamplesInWindow'
  BY <1>1, <1>4 DEF SamplesInWindow, Data, Times
<1>6. OneLateSample'
  BY <1>1, <1>4 DEF OneLateSample, Data, Times
<1>7. DurationHonoured'
  BY <1>1, <1>2 DEF DurationHonoured
<1>8. VerdictOfWorker0'
  <2>1. <<0, 1>> \in Taken <=> local[0] # <<>>
    <3>1. 0 \in Worker /\ local[0] \in Seq(Sample) /\ 1 \in 1 .. MaxIter
      BY <1>2, RunnerAssumption DEF Control, TypeOK
    <3>2. local[0] # <<>> <=> 1 <= Len(local[0])
      BY <3>1
    <3> QED
      BY <1>2, <1>3, <3>1, <3>2
  <2>2. firsts[0] = last[0] /\ wpc[0] = "off" /\ 0 \in Worker
    BY <1>1, <1>2
  <2>3. last[0] = Nil <=> local[0] = <<>>
    BY <2>2 DEF Data, LastKnown
  <2>4. last[0] # Nil => last[0] = 0 /\ scratch[0] = "result"
    BY <1>1, <1>2, <2>2 DEF Data, LastKnown, Buffers
  <2>5. Verify(firsts[0]) <=> last[0] # Nil
    BY <2>2, <2>4 DEF Verify
  <2> QED
    BY <1>1, <2>1, <2>3, <2>5 DEF VerdictOfWorker0
<1> QED
  BY <1>5, <1>6, <1>7, <1>8 DEF Outcome

\* Only Finalize brings the caller back, and a result stays until the next call.
LEMMA OnlyFinalizeReturns ==
    ASSUME Control, [Next]_vars, pc' = "idle", ~Finalize
    PROVE  UNCHANGED vars
<1>1. \A b \in Benchmarks, c \in Configs : ~Call(b, c)
  BY DEF Call
<1>2. ASSUME NEW w \in Worker, WorkerStep(w) PROVE FALSE
  <2>1. pc' = pc
    BY <1>2 DEF WorkerStep, WarmBegin, WarmEnd, WarmStore, WarmExit, MeasureCheck,
                BeginIteration, EndIteration, MeasureExit, Publish, Release, mainVars
  <2>2. wpc[w] \in WarmPcs \cup MeasurePcs
    BY <1>2 DEF WorkerStep, WarmBegin, WarmEnd, WarmStore, WarmExit, MeasureCheck,
                BeginIteration, EndIteration, MeasureExit, Publish, Release,
                WarmPcs, MeasurePcs
  <2> QED
    BY <2>1, <2>2 DEF Control, PhaseBarrier
<1>3. ~WarmJoin /\ ~StartMeasure /\ ~Tick
  BY DEF WarmJoin, StartMeasure, Tick, mainVars
<1> QED
  BY <1>1, <1>2, <1>3 DEF Next, Main, Terminated

LEMMA OutcomeStep == Control /\ Data /\ Outcome /\ [Next]_vars => Outcome'
<1> SUFFICES ASSUME Control, Data, Outcome, [Next]_vars PROVE Outcome'
  OBVIOUS
<1>1. CASE Finalize
  BY <1>1, OutcomeFinal
<1>2. CASE pc' # "idle"
  BY <1>2 DEF Outcome, SamplesInWindow, OneLateSample, DurationHonoured,
              VerdictOfWorker0, Returned
<1>3. CASE pc' = "idle" /\ ~Finalize
  BY <1>3, OnlyFinalizeReturns
     DEF vars, mainVars, Outcome, SamplesInWindow, OneLateSample, DurationHonoured,
         VerdictOfWorker0, Returned
<1> QED
  BY <1>1, <1>2, <1>3

LEMMA OutcomeInit == Init => Outcome
BY DEF Init, Outcome, SamplesInWindow, OneLateSample, DurationHonoured,
       VerdictOfWorker0, Returned

LEMMA Invariance == Spec => [](Control /\ Data /\ Outcome)
BY ControlInit, DataInit, OutcomeInit, ControlStep, DataStep, OutcomeStep, PTL
   DEF Spec

\* The samples of a run lie inside its measured window and do not overlap.
THEOREM RunnerSamplesInWindow == Spec => []SamplesInWindow
<1>1. Outcome => SamplesInWindow
  BY DEF Outcome
<1> QED
  BY <1>1, Invariance, PTL

\* A measurement is never shorter than configured, and no goroutine begins an
\* iteration after one that ended past the deadline.
THEOREM RunnerDeadlineHonoured == Spec => []DeadlineHonoured
<1>1. Outcome => DeadlineHonoured
  BY DEF Outcome, DeadlineHonoured
<1> QED
  BY <1>1, Invariance, PTL

\* The statistics of every run that measured something are latencies it
\* measured, in order, and no longer than the run.
THEOREM RunnerStatsOrdered == Spec => []StatsOrdered
<1>1. TypeOK /\ SamplesInWindow => StatsOrdered
  <2> SUFFICES ASSUME TypeOK, SamplesInWindow, Returned, DOMAIN result.samples # {}
               PROVE  LET stats == Compute(Latencies) IN
                      /\ stats.median <= stats.p95
                      /\ stats.p95 <= stats.p99
                      /\ stats.p99 <= result.total
                      /\ {stats.median, stats.p95, stats.p99}
                             \subseteq {Latencies[place] : place \in DOMAIN Latencies}
    BY DEF StatsOrdered
  <2> DEFINE D == DOMAIN result.samples
  <2>1. DOMAIN Latencies = D /\ \A place \in D : Latencies[place] = Elapsed(result.samples[place])
    BY DEF Latencies
  <2>2. \A place \in D : result.samples[place] \in Sample
    BY DEF TypeOK
  <2>3. Latencies \in [D -> Int]
    BY <2>2 DEF Latencies, Elapsed, Sample
  <2>4. IsFiniteSet(D)
    <3>1. IsFiniteSet(1 .. MaxIter)
      BY FS_Interval, RunnerAssumption
    <3>2. IsFiniteSet(Worker \X (1 .. MaxIter))
      BY <3>1, WorkersFinite, FS_Product
    <3> QED
      BY <3>2, FS_Subset DEF TypeOK
  <2>5. Slice(Latencies)
    BY <2>1, <2>3, <2>4 DEF Slice
  <2>6. \A v \in Values(Latencies) : v <= result.total
    <3> SUFFICES ASSUME NEW place \in D
                 PROVE  Elapsed(result.samples[place]) <= result.total
      BY <2>1 DEF Values
    <3>1. PICK w \in Worker, k \in 1 .. MaxIter : place = <<w, k>>
      BY DEF TypeOK
    <3>2. result.samples[place].end <= result.total
      BY <3>1 DEF SamplesInWindow
    <3>3. result.samples[place] \in Sample /\ result.total \in Nat
      BY <2>2 DEF TypeOK
    <3> QED
      BY <3>2, <3>3 DEF Sample, Elapsed
  <2>7. /\ Percentile(Latencies, 50) <= Percentile(Latencies, 95)
        /\ Percentile(Latencies, 95) <= Percentile(Latencies, 99)
    BY <2>5, PercentilesOrdered
  <2>8. {Percentile(Latencies, 50), Percentile(Latencies, 95), Percentile(Latencies, 99)}
            \subseteq Values(Latencies)
    BY <2>5, PercentileValue
  <2> QED
    BY <2>6, <2>7, <2>8 DEF Compute, Values
<1>2. Control => TypeOK
  BY DEF Control
<1>3. Outcome => SamplesInWindow
  BY DEF Outcome
<1> QED
  BY <1>1, <1>2, <1>3, Invariance, PTL

\* Verified tells whether goroutine 0 measured an iteration.
THEOREM RunnerVerdict == Spec => []VerdictOfWorker0
<1>1. Outcome => VerdictOfWorker0
  BY DEF Outcome
<1> QED
  BY <1>1, Invariance, PTL

\* The buffers behind a result that was handed over are not written again
\* before Verify reads them.
THEOREM RunnerHandedOverIntact == Spec => []HandedOverIntact
<1>1. ASSUME Control, Data PROVE HandedOverIntact
  <2> SUFFICES ASSUME NEW w \in Worker, pc = "measure", w \in Active,
                      wpc[w] \in {"publish", "release", "off"}
               PROVE  firsts[w] = Nil \/ scratch[firsts[w]] = "result"
    BY DEF HandedOverIntact
  <2>1. firsts[w] = last[w]
    BY <1>1 DEF Data, HandedOver
  <2>2. last[w] # Nil => last[w] = w /\ scratch[w] = "result"
    BY <1>1 DEF Data, LastKnown, Buffers
  <2> QED
    BY <2>1, <2>2
<1> QED
  BY <1>1, Invariance, PTL

\* Run hands back every sample its goroutines took.
THEOREM RunnerNoSampleLost == Spec => NoSampleLost
<1> DEFINE Handed ==
        pc = "measure" /\ pc' = "idle" =>
            /\ DOMAIN result'.samples = Taken
            /\ \A place \in DOMAIN result'.samples :
                  result'.samples[place] = local[place[1]][place[2]]
<1>1. ASSUME Control, Data, [Next]_vars PROVE Handed
  <2>1. CASE Finalize
    BY <1>1, <2>1, Merge
  <2>2. CASE ~Finalize
    BY <1>1, <2>2, OnlyFinalizeReturns DEF vars, mainVars
  <2> QED
    BY <2>1, <2>2
<1>2. Handed => [pc = "measure" /\ pc' = "idle" =>
          /\ DOMAIN result'.samples =
                {place \in Active \X (1 .. MaxIter) : place[2] <= Len(local[place[1]])}
          /\ \A place \in DOMAIN result'.samples :
                result'.samples[place] = local[place[1]][place[2]]]_vars
  BY DEF Taken
<1> HIDE DEF Handed
<1> QED
  BY <1>1, <1>2, Invariance, PTL DEF Spec, NoSampleLost
-----------------------------------------------------------------------------
(* GOMAXPROCS.                                                             *)

Procs == ProcsRestored /\ (pc # "idle" => call.prev = InitialProcs)

LEMMA ProcsStep == Control /\ Procs /\ [Next]_vars => Procs'
<1> SUFFICES ASSUME Control, Procs, [Next]_vars PROVE Procs'
  OBVIOUS
<1>1. ASSUME NEW b \in Benchmarks, NEW c \in Configs, Call(b, c) PROVE Procs'
  BY <1>1 DEF Procs, ProcsRestored, Call
<1>2. ASSUME NEW w \in Worker, WorkerStep(w) PROVE UNCHANGED mainVars
  BY <1>2 DEF WorkerStep, WarmBegin, WarmEnd, WarmStore, WarmExit, MeasureCheck,
              BeginIteration, EndIteration, MeasureExit, Publish, Release
<1>3. CASE UNCHANGED mainVars
  BY <1>3 DEF Procs, ProcsRestored, mainVars
<1>4. CASE Main
  BY <1>4 DEF Procs, ProcsRestored, Main, WarmJoin, StartMeasure, Finalize, RestoredProcs
<1> QED
  BY <1>1, <1>2, <1>3, <1>4 DEF Next, Tick, Terminated, vars

\* GOMAXPROCS is what it was once the call returns.
THEOREM RunnerProcsRestored == Spec => []ProcsRestored
<1>1. Init => Procs
  BY DEF Init, Procs, ProcsRestored
<1>2. Procs => ProcsRestored
  BY DEF Procs
<1>3. Spec => []Control
  BY ControlInit, ControlStep, PTL DEF Spec
<1> QED
  BY <1>1, <1>2, <1>3, ProcsStep, PTL DEF Spec
-----------------------------------------------------------------------------
(* The race on sink.                                                       *)

\* A goroutine between its two stores has left the word it stored first alone
\* or seen it stored anew by another goroutine of the same call; and while the
\* words differ there is such a goroutine.
SinkRace ==
    /\ \A w \in Worker : /\ wpc[w] = "dataLeft" => sink.type = call.bench
                         /\ wpc[w] = "typeLeft" => sink.data = call.bench
    /\ \/ sink.type = sink.data
       \/ \E w \in Worker : wpc[w] \in {"dataLeft", "typeLeft"}

LEMMA SinkStep == Control /\ Control' /\ SinkRace /\ [Next]_vars => SinkRace'
<1> SUFFICES ASSUME Control, Control', SinkRace, [Next]_vars PROVE SinkRace'
  OBVIOUS
<1>1. ASSUME NEW b \in Benchmarks, NEW c \in Configs, Call(b, c) PROVE SinkRace'
  BY <1>1 DEF Control, PhaseBarrier, SinkRace, WarmPcs, Call, Started
<1>2. ASSUME NEW w \in Worker, WarmEnd(w) PROVE SinkRace'
  <2>1. call' = call /\ wpc[w] = "warmRun"
    BY <1>2 DEF WarmEnd, mainVars
  <2>2. CASE sink' = [sink EXCEPT !.type = call.bench] /\ wpc' = [wpc EXCEPT ![w] = "dataLeft"]
    BY <2>1, <2>2 DEF SinkRace, Control, TypeOK
  <2>3. CASE sink' = [sink EXCEPT !.data = call.bench] /\ wpc' = [wpc EXCEPT ![w] = "typeLeft"]
    BY <2>1, <2>3 DEF SinkRace, Control, TypeOK
  <2> QED
    BY <1>2, <2>2, <2>3 DEF WarmEnd
<1>3. ASSUME NEW w \in Worker, WarmStore(w) PROVE SinkRace'
  <2>1. call' = call /\ wpc' = [wpc EXCEPT ![w] = "warm"]
    BY <1>3 DEF WarmStore, mainVars
  <2>2. CASE wpc[w] = "dataLeft" /\ sink' = [sink EXCEPT !.data = call.bench]
    BY <2>1, <2>2 DEF SinkRace, Control, TypeOK
  <2>3. CASE wpc[w] = "typeLeft" /\ sink' = [sink EXCEPT !.type = call.bench]
    BY <2>1, <2>3 DEF SinkRace, Control, TypeOK
  <2> QED
    BY <1>3, <2>2, <2>3 DEF WarmStore
<1>4. ASSUME NEW w \in Worker, WorkerStep(w), ~WarmEnd(w), ~WarmStore(w)
      PROVE  /\ sink' = sink /\ call' = call
             /\ \A v \in Worker : /\ wpc'[v] = "dataLeft" <=> wpc[v] = "dataLeft"
                                  /\ wpc'[v] = "typeLeft" <=> wpc[v] = "typeLeft"
  <2>1. /\ sink' = sink /\ call' = call
        /\ wpc[w] \notin {"dataLeft", "typeLeft"}
        /\ \E at \in {"warmRun", "off", "timing", "run", "check", "publish", "release"} :
              wpc' = [wpc EXCEPT ![w] = at]
    BY <1>4 DEF WorkerStep, WarmBegin, WarmExit, MeasureCheck, BeginIteration,
                EndIteration, MeasureExit, Publish, Release, mainVars
  <2> QED
    BY <2>1 DEF Control, TypeOK
<1>5. ASSUME NEW w \in Worker, WorkerStep(w) PROVE SinkRace'
  BY <1>2, <1>3, <1>4, <1>5 DEF SinkRace
<1>6. CASE Main
  <2>1. CASE WarmJoin \/ Finalize
    BY <2>1 DEF SinkRace, WarmJoin, Finalize
  <2>2. CASE StartMeasure
    <3>1. sink.type = sink.data
      BY <2>2 DEF Control, PhaseBarrier, SinkRace, WarmPcs, StartMeasure
    <3>2. \A w \in Worker : wpc'[w] \in {"check", "off"}
      BY <2>2 DEF StartMeasure, Started
    <3> QED
      BY <2>2, <3>1, <3>2 DEF SinkRace, StartMeasure
  <2> QED
    BY <1>6, <2>1, <2>2 DEF Main
<1>7. CASE Tick \/ UNCHANGED vars
  BY <1>7 DEF SinkRace, Tick, vars, mainVars
<1> QED
  BY <1>1, <1>5, <1>6, <1>7 DEF Next, Terminated

\* After the warm-up the racing stores have left a value of one benchmark.
THEOREM RunnerSinkCoherent == Spec => []SinkCoherent
<1>1. Init => SinkRace
  BY DEF Init, SinkRace, Fresh
<1>2. Control /\ SinkRace => SinkCoherent
  BY DEF Control, PhaseBarrier, WarmPcs, SinkRace, SinkCoherent
<1>3. Spec => []Control
  BY ControlInit, ControlStep, PTL DEF Spec
<1> QED
  BY <1>1, <1>2, <1>3, SinkStep, PTL DEF Spec
-----------------------------------------------------------------------------
(* Run implements Tally: it returns the number of iterations measured.     *)

LEMMA TakenFinite ==
    ASSUME Control
    PROVE  IsFiniteSet(Taken) /\ Cardinality(Taken) \in Nat
<1>1. Active \subseteq Worker
  BY RunnerAssumption DEF Control, TypeOK, Frame, Active, Worker
<1>2. IsFiniteSet(Worker \X (1 .. MaxIter))
  <2>1. IsFiniteSet(1 .. MaxIter)
    BY FS_Interval, RunnerAssumption
  <2> QED
    BY <2>1, WorkersFinite, FS_Product
<1>3. Taken \in SUBSET (Worker \X (1 .. MaxIter))
  BY <1>1 DEF Taken
<1> QED
  BY <1>2, <1>3, FS_Subset, FS_CardinalityType

\* Between calls, and before the measurement, nothing is taken.
LEMMA NothingTaken ==
    ASSUME Control, Data, pc # "measure"
    PROVE  Taken = {} /\ Cardinality(Taken) = 0
<1>1. Active \subseteq Worker
  BY RunnerAssumption DEF Control, TypeOK, Frame, Active, Worker
<1>2. \A w \in Active : Len(local[w]) = 0
  BY <1>1 DEF Data, NothingHeld
<1>3. Taken = {}
  BY <1>2 DEF Taken
<1> QED
  BY <1>3, FS_EmptySet

LEMMA NothingTakenNext ==
    ASSUME Control', \A w \in Worker : local'[w] = <<>>
    PROVE  Cardinality(Taken)' = 0
<1>1. call'.threads \in 0 .. MaxThreads
  BY DEF Control, TypeOK, Frame
<1>2. \A w \in Active' : Len(local'[w]) = 0
  BY <1>1, RunnerAssumption DEF Active, Worker
<1>3. Taken' = {}
  BY <1>2 DEF Taken
<1> QED
  BY <1>3, FS_EmptySet

\* The end of an iteration is one unit of the tally.
LEMMA EndCountsOne ==
    ASSUME Control, Data, NEW w \in Worker, EndIteration(w)
    PROVE  Cardinality(Taken)' = Cardinality(Taken) + 1
<1>1. w \in Active /\ pc = "measure" /\ Active \subseteq Worker
  BY Measuring, ActiveWorkers DEF EndIteration, MeasurePcs
<1>2. /\ local' = [local EXCEPT ![w] = Append(@, SampleNow(w))]
      /\ wpc[w] = "run" /\ call' = call
  BY DEF EndIteration, mainVars
<1>3. local[w] \in Seq(Sample) /\ SampleNow(w) \in Sample
  BY DEF Control, TypeOK, SampleNow, Sample
<1> DEFINE n == Len(local[w])
<1>4. n \in Nat /\ n + 1 \in 1 .. MaxIter
  BY <1>2, <1>3, RunnerAssumption DEF Data, Bounded
<1>5. /\ Len(local'[w]) = n + 1
      /\ \A v \in Worker : v # w => local'[v] = local[v]
  BY <1>2, <1>3 DEF Control, TypeOK
<1>6. Active' = Active
  BY <1>2 DEF Active
<1> HIDE DEF n
<1>7. Taken' = Taken \cup {<<w, n + 1>>}
  <2>1. ASSUME NEW v \in Active, NEW k \in 1 .. MaxIter
        PROVE  k <= Len(local'[v]) <=> k <= Len(local[v]) \/ (v = w /\ k = n + 1)
    BY <1>1, <1>4, <1>5 DEF n
  <2> QED
    BY <1>1, <1>4, <1>6, <2>1 DEF Taken
<1>8. <<w, n + 1>> \notin Taken
  BY <1>4 DEF Taken, n
<1> QED
  BY <1>7, <1>8, TakenFinite, FS_AddElement

LEMMA TallyInit == Init => T!Init
<1> SUFFICES ASSUME Init PROVE T!Init
  OBVIOUS
<1>1. Cardinality(Taken) = 0
  BY ControlInit, DataInit, NothingTaken DEF Init
<1>2. Cardinality(DOMAIN result.samples) = 0
  BY FS_EmptySet DEF Init, NoResult
<1> QED
  BY <1>1, <1>2 DEF Init, T!Init

LEMMA TallyStep ==
    ASSUME Control, Control', Data, Data', [Next]_vars
    PROVE  [T!Next]_(T!vars)
<1>1. ASSUME NEW b \in Benchmarks, NEW c \in Configs, Call(b, c) PROVE T!Open
  <2>1. pc = "idle" /\ pc' = "warm"
    BY <1>1 DEF Call
  <2>2. Cardinality(DOMAIN result'.samples) = 0
    BY <1>1, FS_EmptySet DEF Call, NoResult
  <2>3. Cardinality(Taken)' = 0
    BY <2>1, NothingTakenNext DEF Data, NothingHeld
  <2> QED
    BY <2>1, <2>2, <2>3 DEF T!Open
<1>2. ASSUME NEW w \in Worker, EndIteration(w) PROVE T!CountOne
  <2>1. pc = "measure" /\ pc' = pc /\ result' = result
    BY <1>2, Measuring DEF EndIteration, MeasurePcs, mainVars
  <2> QED
    BY <1>2, <2>1, EndCountsOne DEF T!CountOne
<1>3. ASSUME NEW w \in Worker, WorkerStep(w), ~EndIteration(w) PROVE UNCHANGED T!vars
  <2>1. UNCHANGED <<mainVars, local>>
    BY <1>3 DEF WorkerStep, WarmBegin, WarmEnd, WarmStore, WarmExit, MeasureCheck,
                BeginIteration, MeasureExit, Publish, Release, measureVars
  <2> QED
    BY <2>1 DEF T!vars, mainVars, Taken, Active
<1>4. ASSUME Finalize PROVE T!Close
  <2>1. /\ pc = "measure" /\ pc' = "idle" /\ DOMAIN result'.samples = Taken
    BY <1>4, Merge
  <2>2. Cardinality(Taken)' = 0
    BY <2>1, NothingTakenNext DEF Data, NothingHeld
  <2> QED
    BY <2>1, <2>2 DEF T!Close
<1>5. ASSUME WarmJoin \/ StartMeasure \/ Tick \/ UNCHANGED vars PROVE UNCHANGED T!vars
  <2>1. UNCHANGED <<call, local, result>> /\ (pc # "idle")' = (pc # "idle")
    BY <1>5 DEF WarmJoin, StartMeasure, Tick, vars, mainVars, measureVars
  <2>2. Taken' = Taken
    BY <2>1 DEF Taken, Active
  <2> QED
    BY <2>1, <2>2 DEF T!vars
<1> QED
  BY <1>1, <1>2, <1>3, <1>4, <1>5 DEF Next, Main, Terminated, T!Next

\* Run implements the safety half of Tally: what it returns is the number of
\* iterations that were measured, none lost and none counted twice.
THEOREM RunnerImplementsTally == Spec => T!Safety
<1>1. Init => T!Init
  BY TallyInit
<1>2. Control /\ Control' /\ Data /\ Data' /\ [Next]_vars => [T!Next]_(T!vars)
  BY TallyStep
<1> QED
  BY <1>1, <1>2, Invariance, PTL DEF Spec, T!Safety
=============================================================================
