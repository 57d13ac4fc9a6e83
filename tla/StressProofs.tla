---------------------------- MODULE StressProofs ----------------------------
(***************************************************************************)
(* What holds of stress.Run for any number of workers, any configuration   *)
(* and any length of the run.                                              *)
(***************************************************************************)
EXTENDS Stress, FiniteSetTheorems, TLAPS

Running == {w \in Worker : wpc[w] # "off"}

\* The WaitGroup counts the workers that have not called Done.
Awaited == wg = Cardinality(Running)

\* Which goroutines there are at each point of the caller.
Phases ==
    /\ pc = "idle" => ~done /\ ~watching /\ ~stop /\ Running = {}
    /\ pc # "idle" => call.cpu \in 1 .. MaxWorkers
    /\ pc \in {"idle", "alloc"} => \A w \in Running : w[1] = "cpu"
    /\ pc \in {"statusWait", "returned"} => Running = {} /\ stop
    /\ rpc # "off" => pc \in {"wait", "statusWait"}

\* The flag goes up after the context is done, by the watcher alone, and a
\* worker leaves only once it is up.
Stopping ==
    /\ pc # "idle" => (watching <=> ~stop)
    /\ stop => done
    /\ pc # "idle" /\ ~stop => Workers("cpu", call.cpu) \subseteq Running

\* A context is done by Ctrl-C, by its timeout, or by the return of Run.
Reasons ==
    done /\ pc # "returned" => cancelled \/ (call.duration > 0 /\ clock >= call.duration)

Control ==
    /\ TypeOK
    /\ Awaited
    /\ Phases
    /\ Stopping
    /\ Reasons
    /\ NeverEarly
-----------------------------------------------------------------------------
(* The WaitGroup.                                                          *)

LEMMA WorkersFinite == IsFiniteSet(Worker)
<1>1. IsFiniteSet({"cpu", "mem"})
  <2>1. IsFiniteSet({"cpu"}) /\ IsFiniteSet({"mem"})
    BY FS_Singleton
  <2>2. {"cpu", "mem"} = {"cpu"} \cup {"mem"}
    OBVIOUS
  <2>3. IsFiniteSet({"cpu"} \cup {"mem"})
    BY <2>1, FS_Union
  <2> QED
    BY <2>2, <2>3
<1>2. IsFiniteSet(1 .. MaxWorkers)
  BY FS_Interval, StressAssumption
<1> QED
  BY <1>1, <1>2, FS_Product DEF Worker

LEMMA WorkersCount ==
    ASSUME NEW kind \in {"cpu", "mem"}, NEW n \in 0 .. MaxWorkers
    PROVE  /\ Workers(kind, n) \subseteq Worker
           /\ IsFiniteSet(Workers(kind, n))
           /\ Cardinality(Workers(kind, n)) = n
<1>1. n \in Nat /\ 1 .. n \subseteq 1 .. MaxWorkers
  BY StressAssumption
<1>2. IsFiniteSet(1 .. n) /\ Cardinality(1 .. n) = n
  BY <1>1, FS_Interval
<1>3. IsFiniteSet({kind}) /\ Cardinality({kind}) = 1
  BY FS_Singleton
<1>4. /\ IsFiniteSet(Workers(kind, n))
      /\ Cardinality(Workers(kind, n)) = 1 * n
  BY <1>2, <1>3, FS_Product DEF Workers
<1>5. Workers(kind, n) \subseteq Worker
  BY <1>1 DEF Workers, Worker
<1> QED
  BY <1>1, <1>4, <1>5

\* Launching n workers that were off adds n to those awaited.
LEMMA LaunchCounts ==
    ASSUME TypeOK, Awaited, NEW kind \in {"cpu", "mem"}, NEW n \in 0 .. MaxWorkers,
           \A w \in Workers(kind, n) : wpc[w] = "off",
           wpc' = Launch(Workers(kind, n)), wg' = wg + Added(n)
    PROVE  /\ Awaited' /\ wg' \in Nat
           /\ Running' = Running \cup Workers(kind, n)
           /\ wpc' \in [Worker -> {"off", "check", "batch"}]
<1> DEFINE new == Workers(kind, n)
<1>1. new \subseteq Worker /\ IsFiniteSet(new) /\ Cardinality(new) = n
  BY WorkersCount
<1>2. IsFiniteSet(Running)
  BY WorkersFinite, FS_Subset DEF Running
<1> HIDE DEF new
<1>3. Running' = Running \cup new /\ Running \cap new = {}
  BY <1>1 DEF TypeOK, Running, Launch, new
<1>4. Cardinality(Running \cup new) = Cardinality(Running) + n
  <2>1. Cardinality(Running \cup new)
          = Cardinality(Running) + Cardinality(new) - Cardinality(Running \cap new)
    BY <1>1, <1>2, FS_Union
  <2>2. Cardinality(Running \cap new) = 0
    BY <1>3, FS_EmptySet
  <2>3. Cardinality(Running) \in Nat /\ n \in Nat
    BY <1>2, FS_CardinalityType, StressAssumption
  <2> QED
    BY <1>1, <2>1, <2>2, <2>3
<1>5. wg \in Nat /\ n \in Nat
  BY StressAssumption DEF TypeOK
<1>6. wpc' \in [Worker -> {"off", "check", "batch"}]
  BY DEF TypeOK, Launch
<1> QED
  BY <1>3, <1>4, <1>5, <1>6 DEF Awaited, Added, new

LEMMA DoneCounts ==
    ASSUME TypeOK, Awaited, NEW w \in Worker, wpc[w] # "off",
           wpc' = [wpc EXCEPT ![w] = "off"], wg' = wg - 1
    PROVE  Awaited' /\ wg' \in Nat /\ Running' = Running \ {w}
<1>1. IsFiniteSet(Running) /\ w \in Running
  BY WorkersFinite, FS_Subset DEF Running
<1>2. Running' = Running \ {w}
  BY DEF Running, TypeOK
<1>3. /\ IsFiniteSet(Running \ {w})
      /\ Cardinality(Running \ {w}) = Cardinality(Running) - 1
  BY <1>1, FS_RemoveElement
<1>4. Cardinality(Running \ {w}) \in Nat
  BY <1>3, FS_CardinalityType
<1> QED
  BY <1>2, <1>3, <1>4 DEF Awaited

LEMMA JoinedMeansOff ==
    ASSUME TypeOK, Awaited, wg = 0
    PROVE  Running = {}
<1>1. IsFiniteSet(Running)
  BY WorkersFinite, FS_Subset DEF Running
<1> QED
  BY <1>1, FS_EmptySet DEF Awaited
-----------------------------------------------------------------------------
LEMMA ControlInit == Init => Control
<1> SUFFICES ASSUME Init PROVE Control
  OBVIOUS
<1>1. TypeOK
  <2>1. call \in Frame
    BY StressAssumption DEF Init, Frame, NoCall
  <2>2. line \in Work /\ stats \in Work
    BY DEF Init, Work, NoWork
  <2>3. gomaxprocs \in Nat
    BY StressAssumption DEF Init
  <2>4. /\ start \in 0 .. clock /\ clock \in Nat
        /\ wpc \in [Worker -> {"off", "check", "batch"}]
    BY DEF Init
  <2>5. /\ wg \in Nat /\ cpuOps \in Nat /\ memBytes \in Nat
        /\ seenOps \in Nat /\ elapsed \in Nat
    BY DEF Init
  <2>6. /\ cancelled \in BOOLEAN /\ done \in BOOLEAN /\ watching \in BOOLEAN
        /\ stop \in BOOLEAN /\ tick \in BOOLEAN
    BY DEF Init
  <2> QED
    BY <2>1, <2>2, <2>3, <2>4, <2>5, <2>6 DEF Init, TypeOK
<1>2. Running = {}
  BY DEF Init, Running
<1>3. Awaited
  BY <1>2, FS_EmptySet DEF Init, Awaited
<1>4. Phases /\ Stopping /\ Reasons /\ NeverEarly
  BY <1>2 DEF Init, Phases, Stopping, Reasons, NeverEarly
<1> QED
  BY <1>1, <1>3, <1>4 DEF Control

LEMMA ControlCall ==
    ASSUME Control, NEW c \in Configs, Call(c)
    PROVE  Control'
<1> DEFINE cfg == Resolve(c)
<1>1. /\ cfg.cpu \in 1 .. MaxWorkers /\ cfg.mem \in 0 .. MaxWorkers
      /\ cfg.duration \in Nat /\ cfg.report \in BOOLEAN
  <2>1. DefaultMemWorkers \in 0 .. MaxWorkers
    BY StressAssumption DEF DefaultMemWorkers
  <2> QED
    BY <2>1, StressAssumption DEF Resolve
<1>2. /\ pc = "idle" /\ pc' = "alloc"
      /\ call' = [duration |-> cfg.duration, cpu |-> cfg.cpu, mem |-> cfg.mem,
                  report |-> cfg.report, prev |-> gomaxprocs]
      /\ gomaxprocs' = cfg.cpu + cfg.mem
      /\ done' = cancelled /\ watching' = TRUE
      /\ wpc' = Launch(Workers("cpu", cfg.cpu)) /\ wg' = Added(cfg.cpu)
      /\ UNCHANGED <<clock, start, cancelled, stop, cpuOps, memBytes, reporterVars,
                     elapsed, stats>>
  BY DEF Call
<1> HIDE DEF cfg
<1>3. Running = {} /\ wg = 0 /\ ~stop
  BY <1>2, FS_EmptySet DEF Control, Phases, Awaited
<1>4. \A w \in Workers("cpu", cfg.cpu) : wpc[w] = "off"
  BY <1>1, <1>3, WorkersCount DEF Running
<1>5. wg' = wg + Added(cfg.cpu)
  BY <1>1, <1>2, <1>3 DEF Added
<1>6. /\ Awaited' /\ wg' \in Nat
      /\ Running' = Workers("cpu", cfg.cpu)
      /\ wpc' \in [Worker -> {"off", "check", "batch"}]
  BY <1>1, <1>2, <1>3, <1>4, <1>5, LaunchCounts DEF Control
<1>7. TypeOK'
  <2>1. call' \in Frame /\ gomaxprocs' \in Nat
    BY <1>1, <1>2 DEF Control, TypeOK, Frame
  <2> QED
    BY <1>2, <1>6, <2>1 DEF Control, TypeOK, reporterVars
<1>8. \A w \in Running' : w[1] = "cpu"
  BY <1>6 DEF Workers
<1>9. Phases' /\ Stopping'
  BY <1>1, <1>2, <1>3, <1>6, <1>8 DEF Control, Phases, Stopping, reporterVars
<1>10. Reasons' /\ NeverEarly'
  BY <1>2 DEF Reasons, NeverEarly
<1> QED
  BY <1>6, <1>7, <1>9, <1>10 DEF Control

LEMMA ControlMain ==
    ASSUME Control, Main
    PROVE  Control'
<1>1. CASE StartMemWorkers
  <2>1. /\ pc = "alloc" /\ pc' = "start"
        /\ wpc' = Launch(Workers("mem", call.mem)) /\ wg' = wg + Added(call.mem)
        /\ UNCHANGED <<call, gomaxprocs, start, elapsed, stats, clock, ctxVars,
                       cpuOps, memBytes, reporterVars>>
    BY <1>1 DEF StartMemWorkers
  <2>2. call.mem \in 0 .. MaxWorkers
    BY DEF Control, TypeOK, Frame
  <2>3. \A w \in Workers("mem", call.mem) : wpc[w] = "off"
    <3>1. \A w \in Workers("mem", call.mem) : w \in Worker /\ w[1] = "mem"
      BY <2>2, WorkersCount DEF Workers
    <3> QED
      BY <2>1, <3>1 DEF Control, Phases, Running
  <2>4. /\ Awaited' /\ wg' \in Nat
        /\ Running' = Running \cup Workers("mem", call.mem)
        /\ wpc' \in [Worker -> {"off", "check", "batch"}]
    BY <2>1, <2>2, <2>3, LaunchCounts DEF Control
  <2>5. TypeOK'
    BY <2>1, <2>4 DEF Control, TypeOK, ctxVars, reporterVars
  <2>6. Phases' /\ Stopping' /\ Reasons' /\ NeverEarly'
    BY <2>1, <2>4 DEF Control, Phases, Stopping, Reasons, NeverEarly, ctxVars, reporterVars
  <2> QED
    BY <2>4, <2>5, <2>6 DEF Control
<1>2. CASE StartReporter
  <2>1. TypeOK'
    BY <1>2 DEF Control, TypeOK, StartReporter, ctxVars, workVars
  <2>2. Awaited' /\ Running' = Running
    BY <1>2 DEF Control, Awaited, Running, StartReporter, workVars
  <2>3. Phases' /\ Stopping' /\ Reasons' /\ NeverEarly'
    BY <1>2, <2>2 DEF Control, Phases, Stopping, Reasons, NeverEarly, StartReporter, ctxVars
  <2> QED
    BY <2>1, <2>2, <2>3 DEF Control
<1>3. CASE WorkersDone
  <2>1. Running = {} /\ call.cpu \in 1 .. MaxWorkers
    BY <1>3, JoinedMeansOff DEF Control, Phases, WorkersDone
  <2>2. <<"cpu", 1>> \in Workers("cpu", call.cpu)
    BY <2>1 DEF Workers
  <2>3. stop
    BY <1>3, <2>1, <2>2 DEF Control, Stopping, WorkersDone, TypeOK
  <2>4. TypeOK'
    BY <1>3 DEF Control, TypeOK, WorkersDone, ctxVars, workVars, reporterVars
  <2>5. Awaited' /\ Running' = Running
    BY <1>3 DEF Control, Awaited, Running, WorkersDone, workVars
  <2>6. Phases' /\ Stopping' /\ Reasons'
    BY <1>3, <2>1, <2>3, <2>5
       DEF Control, Phases, Stopping, Reasons, WorkersDone, ctxVars, reporterVars
  <2>7. NeverEarly'
    BY <1>3, <2>3 DEF Control, Stopping, Reasons, NeverEarly, WorkersDone, ctxVars
  <2> QED
    BY <2>4, <2>5, <2>6, <2>7 DEF Control
<1>4. CASE Return
  <2>1. stats' \in Work /\ gomaxprocs' \in Nat
    BY <1>4 DEF Control, TypeOK, Frame, Return, FinalTotals, RestoredProcs, Work
  <2>2. TypeOK'
    BY <1>4, <2>1 DEF Control, TypeOK, Return, workVars, reporterVars
  <2>3. Awaited' /\ Running' = Running
    BY <1>4 DEF Control, Awaited, Running, Return, workVars
  <2>4. Phases' /\ Stopping' /\ Reasons' /\ NeverEarly'
    BY <1>4, <2>3 DEF Control, Phases, Stopping, Reasons, NeverEarly, Return,
                      ReporterGone, reporterVars
  <2> QED
    BY <2>2, <2>3, <2>4 DEF Control
<1> QED
  BY <1>1, <1>2, <1>3, <1>4 DEF Main

LEMMA ControlOther ==
    ASSUME Control, Cancel \/ Expire \/ Watch \/ Reporter \/ Tick \/ UNCHANGED vars
    PROVE  Control'
<1>1. Awaited' /\ Running' = Running /\ wpc' = wpc
  BY DEF Control, Awaited, Running, Cancel, Expire, Watch, Reporter, Header, TakeTick,
         PrintLine, SeeDone, Tick, workVars, vars
<1>2. CASE Cancel
  <2>1. TypeOK'
    BY <1>2 DEF Control, TypeOK, Cancel, mainVars, workVars, reporterVars
  <2>2. /\ cancelled' /\ done' = (done \/ InProgress)
        /\ UNCHANGED <<mainVars, clock, watching, stop, reporterVars>>
    BY <1>2 DEF Cancel
  <2>3. Phases' /\ Stopping' /\ Reasons' /\ NeverEarly'
    BY <1>1, <2>2 DEF Control, Phases, Stopping, Reasons, NeverEarly, InProgress,
                      mainVars, reporterVars
  <2> QED
    BY <1>1, <2>1, <2>3 DEF Control
<1>3. CASE Expire
  <2>1. TypeOK'
    BY <1>3 DEF Control, TypeOK, Expire, mainVars, workVars, reporterVars
  <2>2. /\ done' /\ InProgress /\ Expired
        /\ UNCHANGED <<mainVars, clock, cancelled, watching, stop, reporterVars>>
    BY <1>3 DEF Expire
  <2>3. Phases' /\ Stopping' /\ Reasons' /\ NeverEarly'
    BY <1>1, <2>2 DEF Control, Phases, Stopping, Reasons, NeverEarly, InProgress, Expired,
                      mainVars, reporterVars
  <2> QED
    BY <1>1, <2>1, <2>3 DEF Control
<1>4. CASE Watch
  <2>1. TypeOK'
    BY <1>4 DEF Control, TypeOK, Watch, mainVars, workVars, reporterVars
  <2>2. /\ watching /\ done /\ stop' /\ ~watching'
        /\ UNCHANGED <<mainVars, clock, cancelled, done, reporterVars>>
    BY <1>4 DEF Watch
  <2>3. Phases' /\ Stopping' /\ Reasons' /\ NeverEarly'
    BY <1>1, <2>2 DEF Control, Phases, Stopping, Reasons, NeverEarly, mainVars, reporterVars
  <2> QED
    BY <1>1, <2>1, <2>3 DEF Control
<1>5. CASE Reporter
  <2>1. UNCHANGED <<mainVars, clock, ctxVars, workVars>> /\ rpc # "off"
    BY <1>5 DEF Reporter, Header, TakeTick, PrintLine, SeeDone
  <2>2. /\ rpc' \in {"off", "header", "select", "load"}
        /\ seenOps' \in Nat
    BY <1>5 DEF Control, TypeOK, Reporter, Header, TakeTick, PrintLine, SeeDone, LoadedOps
  <2>3. tick' \in BOOLEAN
    <3>1. tick' = tick \/ tick' = FALSE
      BY <1>5 DEF Reporter, Header, TakeTick, PrintLine, SeeDone
    <3> QED
      BY <3>1 DEF Control, TypeOK
  <2>4. line' \in Work
    BY <1>5 DEF Control, TypeOK, Reporter, Header, TakeTick, PrintLine, SeeDone, Work
  <2>5. TypeOK'
    BY <2>1, <2>2, <2>3, <2>4 DEF Control, TypeOK, mainVars, ctxVars, workVars
  <2>6. Phases' /\ Stopping' /\ Reasons' /\ NeverEarly'
    BY <1>1, <2>1 DEF Control, Phases, Stopping, Reasons, NeverEarly, mainVars, ctxVars
  <2> QED
    BY <1>1, <2>5, <2>6 DEF Control
<1>6. CASE Tick
  <2>1. /\ clock' \in {clock, clock + 1} /\ tick' \in BOOLEAN
        /\ UNCHANGED <<mainVars, ctxVars, workVars, rpc, seenOps, line>>
    BY <1>6 DEF Tick, Control, TypeOK
  <2>2. TypeOK'
    BY <2>1 DEF Control, TypeOK, mainVars, ctxVars, workVars
  <2>3. Phases' /\ Stopping' /\ Reasons' /\ NeverEarly'
    BY <1>1, <2>1 DEF Control, TypeOK, Frame, Phases, Stopping, Reasons, NeverEarly,
                      mainVars, ctxVars
  <2> QED
    BY <1>1, <2>2, <2>3 DEF Control
<1>7. CASE UNCHANGED vars
  BY <1>1, <1>7 DEF Control, TypeOK, Phases, Stopping, Reasons, NeverEarly,
                    vars, mainVars, ctxVars, workVars, reporterVars
<1> QED
  BY <1>2, <1>3, <1>4, <1>5, <1>6, <1>7

LEMMA ControlWorker ==
    ASSUME Control, NEW w \in Worker, WorkerStep(w)
    PROVE  Control'
<1>1. UNCHANGED <<mainVars, clock, ctxVars, reporterVars>> /\ w \in Running
  BY DEF WorkerStep, BeginBatch, EndBatch, Exit, Running
<1>2. CASE BeginBatch(w) \/ EndBatch(w)
  <2>1. Running' = Running /\ wg' = wg
    BY <1>2 DEF Control, TypeOK, Running, BeginBatch, EndBatch
  <2>2. TypeOK'
    BY <1>1, <1>2 DEF Control, TypeOK, BeginBatch, EndBatch, mainVars, ctxVars, reporterVars
  <2>3. Awaited' /\ Phases' /\ Stopping' /\ Reasons' /\ NeverEarly'
    BY <1>1, <2>1 DEF Control, Awaited, Phases, Stopping, Reasons, NeverEarly,
                      mainVars, ctxVars, reporterVars
  <2> QED
    BY <2>2, <2>3 DEF Control
<1>3. CASE Exit(w)
  <2>1. /\ wpc[w] # "off" /\ wpc' = [wpc EXCEPT ![w] = "off"] /\ wg' = wg - 1 /\ stop
        /\ UNCHANGED <<cpuOps, memBytes>>
    BY <1>3 DEF Exit, MustStop
  <2>2. Awaited' /\ wg' \in Nat /\ Running' = Running \ {w}
    BY <2>1, DoneCounts DEF Control
  <2>3. TypeOK'
    BY <1>1, <2>1, <2>2 DEF Control, TypeOK, mainVars, ctxVars, reporterVars
  <2>4. Phases' /\ Stopping' /\ Reasons' /\ NeverEarly'
    BY <1>1, <2>1, <2>2 DEF Control, Phases, Stopping, Reasons, NeverEarly,
                            mainVars, ctxVars, reporterVars
  <2> QED
    BY <2>2, <2>3, <2>4 DEF Control
<1> QED
  BY <1>2, <1>3 DEF WorkerStep

LEMMA ControlStep == Control /\ [Next]_vars => Control'
BY ControlCall, ControlMain, ControlOther, ControlWorker DEF Next, Terminated

LEMMA Invariance == Spec => []Control
BY ControlInit, ControlStep, PTL DEF Spec
-----------------------------------------------------------------------------
(* The theorems.                                                           *)

\* The types of all variables; above all, that the WaitGroup's counter never
\* goes negative.
THEOREM StressTypeOK == Spec => []TypeOK
<1>1. Control => TypeOK
  BY DEF Control
<1> QED
  BY <1>1, Invariance, PTL

\* Run does not return before its Duration is over or it is cancelled.
THEOREM StressNeverEarly == Spec => []NeverEarly
<1>1. Control => NeverEarly
  BY DEF Control
<1> QED
  BY <1>1, Invariance, PTL

\* After the flag is up, no batch begins.
THEOREM StressStopIsPrompt == Spec => StopIsPrompt
<1> DEFINE InBatch == {w \in Worker : wpc[w] = "batch"}
<1>1. ASSUME Control, [Next]_vars, stop PROVE Pending' <= Pending
  <2>1. IsFiniteSet(InBatch) /\ Cardinality(InBatch) \in Nat
    BY WorkersFinite, FS_Subset, FS_CardinalityType
  <2>2. cpuOps \in Nat /\ memBytes \in Nat /\ Pending \in Nat
    BY <1>1, <2>1 DEF Control, TypeOK, Pending
  <2>3. ASSUME UNCHANGED <<cpuOps, memBytes>>, InBatch' = InBatch
        PROVE  Pending' <= Pending
    <3>1. Cardinality(InBatch)' = Cardinality(InBatch)
      BY <2>3
    <3>2. Pending' = Pending
      BY <2>3, <3>1 DEF Pending
    <3> QED
      BY <2>2, <3>2
  <2>4. ASSUME NEW w \in Worker, EndBatch(w) PROVE Pending' <= Pending
    <3>1. InBatch' = InBatch \ {w} /\ w \in InBatch
      BY <1>1, <2>4 DEF Control, TypeOK, EndBatch
    <3>2. Cardinality(InBatch \ {w}) = Cardinality(InBatch) - 1
      BY <2>1, <3>1, FS_RemoveElement
    <3>3. \/ cpuOps' = cpuOps + 1 /\ memBytes' = memBytes
          \/ cpuOps' = cpuOps /\ memBytes' = memBytes + 1
      BY <2>4 DEF EndBatch
    <3>4. Cardinality(InBatch)' = Cardinality(InBatch) - 1
      BY <3>1, <3>2
    <3>5. Pending = cpuOps + memBytes + Cardinality(InBatch)
      BY DEF Pending
    <3>6. Pending' = cpuOps' + memBytes' + (Cardinality(InBatch) - 1)
      BY <3>4 DEF Pending
    <3>7. cpuOps' + memBytes' + (Cardinality(InBatch) - 1)
              = cpuOps + memBytes + Cardinality(InBatch)
      <4> SUFFICES ASSUME NEW n \in Nat
                   PROVE  cpuOps' + memBytes' + (n - 1) = cpuOps + memBytes + n
        BY <2>1
      <4> QED
        BY <2>2, <3>3
    <3> QED
      BY <2>2, <3>5, <3>6, <3>7
  <2>5. ASSUME NEW w \in Worker, Exit(w) PROVE Pending' <= Pending
    <3>1. UNCHANGED <<cpuOps, memBytes>> /\ InBatch' = InBatch
      BY <1>1, <2>5 DEF Control, TypeOK, Exit
    <3> QED
      BY <2>3, <3>1
  <2>6. ASSUME NEW c \in Configs, Call(c) PROVE FALSE
    BY <1>1, <2>6 DEF Control, Phases, Call
  <2>7. ASSUME StartMemWorkers PROVE Pending' <= Pending
    <3>1. \A w \in Workers("mem", call.mem) : w \in Worker /\ wpc[w] = "off"
      <4>1. call.mem \in 0 .. MaxWorkers
        BY <1>1 DEF Control, TypeOK, Frame
      <4>2. \A w \in Workers("mem", call.mem) : w \in Worker /\ w[1] = "mem"
        BY <4>1, WorkersCount DEF Workers
      <4> QED
        BY <1>1, <2>7, <4>2 DEF Control, Phases, Running, StartMemWorkers
    <3>2. UNCHANGED <<cpuOps, memBytes>> /\ InBatch' = InBatch
      BY <2>7, <3>1 DEF StartMemWorkers, Launch
    <3> QED
      BY <2>3, <3>2
  <2>8. ASSUME NEW w \in Worker PROVE ~BeginBatch(w)
    BY <1>1 DEF BeginBatch, KeepsGoing, MustStop
  <2>9. ASSUME \/ StartReporter \/ WorkersDone \/ Return
               \/ Cancel \/ Expire \/ Watch \/ Reporter \/ Tick \/ UNCHANGED vars
        PROVE  Pending' <= Pending
    <3>1. UNCHANGED workVars
      BY <2>9 DEF StartReporter, WorkersDone, Return, Cancel, Expire, Watch, Reporter,
                  Header, TakeTick, PrintLine, SeeDone, Tick, vars
    <3> QED
      BY <2>3, <3>1 DEF workVars
  <2> QED
    BY <1>1, <2>4, <2>5, <2>6, <2>7, <2>8, <2>9 DEF Next, Main, WorkerStep, Terminated
<1>2. Control /\ [Next]_vars => [stop => Pending' <= Pending]_vars
  BY <1>1
<1> QED
  BY <1>2, Invariance, PTL DEF Spec, StopIsPrompt
-----------------------------------------------------------------------------
(* The figures: what the status lines and the Stats say of the counters.   *)

Figures ==
    /\ seenOps <= cpuOps
    /\ line.ops <= cpuOps /\ line.mem <= memBytes
    /\ rpc = "load" => line.ops <= seenOps
    /\ pc = "idle" => cpuOps = 0 /\ memBytes = 0
    /\ stats = IF pc = "returned" THEN FinalTotals ELSE NoWork

LEMMA FiguresInit == Init => Figures
BY DEF Init, Figures, NoWork

LEMMA FiguresStep == Control /\ Control' /\ Figures /\ [Next]_vars => Figures'
<1> SUFFICES ASSUME Control, Control', Figures, [Next]_vars PROVE Figures'
  OBVIOUS
<1> USE DEF Figures, NoWork, FinalTotals
<1>1. /\ cpuOps \in Nat /\ memBytes \in Nat /\ seenOps \in Nat
      /\ line.ops \in Nat /\ line.mem \in Nat
  BY DEF Control, TypeOK, Work
<1>2. ASSUME UNCHANGED <<cpuOps, memBytes, rpc, seenOps, line, stats>>,
             pc = pc' \/ (pc # "returned" /\ pc' \notin {"idle", "returned"})
      PROVE  Figures'
  BY <1>2
<1>3. ASSUME NEW c \in Configs, Call(c) PROVE Figures'
  BY <1>2, <1>3 DEF Call, reporterVars
<1>4. ASSUME NEW w \in Worker, EndBatch(w) PROVE Figures'
  <2>1. pc # "returned" /\ pc # "idle"
    BY <1>4 DEF EndBatch, Control, Phases, Running
  <2>2. \/ cpuOps' = cpuOps + 1 /\ memBytes' = memBytes
        \/ cpuOps' = cpuOps /\ memBytes' = memBytes + 1
    BY <1>4 DEF EndBatch
  <2>3. UNCHANGED <<pc, rpc, seenOps, line, stats>>
    BY <1>4 DEF EndBatch, mainVars, reporterVars
  <2> QED
    BY <1>1, <2>1, <2>2, <2>3
<1>5. ASSUME NEW w \in Worker, BeginBatch(w) \/ Exit(w) PROVE Figures'
  BY <1>2, <1>5 DEF BeginBatch, Exit, mainVars, reporterVars
<1>6. CASE StartMemWorkers \/ WorkersDone
  BY <1>2, <1>6 DEF StartMemWorkers, WorkersDone, reporterVars, workVars
<1>7. CASE StartReporter
  BY <1>1, <1>7 DEF StartReporter, workVars
<1>8. CASE Return
  BY <1>1, <1>8 DEF Return, workVars, reporterVars
<1>9. CASE Header \/ SeeDone
  BY <1>1, <1>9 DEF Header, SeeDone, mainVars, workVars
<1>10. CASE TakeTick
  BY <1>1, <1>10 DEF TakeTick, LoadedOps, mainVars, workVars
<1>11. CASE PrintLine
  BY <1>1, <1>11 DEF PrintLine, mainVars, workVars
<1>12. CASE Cancel \/ Expire \/ Watch \/ Tick \/ UNCHANGED vars
  BY <1>2, <1>12 DEF Cancel, Expire, Watch, Tick, vars, mainVars, workVars, reporterVars
<1> QED
  BY <1>3, <1>4, <1>5, <1>6, <1>7, <1>8, <1>9, <1>10, <1>11, <1>12
  DEF Next, Main, Reporter, WorkerStep, Terminated

LEMMA FiguresInvariance == Spec => []Figures
BY FiguresInit, FiguresStep, Invariance, PTL DEF Spec

\* The figures on the status lines never go back, nor do the totals returned
\* fall short of them.
THEOREM StressFiguresCoherent == Spec => FiguresCoherent
<1>1. Control /\ Figures /\ [Next]_vars => line'.ops >= line.ops /\ line'.mem >= line.mem
  <2> SUFFICES ASSUME Control, Figures, [Next]_vars
               PROVE  line'.ops >= line.ops /\ line'.mem >= line.mem
    OBVIOUS
  <2>1. /\ line.ops \in Nat /\ line.mem \in Nat
        /\ seenOps \in Nat /\ memBytes \in Nat
    BY DEF Control, TypeOK, Work
  <2>2. CASE PrintLine
    BY <2>1, <2>2 DEF PrintLine, Figures
  <2>3. ASSUME NEW c \in Configs, Call(c) PROVE line' = line
    BY <2>3 DEF Call, reporterVars
  <2>4. ASSUME NEW w \in Worker, WorkerStep(w) PROVE line' = line
    BY <2>4 DEF WorkerStep, BeginBatch, EndBatch, Exit, reporterVars
  <2>5. ASSUME \/ Main \/ Cancel \/ Expire \/ Watch \/ Tick
               \/ Header \/ TakeTick \/ SeeDone \/ UNCHANGED vars
        PROVE  line' = line
    BY <2>5 DEF Main, StartMemWorkers, StartReporter, WorkersDone, Return, Cancel,
                Expire, Watch, Tick, Header, TakeTick, SeeDone, vars, reporterVars
  <2> QED
    BY <2>1, <2>2, <2>3, <2>4, <2>5 DEF Next, Reporter, Terminated
<1>2. Figures' => (pc' = "returned" => line'.ops <= stats'.ops /\ line'.mem <= stats'.mem)
  BY DEF Figures, FinalTotals
<1> QED
  BY <1>1, <1>2, Invariance, FiguresInvariance, PTL DEF Spec, FiguresCoherent
-----------------------------------------------------------------------------
(* GOMAXPROCS.                                                             *)

Procs ==
    /\ gomaxprocs = IF InProgress THEN call.cpu + call.mem ELSE InitialProcs
    /\ pc # "idle" => call.prev = InitialProcs

LEMMA ProcsStep == Procs /\ [Next]_vars => Procs'
<1> SUFFICES ASSUME Procs, [Next]_vars PROVE Procs'
  OBVIOUS
<1> USE DEF Procs, InProgress
<1>1. ASSUME NEW c \in Configs, Call(c) PROVE Procs'
  BY <1>1 DEF Call
<1>2. ASSUME NEW w \in Worker, WorkerStep(w) PROVE UNCHANGED mainVars
  BY <1>2 DEF WorkerStep, BeginBatch, EndBatch, Exit
<1>3. CASE Main
  BY <1>3 DEF Main, StartMemWorkers, StartReporter, WorkersDone, Return, RestoredProcs
<1>4. CASE Cancel \/ Expire \/ Watch \/ Tick \/ Reporter \/ UNCHANGED vars
  BY <1>4 DEF Cancel, Expire, Watch, Tick, Reporter, Header, TakeTick, PrintLine,
              SeeDone, vars, mainVars
<1>5. CASE UNCHANGED mainVars
  BY <1>5 DEF mainVars
<1> QED
  BY <1>1, <1>2, <1>3, <1>4, <1>5 DEF Next, Terminated

\* No goroutine of the run is at work after the return, and GOMAXPROCS is what
\* it was.
THEOREM StressNothingLeftBehind == Spec => []NothingLeftBehind
<1>1. Init => Procs
  BY DEF Init, Procs, InProgress
<1>2. Control /\ Procs => NothingLeftBehind
  BY DEF Control, Procs, InProgress, NothingLeftBehind, Phases, Stopping, Running
<1> QED
  BY <1>1, <1>2, ProcsStep, Invariance, PTL DEF Spec
-----------------------------------------------------------------------------
(* Run implements Tally: its Stats are the number of batches counted.      *)

LEMMA TallyInit == Init => T!Init
BY DEF Init, T!Init, InProgress, Uncounted, NoWork

LEMMA TallyStep ==
    Control /\ Control' /\ Figures /\ Figures' /\ [Next]_vars => [T!Next]_(T!vars)
<1> SUFFICES ASSUME Control, Control', Figures, Figures', [Next]_vars
             PROVE  T!Next \/ UNCHANGED T!vars
  OBVIOUS
<1> USE DEF InProgress, Uncounted, T!vars
<1>1. /\ cpuOps \in Nat /\ memBytes \in Nat
      /\ stats.ops \in Nat /\ stats.mem \in Nat
  BY DEF Control, TypeOK, Work
<1>2. pc # "returned" => stats.ops = 0 /\ stats.mem = 0
  BY DEF Figures, NoWork
<1>3. ASSUME NEW c \in Configs, Call(c) PROVE T!Open
  BY <1>2, <1>3 DEF Call, T!Open, Figures
<1>4. ASSUME NEW w \in Worker, EndBatch(w) PROVE T!CountOne
  <2>1. pc \notin {"returned", "idle"} /\ pc' = pc /\ stats' = stats
    BY <1>4 DEF EndBatch, Control, Phases, Running, mainVars
  <2>2. \/ cpuOps' = cpuOps + 1 /\ memBytes' = memBytes
        \/ cpuOps' = cpuOps /\ memBytes' = memBytes + 1
    BY <1>4 DEF EndBatch
  <2> QED
    BY <1>1, <2>1, <2>2 DEF T!CountOne
<1>5. ASSUME Return PROVE T!Close
  <2>1. /\ pc = "statusWait" /\ pc' = "returned"
        /\ stats'.ops = cpuOps /\ stats'.mem = memBytes
        /\ cpuOps' = cpuOps /\ memBytes' = memBytes
    BY <1>5 DEF Return, FinalTotals, workVars
  <2>2. Uncounted = cpuOps + memBytes
    BY <2>1
  <2>3. stats'.ops + stats'.mem = cpuOps + memBytes
    BY <2>1
  <2>4. Uncounted' = 0
    <3>1. Uncounted' = cpuOps + memBytes - (cpuOps + memBytes)
      BY <2>1
    <3> QED
      BY <1>1, <3>1
  <2> QED
    BY <2>1, <2>2, <2>3, <2>4 DEF T!Close
<1>6. ASSUME UNCHANGED <<cpuOps, memBytes, stats>>,
             pc = pc' \/ {pc, pc'} \cap {"idle", "returned"} = {}
      PROVE  UNCHANGED T!vars
  BY <1>6
<1>7. ASSUME NEW w \in Worker, BeginBatch(w) \/ Exit(w) PROVE UNCHANGED T!vars
  BY <1>6, <1>7 DEF BeginBatch, Exit, mainVars
<1>8. CASE StartMemWorkers \/ StartReporter \/ WorkersDone
  BY <1>6, <1>8 DEF StartMemWorkers, StartReporter, WorkersDone, workVars
<1>9. CASE Cancel \/ Expire \/ Watch \/ Tick \/ Reporter \/ UNCHANGED vars
  BY <1>6, <1>9 DEF Cancel, Expire, Watch, Tick, Reporter, Header, TakeTick, PrintLine,
                    SeeDone, vars, mainVars, workVars
<1> QED
  BY <1>3, <1>4, <1>5, <1>7, <1>8, <1>9 DEF Next, Main, WorkerStep, Terminated, T!Next

\* Run implements the safety half of Tally.
THEOREM StressImplementsTally == Spec => ImplementsTally
<1>1. Init => T!Init
  BY TallyInit
<1>2. Control /\ Control' /\ Figures /\ Figures' /\ [Next]_vars => [T!Next]_(T!vars)
  BY TallyStep
<1> QED
  BY <1>1, <1>2, Invariance, FiguresInvariance, PTL DEF Spec, ImplementsTally, T!Safety
=============================================================================
