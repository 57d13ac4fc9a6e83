------------------------------- MODULE Stress -------------------------------
(***************************************************************************)
(* The stress package: one call of stress.Run.  CPU workers and memory     *)
(* workers poll a stop flag between batches and add each batch to a shared *)
(* atomic counter; a watcher raises the flag when the context is done,     *)
(* which is when its parent is cancelled (Ctrl-C) or its timeout fires; a  *)
(* reporter prints the counters at every tick until the context is done.   *)
(*                                                                         *)
(* The arithmetic of a batch is left out: a batch of a CPU worker and a    *)
(* pass of a memory worker each count as one unit of their counter.        *)
(***************************************************************************)
EXTENDS StressConfig, FiniteSets

CONSTANTS
    MaxWorkers,      \* the most workers of one kind
    InitialProcs,    \* GOMAXPROCS before the call
    Configs,         \* the stress.Config values, with status # nil as a field
    MaxBatches,      \* bound: batches that begin while the total is below it
    MaxClock         \* bound: the clock stands still then, the ticker does not

ASSUME StressAssumption ==
    /\ MaxWorkers \in Nat \ {0}
    /\ NumCPU \in 1 .. MaxWorkers
    /\ InitialProcs \in Nat \ {0}
    /\ Configs \subseteq [duration : Nat, cpu : Int, mem : Int, mib : Int,
                          disableMem : BOOLEAN, interval : Int, status : BOOLEAN]
    /\ \A c \in Configs : c.cpu <= MaxWorkers /\ c.mem <= MaxWorkers
    /\ MaxBatches \in Nat
    /\ MaxClock \in Nat

Worker == {"cpu", "mem"} \X (1 .. MaxWorkers)

VARIABLES
    pc,          \* where Run is: "idle", "alloc", "start", "wait",
                 \* "statusWait" or "returned"
    call,        \* the resolved configuration and the saved GOMAXPROCS
    gomaxprocs,
    clock,       \* time since runCtx was created
    start,       \* the clock when the workers were all started
    cancelled,   \* the parent context is cancelled
    done,        \* runCtx is done
    watching,    \* the watcher waits for runCtx
    stop,        \* the flag the workers poll
    wg,          \* workers to wait for
    wpc,         \* where each worker is: "off", "check" or "batch"
    cpuOps,      \* batches counted by CPU workers
    memBytes,    \* passes counted by memory workers
    rpc,         \* where the reporter is: "off", "header", "select", "load"
    tick,        \* the ticker's channel, of capacity one, holds a tick
    seenOps,     \* the reporter's ops, loaded before memBytes
    line,        \* the last status line
    elapsed,
    stats        \* the Stats Run returned

ctxVars      == <<cancelled, done, watching, stop>>
workVars     == <<wg, wpc, cpuOps, memBytes>>
reporterVars == <<rpc, tick, seenOps, line>>
mainVars     == <<pc, call, gomaxprocs, start, elapsed, stats>>
vars == <<mainVars, clock, ctxVars, workVars, reporterVars>>

InProgress == pc \notin {"idle", "returned"}

NoCall == [duration |-> 0, cpu |-> 0, mem |-> 0, report |-> FALSE, prev |-> 0]
NoWork == [ops |-> 0, mem |-> 0]

Init ==
    /\ pc = "idle"
    /\ call = NoCall
    /\ gomaxprocs = InitialProcs
    /\ clock = 0
    /\ start = 0
    /\ cancelled = FALSE
    /\ done = FALSE
    /\ watching = FALSE
    /\ stop = FALSE
    /\ wg = 0
    /\ wpc = [w \in Worker |-> "off"]
    /\ cpuOps = 0
    /\ memBytes = 0
    /\ rpc = "off"
    /\ tick = FALSE
    /\ seenOps = 0
    /\ line = NoWork
    /\ elapsed = 0
    /\ stats = NoWork
-----------------------------------------------------------------------------
(* Pieces of the code the actions below share.                             *)

Workers(kind, n) == {kind} \X (1 .. n)

\* Mutants: wg.Add is forgotten, and one Add too many.
AddedNone(n) == 0
AddedTooMany(n) == n + 1

\* wg.Add(1) before each of n go statements.
Added(n) == n

\* go func() for each worker of a set.
Launch(ws) == [w \in Worker |-> IF w \in ws THEN "check" ELSE wpc[w]]

\* Mutant: only Ctrl-C ends the run.
NeverExpires == FALSE

\* The timeout of runCtx, of which there is none when Duration is 0.
Expired == call.duration > 0 /\ clock >= call.duration

\* Mutant: a worker ends once its batch is done, whatever the flag says.
StopAfterBatch == stop \/ cpuOps > 0

\* !stop.Load() in the loop of a worker.
MustStop == stop

\* Mutant: the flag is looked at on the way out only.
Keeps == TRUE

\* The loop condition of cpuWorker and memWorker.
KeepsGoing == ~MustStop

\* Mutant: the line shows what was done since the line before.
OpsSinceLine == cpuOps - line.ops

\* cpuOps.Load() in the reporter.
LoadedOps == cpuOps

RestoredProcs == call.prev

\* Mutant: the last status line is returned.
LastLine == line

\* cpuOps.Load() and memBytes.Load() in the returned Stats.
FinalTotals == [ops |-> cpuOps, mem |-> memBytes]

\* Mutant: Run does not wait for the reporter.
NotWaitedFor == TRUE

\* statusWg.Wait() returns.
ReporterGone == rpc = "off"
-----------------------------------------------------------------------------
(* The caller.                                                             *)

\* Run is called: configuration, GOMAXPROCS, the context with its timeout,
\* the watcher, and the CPU workers.
Call(c) ==
    LET cfg == Resolve(c) IN
    /\ pc = "idle"
    /\ pc' = "alloc"
    /\ call' = [duration |-> cfg.duration, cpu |-> cfg.cpu, mem |-> cfg.mem,
                report |-> cfg.report, prev |-> gomaxprocs]
    /\ gomaxprocs' = cfg.cpu + cfg.mem
    /\ done' = cancelled
    /\ watching' = TRUE
    /\ wpc' = Launch(Workers("cpu", cfg.cpu))
    /\ wg' = Added(cfg.cpu)
    /\ UNCHANGED <<clock, start, cancelled, stop, cpuOps, memBytes, reporterVars,
                   elapsed, stats>>

\* The buffers are allocated and touched, which takes its time; the memory
\* workers are started on them.
StartMemWorkers ==
    /\ pc = "alloc"
    /\ pc' = "start"
    /\ wpc' = Launch(Workers("mem", call.mem))
    /\ wg' = wg + Added(call.mem)
    /\ UNCHANGED <<call, gomaxprocs, start, elapsed, stats, clock, ctxVars,
                   cpuOps, memBytes, reporterVars>>

\* start := time.Now(), and the reporter unless it is disabled.
StartReporter ==
    /\ pc = "start"
    /\ pc' = "wait"
    /\ start' = clock
    /\ rpc' = IF call.report THEN "header" ELSE "off"
    /\ UNCHANGED <<call, gomaxprocs, elapsed, stats, clock, ctxVars, workVars,
                   tick, seenOps, line>>

\* wg.Wait() returns.
WorkersDone ==
    /\ pc = "wait"
    /\ wg = 0
    /\ pc' = "statusWait"
    /\ elapsed' = clock - start
    /\ UNCHANGED <<call, gomaxprocs, start, stats, clock, ctxVars, workVars,
                   reporterVars>>

\* statusWg.Wait() returns: the totals are read, the deferred cancel and
\* GOMAXPROCS run.
Return ==
    /\ pc = "statusWait"
    /\ ReporterGone
    /\ pc' = "returned"
    /\ stats' = FinalTotals
    /\ gomaxprocs' = RestoredProcs
    /\ done' = TRUE
    /\ UNCHANGED <<call, start, elapsed, clock, cancelled, watching, stop,
                   workVars, reporterVars>>
-----------------------------------------------------------------------------
(* The context and its watcher.                                            *)

\* Ctrl-C or SIGTERM; a context derived from the parent is done with it.
Cancel ==
    /\ ~cancelled
    /\ cancelled' = TRUE
    /\ done' = (done \/ InProgress)
    /\ UNCHANGED <<mainVars, clock, watching, stop, workVars, reporterVars>>

\* The timer of context.WithTimeout fires.
Expire ==
    /\ InProgress
    /\ ~done
    /\ Expired
    /\ done' = TRUE
    /\ UNCHANGED <<mainVars, clock, cancelled, watching, stop, workVars, reporterVars>>

\* <-runCtx.Done(); stop.Store(true)
Watch ==
    /\ watching
    /\ done
    /\ stop' = TRUE
    /\ watching' = FALSE
    /\ UNCHANGED <<mainVars, clock, cancelled, done, workVars, reporterVars>>
-----------------------------------------------------------------------------
(* The workers.                                                            *)

\* The flag is down: the next batch begins.
BeginBatch(w) ==
    /\ wpc[w] = "check"
    /\ KeepsGoing
    /\ cpuOps + memBytes < MaxBatches
    /\ wpc' = [wpc EXCEPT ![w] = "batch"]
    /\ UNCHANGED <<mainVars, clock, ctxVars, wg, cpuOps, memBytes, reporterVars>>

\* The batch is done: counter.Add.
EndBatch(w) ==
    /\ wpc[w] = "batch"
    /\ wpc' = [wpc EXCEPT ![w] = "check"]
    /\ \/ w[1] = "cpu" /\ cpuOps' = cpuOps + 1 /\ memBytes' = memBytes
       \/ w[1] = "mem" /\ memBytes' = memBytes + 1 /\ cpuOps' = cpuOps
    /\ UNCHANGED <<mainVars, clock, ctxVars, wg, reporterVars>>

\* The flag is up: the worker leaves its loop, defer wg.Done().
Exit(w) ==
    /\ wpc[w] = "check"
    /\ MustStop
    /\ wpc' = [wpc EXCEPT ![w] = "off"]
    /\ wg' = wg - 1
    /\ UNCHANGED <<mainVars, clock, ctxVars, cpuOps, memBytes, reporterVars>>
-----------------------------------------------------------------------------
(* The reporter.                                                           *)

Header ==
    /\ rpc = "header"
    /\ rpc' = "select"
    /\ UNCHANGED <<mainVars, clock, ctxVars, workVars, tick, seenOps, line>>

\* select takes the tick, also when the context is done as well.
TakeTick ==
    /\ rpc = "select"
    /\ tick
    /\ tick' = FALSE
    /\ seenOps' = LoadedOps
    /\ rpc' = "load"
    /\ UNCHANGED <<mainVars, clock, ctxVars, workVars, line>>

\* memBytes.Load(), and the line is printed.
PrintLine ==
    /\ rpc = "load"
    /\ line' = [ops |-> seenOps, mem |-> memBytes]
    /\ seenOps' = 0
    /\ rpc' = "select"
    /\ UNCHANGED <<mainVars, clock, ctxVars, workVars, tick>>

\* select takes runCtx.Done().
SeeDone ==
    /\ rpc = "select"
    /\ done
    /\ rpc' = "off"
    /\ tick' = FALSE
    /\ UNCHANGED <<mainVars, clock, ctxVars, workVars, seenOps, line>>

\* Time passes, and a ticker that runs may fill its channel.  It goes on doing
\* so for as long as the reporter is there, also beyond the last time modelled.
Tick ==
    /\ InProgress
    /\ \/ /\ clock < MaxClock
          /\ clock' = clock + 1
          /\ tick' \in IF rpc = "off" THEN {tick} ELSE {tick, TRUE}
       \/ /\ clock = MaxClock /\ clock' = clock
          /\ rpc # "off" /\ ~tick /\ tick' = TRUE
    /\ UNCHANGED <<mainVars, ctxVars, workVars, rpc, seenOps, line>>

\* Run has returned and its watcher is gone.
Terminated ==
    /\ pc = "returned"
    /\ ~watching
    /\ UNCHANGED vars

WorkerStep(w) == BeginBatch(w) \/ EndBatch(w) \/ Exit(w)
Main == StartMemWorkers \/ StartReporter \/ WorkersDone \/ Return
Reporter == Header \/ TakeTick \/ PrintLine \/ SeeDone

Next ==
    \/ \E c \in Configs : Call(c)
    \/ Main
    \/ Cancel \/ Expire \/ Watch
    \/ \E w \in Worker : WorkerStep(w)
    \/ Reporter
    \/ Tick
    \/ Terminated

Spec == Init /\ [][Next]_vars

\* Goroutines are preempted, so each of them runs again and again, busy as the
\* workers may be; timers fire; and a select with two ready cases takes either
\* at random, so neither for ever.  Nobody has to press Ctrl-C.
Fairness ==
    /\ WF_vars(Main)
    /\ WF_vars(Expire)
    /\ WF_vars(Watch)
    /\ \A w \in Worker : WF_vars(WorkerStep(w))
    /\ WF_vars(Reporter) /\ SF_vars(SeeDone)
    /\ WF_vars(Tick)

FairSpec == Spec /\ Fairness
-----------------------------------------------------------------------------
(* Properties.                                                             *)

Frame == [duration : Nat, cpu : 0 .. MaxWorkers, mem : 0 .. MaxWorkers,
          report : BOOLEAN, prev : Nat]

Work == [ops : Nat, mem : Nat]

\* The type invariant.
TypeOK ==
    /\ pc \in {"idle", "alloc", "start", "wait", "statusWait", "returned"}
    /\ call \in Frame
    /\ gomaxprocs \in Nat
    /\ clock \in Nat
    /\ start \in 0 .. clock
    /\ cancelled \in BOOLEAN /\ done \in BOOLEAN
    /\ watching \in BOOLEAN /\ stop \in BOOLEAN
    /\ wg \in Nat
    /\ wpc \in [Worker -> {"off", "check", "batch"}]
    /\ cpuOps \in Nat /\ memBytes \in Nat
    /\ rpc \in {"off", "header", "select", "load"}
    /\ tick \in BOOLEAN
    /\ seenOps \in Nat
    /\ line \in Work
    /\ elapsed \in Nat
    /\ stats \in Work

\* Run leaves nothing behind: no worker and no reporter runs after it has
\* returned, the watcher only has to end, and GOMAXPROCS is what it was.
NothingLeftBehind ==
    pc = "returned" =>
        /\ \A w \in Worker : wpc[w] = "off"
        /\ rpc = "off"
        /\ stop /\ ~watching
        /\ gomaxprocs = InitialProcs

\* An uncancelled run lasts for its Duration, and one without a Duration until
\* it is cancelled.
NeverEarly ==
    pc \in {"statusWait", "returned"} =>
        cancelled \/ (call.duration > 0 /\ clock >= call.duration)

\* Once the flag is up a worker ends the batch it is in and begins no other:
\* what may still be added to the counters only shrinks.
Pending == cpuOps + memBytes + Cardinality({w \in Worker : wpc[w] = "batch"})

StopIsPrompt == [][stop => Pending' <= Pending]_vars

\* The figures of the status lines never go back, and the totals returned are
\* final: they are no less than any line showed.
FiguresCoherent ==
    [][/\ line'.ops >= line.ops /\ line'.mem >= line.mem
       /\ pc' = "returned" => line'.ops <= stats'.ops /\ line'.mem <= stats'.mem]_vars

\* A run whose context is done returns, with the reporter still printing or a
\* buffer still being allocated.
DoneReturns == done ~> pc = "returned"

\* A run with a Duration ends by itself.
EndsByItself == (InProgress /\ call.duration > 0) ~> pc = "returned"

\* Run is a tally of batches: the Stats hold exactly what the workers counted,
\* and nothing is counted after the return.
Uncounted ==
    IF pc = "returned" THEN cpuOps + memBytes - (stats.ops + stats.mem)
                       ELSE cpuOps + memBytes

T == INSTANCE Tally WITH
    open     <- InProgress,
    count    <- Uncounted,
    reported <- stats.ops + stats.mem

ImplementsTally == T!Safety

\* What main.go says of a run nobody aborts: "stress mode running for %s", with
\* the Duration, and afterwards "stress complete: elapsed=%s", with the Elapsed.
ElapsedIsDuration ==
    pc = "returned" /\ ~cancelled => elapsed >= call.duration
=============================================================================
