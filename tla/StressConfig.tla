---------------------------- MODULE StressConfig ----------------------------
(* What stress.Run makes of its stress.Config. *)
EXTENDS Integers

CONSTANT NumCPU      \* runtime.NumCPU()

ASSUME StressConfigAssumption == NumCPU \in Nat \ {0}

\* runtime.NumCPU() / 2, at least one.
DefaultMemWorkers == IF NumCPU \div 2 < 1 THEN 1 ELSE NumCPU \div 2

DefaultMiB == 256

\* Defaults for fields that are zero, or negative where that means zero; the
\* buffer of a memory worker in MiB.
Resolve(c) ==
    [cpu      |-> IF c.cpu <= 0 THEN NumCPU ELSE c.cpu,
     mem      |-> CASE c.disableMem -> 0
                    [] ~c.disableMem /\ c.mem <= 0 -> DefaultMemWorkers
                    [] OTHER -> c.mem,
     mib      |-> IF c.mib <= 0 THEN DefaultMiB ELSE c.mib,
     duration |-> c.duration,
     report   |-> c.status /\ c.interval >= 0]
=============================================================================
