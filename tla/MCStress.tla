------------------------------ MODULE MCStress ------------------------------
(* Small instances of Stress for TLC. *)
EXTENDS Stress

Config(duration, cpu, mem, disableMem, interval, status) ==
    [duration |-> duration, cpu |-> cpu, mem |-> mem, mib |-> 0, disableMem |-> disableMem,
     interval |-> interval, status |-> status]

\* A timed run with two workers of each kind and a reporter, a run until
\* Ctrl-C with the defaults, and CPU-only runs, with the reporter disabled in
\* the one way or in the other.
MCConfigs ==
    {Config(2, 2, 2, FALSE, 0, TRUE),
     Config(0, 0, 0, FALSE, 1, TRUE),
     Config(1, 1, -1, TRUE, -1, TRUE),
     Config(1, 2, 0, TRUE, 1, FALSE)}

MCTimed ==
    {Config(2, 1, 1, FALSE, 0, TRUE),
     Config(0, 1, 0, FALSE, 1, TRUE)}
=============================================================================
