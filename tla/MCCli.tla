------------------------------- MODULE MCCli -------------------------------
(* Small instances of Cli for TLC. *)
EXTENDS Cli

\* Of the reference machine only ratios matter; with several threads it does
\* four times as much, at twice the latency.
MCReference ==
    [b \in Names |-> [mode \in Modes |-> IF mode = "st" THEN [ops |-> 2, p99 |-> 4]
                                                        ELSE [ops |-> 8, p99 |-> 8]]]

\* What a machine measures that is as fast as the reference times 2^k in a
\* benchmark, for k = -1 .. 1, or too slow to measure anything.
AsFast(k) ==
    [mode \in Modes |->
        LET ref == MCReference["primes"][mode] IN
        CASE k = -2 -> [ops |-> 0, median |-> 0, p99 |-> 0]
          [] k = -1 -> [ops |-> ref.ops \div 2, median |-> ref.p99, p99 |-> 2 * ref.p99]
          [] k = 0  -> [ops |-> ref.ops, median |-> ref.p99 - 1, p99 |-> ref.p99]
          [] k = 1  -> [ops |-> 2 * ref.ops, median |-> 1, p99 |-> ref.p99 \div 2]]

LikeReference == [b \in Names |-> AsFast(0)]

Machine(perf, os, board, cpuinfo) ==
    [perf |-> perf, host |-> [os |-> os, board |-> board, cpuinfo |-> cpuinfo]]

Core(impl, part) ==
    <<<<"processor", "n">>, <<"CPU implementer", impl>>, <<"CPU part", part>>>>

Named == <<<<"processor", "n">>, <<"model name", "x86">>, EmptyLine>>

\* Machines half as fast as the reference in some benchmarks, and machines
\* that are like it but in one benchmark.  One benchmark stands for those that
\* count in the same categories.
Typical == {"primes", "matrix_int", "hashing", "json"}

MCPerfs ==
    {[b \in Names |-> AsFast(IF b \in slow THEN -1 ELSE 0)] : slow \in SUBSET Typical} \cup
    {[LikeReference EXCEPT ![b] = AsFast(k)] : b \in Names, k \in {-2, 1}}

\* Boards with cores of two kinds in turn, the last block with or without an
\* empty line after it or with lines about the board as a block of its own;
\* with blocks that describe a core in part, or say its part twice; cores of
\* another implementer, and of an unknown part; a machine that says nothing,
\* and one without /proc.
Boards ==
    {<<"Rock 5", Core("0x41", "0xd05") \o <<EmptyLine>> \o Core("0x41", "0xd0b")
                 \o <<EmptyLine>> \o Core("0x41", "0xd05")>>,
     <<"Pi", Core("0x41", "0xd0b") \o <<EmptyLine>> \o Core("0x41", "0xd0b")
             \o <<EmptyLine, <<"Hardware", "BCM">>, <<"Revision", "c">>>>>>,
     <<"", Core("0x51", "0xabc") \o <<EmptyLine>> \o <<<<"CPU implementer", "0x41">>, EmptyLine>>
           \o <<<<"CPU part", "0xd05">>, EmptyLine>> \o Core("0x41", "0xfff")
           \o <<<<"CPU part", "0xffe">>, EmptyLine>>>>,
     <<"", <<<<"processor", "n">>, EmptyLine>>>>}

MCMachines ==
    {Machine(perf, "linux", "", Named \o Named) : perf \in MCPerfs} \cup
    {Machine(LikeReference, "linux", b[1], b[2]) : b \in Boards} \cup
    {Machine(LikeReference, "darwin", "", <<>>)}

MCOneMachine == {Machine(LikeReference, "darwin", "", <<>>)}

\* With a P99 of ten seconds.
MCSlowMachine ==
    {Machine([b \in Names |-> [mode \in Modes |-> [ops |-> 1, median |-> 9, p99 |-> 20]]],
             "linux", "", <<>>)}

Command(threads, output, profile, tokens) ==
    [duration |-> 1, warmup |-> 1, threads |-> threads, size |-> "medium",
     output |-> output, profile |-> profile, benchmarks |-> tokens,
     stress |-> FALSE, stressDuration |-> 0, stressCPU |-> 0, stressMem |-> 0,
     stressMemMiB |-> 256]

Stressed(duration, cpu, mem, mib) ==
    [Command(0, "json", "gaming", <<"all">>)
        EXCEPT !.stress = TRUE, !.stressDuration = duration, !.stressCPU = cpu,
               !.stressMem = mem, !.stressMemMiB = mib]

MCCommands ==
    {Command(1, "table", "default", <<"all">>),
     Command(0, "both", "database", <<"">>),
     Command(2, "both", "batch", <<"php_like", "json", "", "php_like">>),
     Command(1, "json", "", <<"matrix_int", "sorting">>),
     Command(1, "table", "gaming", <<"primes">>),
     Command(1, "table", "default", <<"primes", "all">>),
     Command(1, "table", "default", <<"", "">>),
     Command(-1, "table", "default", <<"all">>),
     Stressed(0, 0, 0, 256), Stressed(60, 3, -1, 1), Stressed(1, -2, 5, 4096),
     Stressed(1, 1, -7, 2048), Stressed(1, 1, 1, 4097),
     Stressed(-1, 0, 0, 256), Stressed(0, 0, 0, 0)}

\* Just the integer-heavy benchmarks, an example of the README.
MCIntegerHeavy ==
    {Command(1, "table", "default", <<"primes", "sorting", "matrix_int">>)}
=============================================================================
