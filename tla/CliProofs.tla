----------------------------- MODULE CliProofs -----------------------------
(***************************************************************************)
(* Theorems about Cli, for all command lines and machines.  What was       *)
(* measured is always a beginning of the selection, and the rest of it is  *)
(* in rest; score and stdout are functions of what was measured.           *)
(***************************************************************************)
EXTENDS Cli, Basics, SequenceTheorems

Sel == Selected(flags.benchmarks)

Outcome == [name : Names, ops : Nat, median : Nat, p99 : Nat]

Measured(m, b, mode) ==
    [name |-> b, ops |-> m.perf[b][mode].ops, median |-> m.perf[b][mode].median,
     p99 |-> m.perf[b][mode].p99]

Types ==
    /\ pc \in {"flags", "st", "mt", "table", "json", "stress", "exit"}
    /\ flags \in Commands
    /\ machine \in Machines
    /\ status \in 0 .. 2

\* rs are the outcomes of the first benchmarks selected, in one mode.
Beginning(rs, mode, sel, m) ==
    /\ rs \in Seq(Outcome)
    /\ Len(rs) <= Len(sel)
    /\ \A k \in 1 .. Len(rs) : rs[k] = Measured(m, sel[k], mode)

\* The remaining entries are the last ones of the selection.
Ending(rs, sel) ==
    /\ rs \in Seq(Names)
    /\ Len(rs) <= Len(sel)
    /\ \A k \in 1 .. Len(rs) : rs[k] = sel[Len(sel) - Len(rs) + k]

InMT == IF RunMT THEN Len(st) ELSE 0

Complete == ValidMeasuring /\ Len(st) = Len(Sel) /\ Len(mt) = InMT

Progress ==
    /\ Beginning(st, "st", Sel, machine) /\ Beginning(mt, "mt", Sel, machine) /\ Ending(rest, Sel)
    /\ Len(mt) <= Len(st) /\ Len(rest) + Len(st) <= Len(Sel) + 1
    /\ pc \in {"st", "mt", "table", "json"} => ~flags.stress /\ ValidMeasuring /\ status = 0
    /\ pc = "st" => Len(rest) + Len(st) = Len(Sel) /\ Len(mt) = InMT
    /\ pc = "mt" => /\ RunMT /\ rest # <<>>
                    /\ Len(rest) + Len(st) = Len(Sel) + 1 /\ Len(mt) = Len(st) - 1
    /\ pc \in {"table", "json"} => Complete
    /\ Succeeded => Complete

\* The configuration of the stress run that the flags ask for.
Asked ==
    Resolve([duration |-> flags.stressDuration, cpu |-> flags.stressCPU,
             mem |-> IF DisableMem THEN 0 ELSE flags.stressMem,
             mib |-> Shifted(flags.stressMemMiB), disableMem |-> DisableMem,
             interval |-> 0, status |-> TRUE])

Nothing == st = <<>> /\ mt = <<>> /\ rest = <<>> /\ score = <<>> /\ stdout = <<>>

Heating ==
    /\ pc = "flags" => status = 0 /\ load = <<>> /\ Nothing
    /\ flags.stress => Nothing
    /\ pc = "stress" => flags.stress
    /\ load # <<>> => /\ flags.stress /\ ValidStress /\ load = Asked
                      /\ pc \in {"stress", "exit"} /\ status = 0

Scores ==
    /\ pc \in {"st", "mt"} => score = <<>> /\ stdout = <<>>
    /\ Scored => /\ flags.profile \in Profiles
                 /\ score = Score(st, mt, flags.profile)

Table == [kind |-> "table", content |-> Rows(score, st), cpu |-> DetectCPUModel(machine.host)]

Document == [kind |-> "json", content |-> Raw(st, mt), cpu |-> DetectCPUModel(machine.host)]

Paper(kind) == IF kind = "table" THEN Table ELSE Document

\* What was written is told by its kinds.
Papers ==
    /\ stdout = [k \in 1 .. Len(Kinds) |-> Paper(Kinds[k])]
    /\ Kinds \in {<<>>, <<"table">>, <<"json">>, <<"table", "json">>}
    /\ pc = "table" => Kinds = <<>> /\ flags.output \in {"table", "both"}
    /\ pc = "json" => \/ flags.output \in {"json", "both"} /\ Kinds = <<>>
                      \/ flags.output = "both" /\ Kinds = <<"table">>
    /\ Kinds \in {<<"json">>, <<"table", "json">>} => pc = "exit" /\ status = 0
    /\ Succeeded =>
          \/ flags.output = "table" /\ Kinds \in {<<>>, <<"table">>}
          \/ flags.output = "json"  /\ Kinds = <<"json">>
          \/ flags.output = "both"  /\ Kinds \in {<<"json">>, <<"table", "json">>}

IInv == Types /\ Progress /\ Heating /\ Scores /\ Papers
-----------------------------------------------------------------------------
(* What is selected.                                                       *)

LEMMA RegistryIs ==
    /\ DOMAIN Registry = 1 .. 8 /\ Registry \in Seq(Names)
    /\ Registry = [k \in 1 .. 8 |-> Registry[k]]
    /\ Names = {Registry[k] : k \in 1 .. 8}
    /\ \A j, k \in 1 .. 8 : Registry[j] = Registry[k] => j = k
<1>1. /\ Registry[1] = "primes" /\ Registry[2] = "sorting" /\ Registry[3] = "matrix_int"
      /\ Registry[4] = "matrix_float" /\ Registry[5] = "hashing" /\ Registry[6] = "json"
      /\ Registry[7] = "php_like" /\ Registry[8] = "apache_like"
  BY DEF Registry
<1>2. Registry \in Seq(Names) /\ DOMAIN Registry = 1 .. 8 /\ Registry = [k \in 1 .. 8 |-> Registry[k]]
  BY DEF Registry, Names
<1>3. Names = {Registry[k] : k \in 1 .. 8}
  <2>1. \A k \in 1 .. 8 : k = 1 \/ k = 2 \/ k = 3 \/ k = 4 \/ k = 5 \/ k = 6 \/ k = 7 \/ k = 8
    OBVIOUS
  <2>2. \A b \in Names : \E k \in 1 .. 8 : b = Registry[k]
    BY <1>1 DEF Names
  <2>3. \A k \in 1 .. 8 : Registry[k] \in Names
    BY <1>1, <2>1 DEF Names
  <2> QED
    BY <2>2, <2>3
<1>4. \A j, k \in 1 .. 8 : Registry[j] = Registry[k] => j = k
  BY <1>1
<1> QED
  BY <1>2, <1>3, <1>4

\* The selection is in the registry's order, with each name at most once.
InOrder(sel) ==
    \E at \in [1 .. Len(sel) -> 1 .. 8] :
        /\ \A k \in 1 .. Len(sel) : sel[k] = Registry[at[k]]
        /\ \A j, k \in 1 .. Len(sel) : j < k => at[j] < at[k]

LEMMA SelectedIs ==
    ASSUME NEW tokens
    PROVE  LET sel == Selected(tokens) IN
           /\ sel \in Seq(Names) /\ Len(sel) \in 0 .. 8 /\ InOrder(sel)
           /\ {sel[k] : k \in 1 .. Len(sel)}
                 = IF Everything(tokens) THEN Names ELSE Names \cap Wanted(tokens)
           /\ Len(sel) = 8 => {sel[k] : k \in 1 .. Len(sel)} = Names
<1> DEFINE sel == Selected(tokens)
<1>1. CASE Everything(tokens)
  <2>1. sel = Registry /\ Len(sel) = 8
    BY <1>1 DEF Selected, Registry
  <2>2. InOrder(sel)
    <3> DEFINE at == [k \in 1 .. 8 |-> k]
    <3>1. at \in [1 .. Len(sel) -> 1 .. 8] /\ \A k \in 1 .. Len(sel) : at[k] = k
      BY <2>1
    <3> HIDE DEF at, sel
    <3> QED
      BY <2>1, <3>1 DEF InOrder
  <2> QED
    BY <1>1, <2>1, <2>2, RegistryIs
<1>2. CASE ~Everything(tokens)
  <2> DEFINE W == Wanted(tokens)
             P == Members(Registry, W)
             N == Cardinality(P)
  <2>1. sel = Filtered(Registry, W)
    BY <1>2 DEF Selected
  <2>2. IsFiniteSet(1 .. 8) /\ Cardinality(1 .. 8) = 8
    <3>1. /\ IsFiniteSet(1 .. 8)
          /\ Cardinality(1 .. 8) = IF 1 > 8 THEN 0 ELSE 8 - 1 + 1
      BY ONLY 1 \in Int, 8 \in Int, FS_Interval
    <3> QED
      BY <3>1
  <2>3. P \in SUBSET (1 .. 8) /\ IsFiniteSet(P) /\ N \in 0 .. 8 /\ (N = 8 => P = 1 .. 8)
    <3>1. P \in SUBSET (1 .. 8)
      BY RegistryIs DEF Members
    <3> HIDE DEF P
    <3>2. IsFiniteSet(P) /\ N <= 8 /\ (N = 8 => P = 1 .. 8)
      BY <2>2, <3>1, FS_Subset
    <3> QED
      BY <3>1, <3>2, FS_CardinalityType
  <2>4. PICK at : TakenFrom(at, Registry, W)
    BY RegistryIs, FilteredPlaces
  <2>5. /\ at \in [1 .. N -> P] /\ sel = [k \in 1 .. N |-> Registry[at[k]]]
        /\ \A j, k \in 1 .. N : j < k => at[j] < at[k]
        /\ \A p \in P : \E k \in 1 .. N : at[k] = p
    BY <2>1, <2>4 DEF TakenFrom
  <2>6. P = {p \in 1 .. 8 : Registry[p] \in W}
    BY RegistryIs DEF Members
  <2> HIDE DEF P, N, W, sel
  <2>7. sel \in Seq(Names) /\ Len(sel) = N
    <3>1. \A k \in 1 .. N : Registry[at[k]] \in Names
      BY <2>3, <2>5, RegistryIs
    <3> QED
      BY <2>3, <2>5, <3>1
  <2>8. InOrder(sel)
    <3>1. at \in [1 .. Len(sel) -> 1 .. 8]
      BY <2>3, <2>5, <2>7
    <3> QED
      BY <2>5, <2>7, <3>1 DEF InOrder
  <2>9. {sel[k] : k \in 1 .. Len(sel)} = {Registry[p] : p \in P}
    BY <2>5, <2>7
  <2>10. {Registry[p] : p \in P} = Names \cap W
    BY <2>6, RegistryIs
  <2>11. N = 8 => {Registry[p] : p \in P} = Names
    BY <2>3, RegistryIs
  <2> QED
    BY <1>2, <2>3, <2>7, <2>8, <2>9, <2>10, <2>11 DEF sel, W
<1> QED
  BY <1>1, <1>2

\* No name is selected twice.
LEMMA InOrderOnce ==
    ASSUME NEW sel \in Seq(Names), InOrder(sel),
           NEW j \in 1 .. Len(sel), NEW k \in 1 .. Len(sel), sel[j] = sel[k]
    PROVE  j = k
<1>1. PICK at \in [1 .. Len(sel) -> 1 .. 8] :
         /\ \A i \in 1 .. Len(sel) : sel[i] = Registry[at[i]]
         /\ \A i, l \in 1 .. Len(sel) : i < l => at[i] < at[l]
  BY DEF InOrder
<1>2. at[j] \in 1 .. 8 /\ at[k] \in 1 .. 8 /\ Registry[at[j]] = Registry[at[k]]
  BY <1>1
<1>3. at[j] = at[k]
  BY <1>2, RegistryIs
<1>4. j \in Int /\ k \in Int /\ ~(at[j] < at[k]) /\ ~(at[k] < at[j])
  BY <1>2, <1>3
<1> QED
  BY <1>1, <1>4
-----------------------------------------------------------------------------
(* The invariant.                                                          *)

LEMMA FlagsType ==
    ASSUME NEW f \in Commands
    PROVE  /\ f.duration \in Int /\ f.warmup \in Int /\ f.threads \in Int
           /\ f.stress \in BOOLEAN /\ f.stressDuration \in Int /\ f.stressCPU \in Int
           /\ f.stressMem \in Int /\ f.stressMemMiB \in Int
BY CliAssumption

LEMMA MeasuredType ==
    ASSUME NEW m \in Machines, NEW b \in Names, NEW mode \in Modes
    PROVE  Measured(m, b, mode) \in Outcome /\ Measured(m, b, mode).name = b
<1>1. m.perf \in [Names -> [Modes -> Measurement]]
  BY CliAssumption
<1>2. m.perf[b][mode] \in Measurement
  BY <1>1
<1> QED
  BY <1>2 DEF Measured, Outcome, Measurement

LEMMA BeginningGrows ==
    ASSUME NEW sel \in Seq(Names), NEW m \in Machines, NEW mode \in Modes, NEW rs,
           Beginning(rs, mode, sel, m), Len(rs) < Len(sel)
    PROVE  /\ Beginning(Append(rs, Measured(m, sel[Len(rs) + 1], mode)), mode, sel, m)
           /\ Len(Append(rs, Measured(m, sel[Len(rs) + 1], mode))) = Len(rs) + 1
<1> DEFINE new == Measured(m, sel[Len(rs) + 1], mode)
<1>1. rs \in Seq(Outcome) /\ Len(rs) \in Nat /\ Len(rs) + 1 \in 1 .. Len(sel)
  BY DEF Beginning
<1>2. new \in Outcome
  BY <1>1, MeasuredType
<1>3. new = Measured(m, sel[Len(rs) + 1], mode)
  OBVIOUS
<1> HIDE DEF new
<1>4. /\ Append(rs, new) \in Seq(Outcome) /\ Len(Append(rs, new)) = Len(rs) + 1
      /\ \A k \in 1 .. Len(rs) : Append(rs, new)[k] = rs[k]
      /\ Append(rs, new)[Len(rs) + 1] = new
  BY <1>1, <1>2
<1>5. ASSUME NEW k \in 1 .. Len(rs) + 1
      PROVE  Append(rs, new)[k] = Measured(m, sel[k], mode)
  BY <1>1, <1>3, <1>4 DEF Beginning
<1> QED
  BY <1>1, <1>3, <1>4, <1>5 DEF Beginning

LEMMA EndingShrinks ==
    ASSUME NEW sel \in Seq(Names), NEW rs, Ending(rs, sel), rs # <<>>
    PROVE  /\ Ending(Tail(rs), sel) /\ Len(Tail(rs)) = Len(rs) - 1 /\ Len(rs) \in Nat \ {0}
           /\ Head(rs) = sel[Len(sel) - Len(rs) + 1]
<1>1. /\ rs \in Seq(Names) /\ Len(rs) <= Len(sel)
      /\ \A k \in 1 .. Len(rs) : rs[k] = sel[Len(sel) - Len(rs) + k]
  BY DEF Ending
<1>2. Len(rs) \in Nat \ {0} /\ Head(rs) = rs[1]
  BY <1>1
<1>3. /\ Tail(rs) \in Seq(Names) /\ Len(Tail(rs)) = Len(rs) - 1
      /\ \A k \in 1 .. Len(rs) - 1 : Tail(rs)[k] = rs[k + 1]
  BY <1>1
<1>4. ASSUME NEW k \in 1 .. Len(rs) - 1
      PROVE  Tail(rs)[k] = sel[Len(sel) - (Len(rs) - 1) + k]
  <2>1. k + 1 \in 1 .. Len(rs) /\ Len(sel) - Len(rs) + (k + 1) = Len(sel) - (Len(rs) - 1) + k
    BY <1>1, <1>2
  <2>2. rs[k + 1] = sel[Len(sel) - Len(rs) + (k + 1)]
    BY <1>1, <2>1
  <2> QED
    BY <1>3, <2>1, <2>2
<1>5. Len(sel) \in Nat /\ 1 \in 1 .. Len(rs)
  BY <1>2
<1>6. Ending(Tail(rs), sel)
  BY <1>1, <1>2, <1>3, <1>4, <1>5 DEF Ending
<1>7. rs[1] = sel[Len(sel) - Len(rs) + 1]
  BY <1>1, <1>5
<1> QED
  BY <1>2, <1>3, <1>6, <1>7

LEMMA Whole ==
    ASSUME NEW sel \in Seq(Names)
    PROVE  Ending(sel, sel)
BY DEF Ending

LEMMA Nobody ==
    ASSUME NEW sel \in Seq(Names), NEW m, NEW mode
    PROVE  Beginning(<<>>, mode, sel, m) /\ Ending(<<>>, sel)
BY DEF Beginning, Ending

LEMMA CliInit == Init => IInv
<1> SUFFICES ASSUME Init PROVE IInv
  OBVIOUS
<1> USE DEF Init
<1>1. Types
  BY DEF Types
<1>2. Progress
  <2>1. Sel \in Seq(Names)
    BY SelectedIs DEF Sel
  <2>2. Beginning(<<>>, "st", Sel, machine) /\ Beginning(<<>>, "mt", Sel, machine) /\ Ending(<<>>, Sel)
    BY <2>1, Nobody
  <2>3. Len(Sel) \in Nat
    BY <2>1
  <2> QED
    BY <2>2, <2>3 DEF Progress, Succeeded
<1>3. Heating
  BY DEF Heating, Nothing
<1>4. Scores
  BY DEF Scores, Scored
<1>5. Papers
  <2>1. Kinds = <<>>
    BY DEF Kinds
  <2> QED
    BY <2>1 DEF Papers, Succeeded
<1> QED
  BY <1>1, <1>2, <1>3, <1>4, <1>5 DEF IInv

\* Flags and machine stay what they are.
LEMMA InputStays ==
    ASSUME [Next]_vars
    PROVE  flags' = flags /\ machine' = machine
BY DEF Next, vars, input, Reject, Accept, StartStress, StressEnds, MeasureST, MeasureMT,
       ComputeScore, RenderTable, EmitJSON, Interrupt, Terminated

LEMMA TypesStep == ASSUME IInv, [Next]_vars PROVE Types'
<1>1. flags' = flags /\ machine' = machine /\ Types
  BY InputStays DEF IInv
<1>2. status' \in 0 .. 2
  BY <1>1 DEF Types, Next, vars, Reject, Accept, StartStress, StressEnds, MeasureST, MeasureMT,
              ComputeScore, RenderTable, EmitJSON, Interrupt, Terminated
<1>3. pc' \in {"flags", "st", "mt", "table", "json", "stress", "exit"}
  BY <1>1 DEF Types, Next, vars, Reject, Accept, StartStress, StressEnds, MeasureST, MeasureMT,
              ComputeScore, RenderTable, EmitJSON, Interrupt, Terminated, AfterScore
<1> QED
  BY <1>1, <1>2, <1>3 DEF Types

LEMMA ProgressStep == ASSUME IInv, [Next]_vars PROVE Progress'
<1>1. /\ flags' = flags /\ machine' = machine
      /\ Types /\ Progress /\ Heating
  BY InputStays DEF IInv
<1>2. /\ Sel' = Sel /\ Sel \in Seq(Names) /\ Len(Sel) \in Nat
      /\ ValidMeasuring' = ValidMeasuring /\ RunMT' = RunMT
      /\ machine \in Machines /\ "st" \in Modes /\ "mt" \in Modes
  <2>1. Sel' = Sel /\ ValidMeasuring' = ValidMeasuring /\ RunMT' = RunMT
    BY <1>1 DEF Sel, ValidMeasuring, RunMT
  <2>2. Sel \in Seq(Names)
    BY SelectedIs DEF Sel
  <2> QED
    BY <1>1, <2>1, <2>2 DEF Types, Modes
<1>3. /\ Beginning(st, "st", Sel, machine) /\ Beginning(mt, "mt", Sel, machine) /\ Ending(rest, Sel)
      /\ Len(st) \in Nat /\ Len(mt) \in Nat /\ Len(rest) \in Nat
      /\ Len(mt) <= Len(st) /\ Len(rest) + Len(st) <= Len(Sel) + 1
  BY <1>1 DEF Progress, Beginning, Ending
<1> DEFINE Same == st' = st /\ mt' = mt /\ rest' = rest
           Results == /\ Beginning(st', "st", Sel', machine') /\ Beginning(mt', "mt", Sel', machine')
                      /\ Ending(rest', Sel')
                      /\ Len(mt') <= Len(st') /\ Len(rest') + Len(st') <= Len(Sel') + 1
<1>4. Same => Results
  BY <1>1, <1>2, <1>3
<1>5. Same => InMT' = InMT /\ Complete' = Complete
  BY <1>1, <1>2 DEF InMT, Complete
<1>6. CASE UNCHANGED vars
  <2>1. Same /\ pc' = pc /\ status' = status
    BY <1>6 DEF vars, results
  <2> QED
    BY <1>1, <1>2, <1>4, <1>5, <2>1 DEF Progress, Succeeded
<1>7. CASE Reject \/ Interrupt
  <2>1. Same /\ pc' = "exit" /\ status' # 0
    BY <1>7 DEF Reject, Interrupt, results
  <2> QED
    BY <1>4, <2>1 DEF Progress, Succeeded
<1>8. CASE Accept
  <2>1. /\ ~flags.stress /\ ValidMeasuring /\ rest' = Sel /\ st' = st /\ mt' = mt
        /\ pc' = "st" /\ status' = status /\ pc = "flags"
    BY <1>8 DEF Accept, results, Sel
  <2>2. st = <<>> /\ mt = <<>> /\ status = 0
    BY <1>1, <2>1 DEF Heating, Nothing
  <2>3. Len(st) = 0 /\ Len(mt) = 0 /\ Ending(rest', Sel')
    BY <1>2, <2>1, <2>2, Whole
  <2>4. InMT' = 0
    BY <2>1, <2>3 DEF InMT
  <2> QED
    BY <1>1, <1>2, <1>3, <2>1, <2>2, <2>3, <2>4 DEF Progress, Succeeded
<1>9. CASE StartStress \/ StressEnds
  <2>1. Same /\ pc' \in {"stress", "exit"} /\ flags.stress
    BY <1>1, <1>9 DEF StartStress, StressEnds, results, Heating
  <2> QED
    BY <1>1, <1>4, <2>1 DEF Progress, Succeeded
<1>10. CASE MeasureST
  <2>1. /\ pc = "st" /\ rest # <<>> /\ st' = Append(st, Measured(machine, Head(rest), "st"))
        /\ mt' = mt /\ status' = status
        /\ IF RunMT THEN pc' = "mt" /\ rest' = rest ELSE pc' = "st" /\ rest' = Tail(rest)
    BY <1>10 DEF MeasureST, Result, Measured
  <2>2. /\ ~flags.stress /\ ValidMeasuring /\ status = 0
        /\ Len(rest) + Len(st) = Len(Sel) /\ Len(mt) = InMT
    BY <1>1, <2>1 DEF Progress
  <2>3. /\ Ending(Tail(rest), Sel) /\ Len(Tail(rest)) = Len(rest) - 1 /\ Len(rest) # 0
        /\ Head(rest) = Sel[Len(Sel) - Len(rest) + 1]
    BY <1>2, <1>3, <2>1, EndingShrinks
  <2>4. Len(Sel) - Len(rest) + 1 = Len(st) + 1 /\ Len(st) < Len(Sel)
    BY <1>2, <1>3, <2>2, <2>3
  <2>5. Beginning(st', "st", Sel, machine) /\ Len(st') = Len(st) + 1
    BY <1>2, <1>3, <2>1, <2>3, <2>4, BeginningGrows
  <2>6. CASE RunMT
    BY <1>1, <1>2, <1>3, <2>1, <2>2, <2>3, <2>4, <2>5, <2>6 DEF Progress, Succeeded, InMT
  <2>7. CASE ~RunMT
    <3>1. InMT' = 0 /\ Len(mt) = 0
      BY <1>2, <2>2, <2>7 DEF InMT
    <3>2. pc' = "st" /\ rest' = Tail(rest) /\ Len(rest') = Len(rest) - 1 /\ Ending(rest', Sel')
      BY <1>2, <2>1, <2>3, <2>7
    <3>3. Results
      BY <1>1, <1>2, <1>3, <2>1, <2>2, <2>4, <2>5, <3>1, <3>2
    <3>4. Len(rest') + Len(st') = Len(Sel') /\ Len(mt') = InMT'
      BY <1>2, <1>3, <2>1, <2>2, <2>5, <3>1, <3>2
    <3> QED
      BY <1>1, <1>2, <2>1, <2>2, <3>2, <3>3, <3>4 DEF Progress, Succeeded
  <2> QED
    BY <2>6, <2>7
<1>11. CASE MeasureMT
  <2>1. /\ pc = "mt" /\ mt' = Append(mt, Measured(machine, Head(rest), "mt"))
        /\ st' = st /\ status' = status /\ rest' = Tail(rest) /\ pc' = "st"
    BY <1>11 DEF MeasureMT, Result, Measured
  <2>2. /\ ~flags.stress /\ ValidMeasuring /\ status = 0 /\ RunMT /\ rest # <<>>
        /\ Len(rest) + Len(st) = Len(Sel) + 1 /\ Len(mt) = Len(st) - 1
    BY <1>1, <2>1 DEF Progress
  <2>3. /\ Ending(Tail(rest), Sel) /\ Len(Tail(rest)) = Len(rest) - 1 /\ Len(rest) # 0
        /\ Head(rest) = Sel[Len(Sel) - Len(rest) + 1]
    BY <1>2, <1>3, <2>2, EndingShrinks
  <2>4. Len(Sel) - Len(rest) + 1 = Len(mt) + 1 /\ Len(mt) < Len(Sel)
    BY <1>2, <1>3, <2>2, <2>3
  <2>5. Beginning(mt', "mt", Sel, machine) /\ Len(mt') = Len(mt) + 1
    BY <1>2, <1>3, <2>1, <2>3, <2>4, BeginningGrows
  <2>6. InMT' = Len(st)
    BY <1>2, <2>1, <2>2 DEF InMT
  <2> QED
    BY <1>1, <1>2, <1>3, <2>1, <2>2, <2>3, <2>5, <2>6 DEF Progress, Succeeded
<1>12. CASE ComputeScore
  <2>1. Same /\ pc = "st" /\ rest = <<>>
    BY <1>12 DEF ComputeScore
  <2>2. /\ ~flags.stress /\ ValidMeasuring /\ status = 0 /\ flags.profile \in Profiles
        /\ Len(rest) + Len(st) = Len(Sel) /\ Len(mt) = InMT
    BY <1>1, <2>1 DEF Progress, ValidMeasuring, ProfileChecked
  <2>3. pc' \in {"table", "json"} /\ status' = status
    BY <1>12, <2>2 DEF ComputeScore, AfterScore
  <2>4. Complete
    BY <1>3, <2>1, <2>2 DEF Complete
  <2> QED
    BY <1>1, <1>2, <1>4, <1>5, <2>1, <2>2, <2>3, <2>4 DEF Progress, Succeeded
<1>13. CASE RenderTable \/ EmitJSON
  <2>1. Same /\ pc \in {"table", "json"} /\ pc' \in {"json", "exit"}
    BY <1>13 DEF RenderTable, EmitJSON, results
  <2>2. pc' = "json" => status' = status
    BY <1>13 DEF RenderTable, EmitJSON
  <2>3. ~flags.stress /\ ValidMeasuring /\ status = 0 /\ Complete
    BY <1>1, <2>1 DEF Progress
  <2> QED
    BY <1>1, <1>2, <1>4, <1>5, <2>1, <2>2, <2>3 DEF Progress, Succeeded
<1> QED
  BY <1>6, <1>7, <1>8, <1>9, <1>10, <1>11, <1>12, <1>13 DEF Next, Terminated

LEMMA HeatingStep == ASSUME IInv, [Next]_vars PROVE Heating'
<1>1. /\ flags' = flags /\ machine' = machine
      /\ Types /\ Progress /\ Heating
  BY InputStays DEF IInv
<1>2. Asked' = Asked /\ ValidStress' = ValidStress
  BY <1>1 DEF Asked, ValidStress, DisableMem
<1>3. CASE UNCHANGED vars
  BY <1>1, <1>2, <1>3 DEF Heating, Nothing, vars, results
<1>4. CASE Reject
  BY <1>1, <1>2, <1>4 DEF Heating, Nothing, Reject, results
<1>5. CASE Accept
  BY <1>1, <1>2, <1>5 DEF Heating, Nothing, Accept, results
<1>6. CASE StartStress
  <2>1. load' = Asked /\ flags.stress /\ ValidStress /\ pc = "flags" /\ pc' = "stress"
    BY <1>6 DEF StartStress, Asked
  <2>2. Nothing' /\ status' = 0
    BY <1>1, <1>6 DEF StartStress, Heating, Nothing, results
  <2> QED
    BY <1>1, <1>2, <2>1, <2>2 DEF Heating
<1>7. CASE StressEnds
  BY <1>1, <1>2, <1>7 DEF Heating, Nothing, StressEnds, results
<1>8. CASE MeasureST \/ MeasureMT \/ ComputeScore \/ RenderTable \/ EmitJSON
  <2>1. /\ pc \in {"st", "mt", "table", "json"} /\ load' = load
        /\ pc' \in {"st", "mt", "table", "json", "exit"}
    BY <1>8 DEF MeasureST, MeasureMT, ComputeScore, AfterScore, RenderTable, EmitJSON
  <2>2. ~flags.stress /\ load = <<>>
    BY <1>1, <2>1 DEF Progress, Heating
  <2> QED
    BY <1>1, <2>1, <2>2 DEF Heating
<1>9. CASE Interrupt
  <2>1. pc \notin {"stress", "exit"} /\ pc' = "exit" /\ load' = load
    BY <1>9 DEF Interrupt
  <2>2. load = <<>>
    BY <1>1, <2>1 DEF Heating
  <2>3. Nothing' = Nothing
    BY <1>9 DEF Interrupt, Nothing, results
  <2> QED
    BY <1>1, <2>1, <2>2, <2>3 DEF Heating
<1> QED
  BY <1>3, <1>4, <1>5, <1>6, <1>7, <1>8, <1>9 DEF Next, Terminated

LEMMA ScoresStep == ASSUME IInv, [Next]_vars PROVE Scores'
<1>1. /\ flags' = flags /\ Types /\ Progress /\ Heating /\ Scores
  BY InputStays DEF IInv
<1>2. CASE UNCHANGED vars
  BY <1>1, <1>2 DEF Scores, Scored, vars, results
<1>3. CASE Reject \/ Accept \/ StartStress \/ StressEnds \/ Interrupt
  <2>1. st' = st /\ mt' = mt /\ score' = score /\ stdout' = stdout /\ pc' # "mt"
    BY <1>3 DEF Reject, Accept, StartStress, StressEnds, Interrupt, results
  <2>2. pc' = "st" => Nothing
    BY <1>1, <1>3 DEF Reject, Accept, StartStress, StressEnds, Interrupt, Heating
  <2> QED
    BY <1>1, <2>1, <2>2 DEF Scores, Scored, Nothing
<1>4. CASE MeasureST \/ MeasureMT
  <2>1. pc \in {"st", "mt"} /\ score' = score /\ stdout' = stdout
    BY <1>4 DEF MeasureST, MeasureMT
  <2> QED
    BY <1>1, <2>1 DEF Scores, Scored
<1>5. CASE ComputeScore
  <2>1. flags.profile \in Profiles
    BY <1>1, <1>5 DEF ComputeScore, Progress, ValidMeasuring, ProfileChecked
  <2>2. /\ score' = Score(st, mt, flags.profile) /\ st' = st /\ mt' = mt
        /\ pc' \in {"table", "json"}
    BY <1>5, <2>1 DEF ComputeScore, AfterScore
  <2> QED
    BY <1>1, <2>1, <2>2 DEF Scores
<1>6. CASE RenderTable \/ EmitJSON
  <2>1. st' = st /\ mt' = mt /\ score' = score /\ pc' \in {"json", "exit"}
    BY <1>6 DEF RenderTable, EmitJSON, results
  <2> QED
    BY <1>1, <2>1 DEF Scores, Scored
<1> QED
  BY <1>2, <1>3, <1>4, <1>5, <1>6 DEF Next, Terminated

KindsOf(papers) == [k \in DOMAIN papers |-> papers[k].kind]

\* What was written, and the kinds of it.
LEMMA PapersByKind ==
    ASSUME NEW T, T.kind = "table", NEW D, D.kind = "json", NEW papers
    PROVE  /\ papers = <<>> => KindsOf(papers) = <<>>
           /\ papers = <<T>> => KindsOf(papers) = <<"table">>
           /\ papers = <<D>> => KindsOf(papers) = <<"json">>
           /\ papers = <<T, D>> => KindsOf(papers) = <<"table", "json">>
           /\ \A kinds \in {<<>>, <<"table">>, <<"json">>, <<"table", "json">>} :
                 LET all == [k \in 1 .. Len(kinds) |-> IF kinds[k] = "table" THEN T ELSE D] IN
                 /\ kinds = <<>> => all = <<>>
                 /\ kinds = <<"table">> => all = <<T>>
                 /\ kinds = <<"json">> => all = <<D>>
                 /\ kinds = <<"table", "json">> => all = <<T, D>>
<1>1. papers = <<>> => KindsOf(papers) = <<>>
  BY DEF KindsOf
<1>2. papers = <<T>> => KindsOf(papers) = <<"table">>
  BY DEF KindsOf
<1>3. papers = <<D>> => KindsOf(papers) = <<"json">>
  BY DEF KindsOf
<1>4. papers = <<T, D>> => KindsOf(papers) = <<"table", "json">>
  BY DEF KindsOf
<1>5. [k \in 1 .. Len(<<>>) |-> IF <<>>[k] = "table" THEN T ELSE D] = <<>>
  OBVIOUS
<1>6. [k \in 1 .. Len(<<"table">>) |-> IF <<"table">>[k] = "table" THEN T ELSE D] = <<T>>
  OBVIOUS
<1>7. [k \in 1 .. Len(<<"json">>) |-> IF <<"json">>[k] = "table" THEN T ELSE D] = <<D>>
  OBVIOUS
<1>8. [k \in 1 .. Len(<<"table", "json">>) |->
          IF <<"table", "json">>[k] = "table" THEN T ELSE D] = <<T, D>>
  OBVIOUS
<1> QED
  BY <1>1, <1>2, <1>3, <1>4, <1>5, <1>6, <1>7, <1>8

\* The two ways to say what was written.
Told(papers, T, D) ==
    /\ papers = [k \in 1 .. Len(KindsOf(papers)) |-> IF KindsOf(papers)[k] = "table" THEN T ELSE D]
    /\ KindsOf(papers) \in {<<>>, <<"table">>, <<"json">>, <<"table", "json">>}

Listed(papers, T, D) ==
    \/ papers = <<>> /\ KindsOf(papers) = <<>>
    \/ papers = <<T>> /\ KindsOf(papers) = <<"table">>
    \/ papers = <<D>> /\ KindsOf(papers) = <<"json">>
    \/ papers = <<T, D>> /\ KindsOf(papers) = <<"table", "json">>

LEMMA ToldIsListed ==
    ASSUME NEW T, T.kind = "table", NEW D, D.kind = "json", NEW papers
    PROVE  /\ Told(papers, T, D) <=> Listed(papers, T, D)
           /\ papers \in {<<>>, <<T>>, <<D>>, <<T, D>>} => Listed(papers, T, D)
<1> DEFINE all(kinds) == [k \in 1 .. Len(kinds) |-> IF kinds[k] = "table" THEN T ELSE D]
<1>1. /\ all(<<>>) = <<>> /\ all(<<"table">>) = <<T>> /\ all(<<"json">>) = <<D>>
      /\ all(<<"table", "json">>) = <<T, D>>
  BY PapersByKind
<1>2. Told(papers, T, D) <=> /\ papers = all(KindsOf(papers))
                             /\ KindsOf(papers) \in {<<>>, <<"table">>, <<"json">>, <<"table", "json">>}
  BY DEF Told
<1> HIDE DEF all
<1> QED
  BY <1>1, <1>2, PapersByKind DEF Listed

LEMMA PapersAre ==
    /\ Table.kind = "table" /\ Document.kind = "json" /\ Kinds = KindsOf(stdout)
    /\ (/\ stdout = [k \in 1 .. Len(Kinds) |-> Paper(Kinds[k])]
        /\ Kinds \in {<<>>, <<"table">>, <<"json">>, <<"table", "json">>})
       <=> Told(stdout, Table, Document)
BY DEF Table, Document, Kinds, KindsOf, Paper, Told

LEMMA AppendSecond ==
    ASSUME NEW T, NEW D
    PROVE  Append(<<>>, D) = <<D>> /\ Append(<<T>>, D) = <<T, D>>
<1>1. PICK S : S = {T, D}
  OBVIOUS
<1>2. PICK one : one = <<T>>
  OBVIOUS
<1>3. T \in S /\ D \in S /\ one \in Seq(S) /\ Len(one) = 1 /\ one[1] = T
  BY <1>1, <1>2
<1>4. PICK two : two = Append(one, D)
  OBVIOUS
<1>5. two \in Seq(S) /\ Len(two) = 2 /\ two[1] = T /\ two[2] = D
  BY <1>3, <1>4, AppendProperties
<1>6. PICK pair : pair = <<T, D>>
  OBVIOUS
<1>7. pair \in Seq(S) /\ Len(pair) = 2 /\ pair[1] = T /\ pair[2] = D
  BY <1>3, <1>6
<1>8. two = pair
  <2>1. \A i \in 1 .. 2 : i = 1 \/ i = 2
    OBVIOUS
  <2> QED
    BY <1>5, <1>7, <2>1, SeqEqual
<1>9. Append(<<>>, D) = <<D>>
  OBVIOUS
<1> QED
  BY <1>2, <1>4, <1>6, <1>8, <1>9

LEMMA PapersStep == ASSUME IInv, [Next]_vars PROVE Papers'
<1>1. /\ flags' = flags /\ machine' = machine
      /\ Types /\ Progress /\ Heating /\ Scores /\ Papers
  BY InputStays DEF IInv
<1>2. PICK T, D : T = Table /\ D = Document
  OBVIOUS
<1>3. T.kind = "table" /\ D.kind = "json" /\ Kinds = KindsOf(stdout) /\ Listed(stdout, T, D)
  BY <1>1, <1>2, PapersAre, ToldIsListed DEF Papers
<1>4. PICK T2, D2 : /\ T2 = Table' /\ D2 = Document'
                    /\ T2.kind = "table" /\ D2.kind = "json" /\ Kinds' = KindsOf(stdout')
  <2>1. Table'.kind = "table" /\ Document'.kind = "json" /\ Kinds' = KindsOf(stdout')
    BY DEF Table, Document, Kinds, KindsOf
  <2> QED
    BY <2>1
<1>4a. Told(stdout', T2, D2) <=>
          /\ (stdout = [k \in 1 .. Len(Kinds) |-> Paper(Kinds[k])])'
          /\ Kinds' \in {<<>>, <<"table">>, <<"json">>, <<"table", "json">>}
  BY <1>4 DEF Told, Paper
<1>4b. /\ stdout' = <<T2>> => Kinds' = <<"table">>
       /\ stdout' = <<D2>> => Kinds' = <<"json">>
       /\ stdout' = <<T2, D2>> => Kinds' = <<"table", "json">>
  <2>1. stdout' = <<T2>> => Kinds' = <<"table">>
    BY <1>4 DEF KindsOf
  <2>2. stdout' = <<D2>> => Kinds' = <<"json">>
    BY <1>4 DEF KindsOf
  <2>3. stdout' = <<T2, D2>> => Kinds' = <<"table", "json">>
    BY <1>4 DEF KindsOf
  <2> QED
    BY <2>1, <2>2, <2>3
<1>3a. /\ Kinds = <<>> => stdout = <<>>
       /\ Kinds = <<"table">> => stdout = <<T>>
  <2>1. /\ Kinds = <<>> => Kinds # <<"table">> /\ Kinds # <<"json">> /\ Kinds # <<"table", "json">>
        /\ Kinds = <<"table">> => Kinds # <<"json">> /\ Kinds # <<"table", "json">>
    OBVIOUS
  <2> QED
    BY <1>3, <2>1 DEF Listed
<1> DEFINE Stages ==
             /\ pc' = "table" => Kinds' = <<>> /\ flags'.output \in {"table", "both"}
             /\ pc' = "json" => \/ flags'.output \in {"json", "both"} /\ Kinds' = <<>>
                                \/ flags'.output = "both" /\ Kinds' = <<"table">>
             /\ Kinds' \in {<<"json">>, <<"table", "json">>} => pc' = "exit" /\ status' = 0
             /\ pc' = "exit" /\ status' = 0 /\ ~flags'.stress =>
                   \/ flags'.output = "table" /\ Kinds' \in {<<>>, <<"table">>}
                   \/ flags'.output = "json"  /\ Kinds' = <<"json">>
                   \/ flags'.output = "both"  /\ Kinds' \in {<<"json">>, <<"table", "json">>}
<1>5. ASSUME stdout' \in {<<>>, <<T2>>, <<D2>>, <<T2, D2>>}, Stages
      PROVE  Papers'
  <2>1. Told(stdout', T2, D2)
    BY <1>4, <1>5, ToldIsListed
  <2>2. /\ (stdout = [k \in 1 .. Len(Kinds) |-> Paper(Kinds[k])])'
        /\ Kinds' \in {<<>>, <<"table">>, <<"json">>, <<"table", "json">>}
    BY <1>4a, <2>1
  <2> QED
    BY <1>5, <2>2 DEF Papers, Succeeded
<1>6. st' = st /\ mt' = mt /\ score' = score => T2 = T /\ D2 = D
  BY <1>1, <1>2, <1>4 DEF Table, Document
<1>7. stdout = <<>> => Kinds = <<>>
  BY <1>3, PapersByKind
<1>8. stdout' = <<>> => Kinds' = <<>>
  BY <1>4 DEF KindsOf
<1>9. CASE UNCHANGED vars
  <2>1. /\ pc' = pc /\ st' = st /\ mt' = mt /\ score' = score /\ stdout' = stdout /\ status' = status
        /\ Kinds' = Kinds
    BY <1>9 DEF vars, results, Kinds
  <2>2. stdout' \in {<<>>, <<T2>>, <<D2>>, <<T2, D2>>}
    BY <1>3, <1>6, <2>1 DEF Listed
  <2>3. Stages
    BY <1>1, <2>1 DEF Papers, Succeeded
  <2> QED
    BY <1>5, <2>2, <2>3
<1>10. CASE Reject \/ Accept \/ StartStress
  <2>1. /\ stdout' = stdout /\ pc = "flags" /\ pc' \in {"exit", "st", "stress"}
        /\ pc' = "exit" => status' = 1
    BY <1>10 DEF Reject, Accept, StartStress
  <2>2. stdout' = <<>>
    BY <1>1, <2>1 DEF Heating, Nothing
  <2>3. Stages
    BY <1>8, <2>1, <2>2
  <2> QED
    BY <1>5, <2>2, <2>3
<1>11. CASE StressEnds
  <2>1. stdout' = stdout /\ flags.stress /\ pc' = "exit"
    BY <1>1, <1>11 DEF StressEnds, Heating
  <2>2. stdout' = <<>>
    BY <1>1, <2>1 DEF Heating, Nothing
  <2>3. Stages
    BY <1>1, <1>8, <2>1, <2>2
  <2> QED
    BY <1>5, <2>2, <2>3
<1>12. CASE MeasureST \/ MeasureMT \/ ComputeScore
  <2>1. /\ stdout' = stdout /\ pc \in {"st", "mt"} /\ pc' \in {"st", "mt", "table", "json", "exit"}
    BY <1>12 DEF MeasureST, MeasureMT, ComputeScore, AfterScore
  <2>2. stdout' = <<>>
    BY <1>1, <2>1 DEF Scores
  <2>3. /\ ~flags.stress /\ ValidMeasuring
    BY <1>1, <2>1 DEF Progress
  <2>4. /\ flags.output \in {"table", "json", "both"}
        /\ pc' = "table" => flags.output # "json"
        /\ pc' = "json" => flags.output = "json"
        /\ pc' # "exit"
    BY <1>12, <2>3 DEF MeasureST, MeasureMT, ComputeScore, AfterScore, ValidMeasuring, ProfileChecked
  <2>5. Stages
    BY <1>1, <1>8, <2>1, <2>2, <2>4
  <2> QED
    BY <1>5, <2>2, <2>5
<1>13. CASE RenderTable
  <2>1. /\ pc = "table" /\ st' = st /\ mt' = mt /\ score' = score /\ status' = status
        /\ pc' = IF flags.output = "both" THEN "json" ELSE "exit"
        /\ stdout' \in {stdout, Append(stdout, T)}
    BY <1>2, <1>13 DEF RenderTable, Written, Table, results
  <2>2. stdout = <<>> /\ flags.output \in {"table", "both"} /\ status = 0
    BY <1>1, <1>3, <2>1 DEF Papers, Progress, Listed
  <2>3. Append(<<>>, T) = <<T>>
    OBVIOUS
  <2>4. stdout' \in {<<>>, <<T2>>}
    BY <1>6, <2>1, <2>2, <2>3
  <2>5. stdout' = <<T2>> => Kinds' = <<"table">>
    BY <1>4b
  <2>6. Stages
    BY <1>1, <1>8, <2>1, <2>2, <2>4, <2>5
  <2> QED
    BY <1>5, <2>4, <2>6
<1>14. CASE EmitJSON
  <2>1. /\ pc = "json" /\ st' = st /\ mt' = mt /\ score' = score /\ pc' = "exit"
        /\ \/ stdout' = Append(stdout, D) /\ status' = status
           \/ stdout' = stdout /\ status' = 1
    BY <1>2, <1>14 DEF EmitJSON, Written, Document, results
  <2>2. /\ \/ flags.output \in {"json", "both"} /\ stdout = <<>>
           \/ flags.output = "both" /\ stdout = <<T>>
        /\ status = 0 /\ ~flags.stress
    BY <1>1, <1>3a, <2>1 DEF Papers, Progress
  <2>3. Append(<<>>, D) = <<D>> /\ Append(<<T>>, D) = <<T, D>>
    BY AppendSecond
  <2>4. CASE stdout' = Append(stdout, D) /\ status' = status
    <3>1. \/ stdout' = <<D2>> /\ flags.output \in {"json", "both"}
          \/ stdout' = <<T2, D2>> /\ flags.output = "both"
      BY <1>6, <2>1, <2>2, <2>3, <2>4
    <3>2. /\ stdout' = <<D2>> => Kinds' = <<"json">>
          /\ stdout' = <<T2, D2>> => Kinds' = <<"table", "json">>
      BY <1>4b
    <3>3. Stages
      BY <1>1, <2>1, <2>2, <2>4, <3>1, <3>2
    <3> QED
      BY <1>5, <3>1, <3>3
  <2>5. CASE stdout' = stdout /\ status' = 1
    <3>1. stdout' \in {<<>>, <<T2>>}
      BY <1>6, <2>1, <2>2, <2>5
    <3>2. stdout' = <<T2>> => Kinds' = <<"table">>
      BY <1>4b
    <3>3. Stages
      BY <1>8, <2>1, <2>5, <3>1, <3>2
    <3> QED
      BY <1>5, <3>1, <3>3
  <2> QED
    BY <2>1, <2>4, <2>5
<1>15. CASE Interrupt
  <2>1. /\ pc \notin {"stress", "exit"} /\ pc' = "exit" /\ status' = 2
        /\ st' = st /\ mt' = mt /\ score' = score /\ stdout' = stdout /\ Kinds' = Kinds
    BY <1>15 DEF Interrupt, results, Kinds
  <2>2. Kinds \notin {<<"json">>, <<"table", "json">>}
    BY <1>1, <2>1 DEF Papers
  <2>3. stdout' \in {<<>>, <<T2>>, <<D2>>, <<T2, D2>>}
    BY <1>3, <1>6, <2>1 DEF Listed
  <2>4. Stages
    BY <2>1, <2>2
  <2> QED
    BY <1>5, <2>3, <2>4
<1> QED
  BY <1>9, <1>10, <1>11, <1>12, <1>13, <1>14, <1>15 DEF Next, Terminated

LEMMA CliInvariance == Spec => []IInv
<1>1. IInv /\ [Next]_vars => IInv'
  BY TypesStep, ProgressStep, HeatingStep, ScoresStep, PapersStep DEF IInv
<1> QED
  BY <1>1, CliInit, PTL DEF Spec
-----------------------------------------------------------------------------
(* What follows from it.                                                   *)

\* The flags have told everything before the first measurement: after it, the
\* process fails for nothing but the write of its document.
THEOREM CliFailsEarly == Spec => FailsEarly
<1>1. ASSUME IInv, [Next]_vars, st # <<>>, status' = 1
      PROVE  pc = "json" \/ status = 1
  <2>1. Types /\ Progress /\ Heating
    BY <1>1 DEF IInv
  <2>2. CASE UNCHANGED vars
    BY <1>1, <2>2 DEF vars
  <2>3. ~Reject
    BY <1>1, <2>1 DEF Reject, Heating, Nothing
  <2>4. CASE ComputeScore
    <3>1. status = 0 /\ flags.profile \in Profiles
      BY <2>1, <2>4 DEF ComputeScore, Progress, ValidMeasuring, ProfileChecked
    <3> QED
      BY <1>1, <2>4, <3>1 DEF ComputeScore
  <2>5. CASE EmitJSON
    BY <2>5 DEF EmitJSON
  <2>6. CASE \/ Accept \/ StartStress \/ StressEnds \/ MeasureST \/ MeasureMT
             \/ RenderTable \/ Interrupt \/ Terminated
    BY <1>1, <2>6 DEF Accept, StartStress, StressEnds, MeasureST, MeasureMT, RenderTable,
                      Interrupt, Terminated, vars
  <2> QED
    BY <1>1, <2>2, <2>3, <2>4, <2>5, <2>6 DEF Next
<1>2. IInv /\ [Next]_vars => [st # <<>> /\ status' = 1 => pc = "json" \/ status = 1]_vars
  BY <1>1
<1> QED
  BY <1>2, CliInvariance, PTL DEF Spec, FailsEarly

\* The stress run that starts is the one the flags ask for, on any number of
\* processors and with any width of an int, and it leaves the rest alone.
THEOREM CliStressAsAsked == Spec => []StressAsAsked
<1>1. IInv => StressAsAsked
  <2> SUFFICES ASSUME IInv, load # <<>> PROVE StressAsAsked
    BY DEF StressAsAsked
  <2>1. /\ flags.stress /\ ValidStress /\ load = Asked /\ status = 0
        /\ st = <<>> /\ mt = <<>> /\ stdout = <<>>
    BY DEF IInv, Heating, Nothing
  <2>2. /\ flags.stressDuration \in Int /\ flags.stressCPU \in Int
        /\ flags.stressMem \in Int /\ flags.stressMemMiB \in Int
    BY FlagsType DEF IInv, Types
  <2>3. /\ load.duration = flags.stressDuration
        /\ load.cpu = IF flags.stressCPU <= 0 THEN NumCPU ELSE flags.stressCPU
        /\ load.mib = IF Shifted(flags.stressMemMiB) <= 0 THEN DefaultMiB
                                                          ELSE Shifted(flags.stressMemMiB)
    BY <2>1 DEF Asked, Resolve
  <2>4. load.mem = CASE DisableMem -> 0
                     [] ~DisableMem /\ flags.stressMem <= 0 -> DefaultMemWorkers
                     [] OTHER -> flags.stressMem
    <3>1. DisableMem \in BOOLEAN
      BY DEF DisableMem
    <3> QED
      BY <2>1, <3>1 DEF Asked, Resolve
  <2>5. ASSUME flags.stressMem >= -1
        PROVE  load.mem = CASE flags.stressMem = -1 -> 0
                            [] flags.stressMem = 0  -> Max({1, NumCPU \div 2})
                            [] flags.stressMem > 0  -> flags.stressMem
    <3>1. Max({1, NumCPU \div 2}) = DefaultMemWorkers
      <4> DEFINE half == NumCPU \div 2
                 m == DefaultMemWorkers
      <4>1. half \in Nat
        BY StressConfigAssumption
      <4>2. m = IF half < 1 THEN 1 ELSE half
        BY DEF DefaultMemWorkers
      <4> HIDE DEF half, m
      <4>3. m \in {1, half} /\ \A x \in {1, half} : m >= x /\ (x >= m => x = m)
        BY <4>1, <4>2
      <4>4. Max({1, half}) = m
        BY <4>3 DEF Max
      <4> QED
        BY <4>4 DEF half, m
    <3>2. CASE flags.stressMem = -1
      BY <2>4, <3>2 DEF DisableMem
    <3>3. CASE flags.stressMem = 0
      BY <2>4, <3>1, <3>3 DEF DisableMem
    <3>4. CASE flags.stressMem > 0
      BY <2>2, <2>4, <3>4 DEF DisableMem
    <3> QED
      BY <2>2, <2>5, <3>2, <3>3, <3>4
  <2>6. ASSUME flags.stressMemMiB < IntMiB \div 2
        PROVE  load.mib = flags.stressMemMiB
    <3>1. PICK m : m = flags.stressMemMiB
      OBVIOUS
    <3>2. m \in Nat \ {0} /\ m < IntMiB \div 2 /\ IntMiB \in Nat \ {0}
      BY <2>1, <2>2, <2>6, <3>1, CliAssumption DEF ValidStress
    <3>3. m < IntMiB
      BY <3>2
    <3>4. m % IntMiB = m
      BY <3>2, <3>3
    <3>5. Shifted(m) = m
      BY <3>2, <3>4 DEF Shifted
    <3> QED
      BY <2>3, <3>1, <3>2, <3>5
  <2> QED
    BY <2>1, <2>2, <2>3, <2>5, <2>6 DEF StressAsAsked
<1> QED
  BY <1>1, CliInvariance, PTL

LEMMA NamesMeasured ==
    ASSUME NEW sel \in Seq(Names), NEW m \in Machines, NEW mode \in Modes, NEW rs,
           Beginning(rs, mode, sel, m)
    PROVE  /\ DOMAIN rs = 1 .. Len(rs) /\ Len(rs) \in Nat
           /\ \A k \in 1 .. Len(rs) : /\ k \in 1 .. Len(sel) /\ rs[k].name = sel[k]
                                      /\ rs[k] \in Outcome
<1>1. /\ rs \in Seq(Outcome) /\ Len(rs) <= Len(sel)
      /\ \A k \in 1 .. Len(rs) : rs[k] = Measured(m, sel[k], mode)
  BY DEF Beginning
<1>2. DOMAIN rs = 1 .. Len(rs) /\ Len(rs) \in Nat /\ Len(sel) \in Nat
  BY <1>1
<1>3. ASSUME NEW k \in 1 .. Len(rs)
      PROVE  k \in 1 .. Len(sel) /\ rs[k].name = sel[k] /\ rs[k] \in Outcome
  <2>1. k \in 1 .. Len(sel)
    BY <1>1, <1>2
  <2>2. sel[k] \in Names
    BY <2>1
  <2> QED
    BY <1>1, <2>1, <2>2, MeasuredType
<1> QED
  BY <1>2, <1>3

\* A run that succeeds has measured each benchmark selected once in each mode,
\* in the order of the registry.
THEOREM CliMeasuredOnce == Spec => []MeasuredOnce
<1>1. IInv => MeasuredOnce
  <2> SUFFICES ASSUME IInv, Succeeded PROVE MeasuredOnce
    BY DEF MeasuredOnce
  <2> DEFINE tokens == flags.benchmarks
  <2>1. /\ Complete /\ machine \in Machines /\ "st" \in Modes /\ "mt" \in Modes
        /\ Beginning(st, "st", Sel, machine) /\ Beginning(mt, "mt", Sel, machine)
    BY DEF IInv, Types, Progress, Modes
  <2>2. /\ Sel \in Seq(Names) /\ InOrder(Sel)
        /\ {Sel[k] : k \in 1 .. Len(Sel)}
              = IF Everything(tokens) THEN Names ELSE Names \cap Wanted(tokens)
    BY SelectedIs DEF Sel
  <2>3. Everything(tokens) \/ Wanted(tokens) \subseteq Names
    BY <2>1 DEF Complete, ValidMeasuring, Resolvable
  <2>4. /\ DOMAIN st = 1 .. Len(st) /\ DOMAIN mt = 1 .. Len(mt)
        /\ Len(st) = Len(Sel) /\ Len(mt) = InMT
        /\ \A k \in 1 .. Len(st) : st[k].name = Sel[k]
        /\ \A k \in 1 .. Len(mt) : mt[k].name = Sel[k]
    <3>1. DOMAIN st = 1 .. Len(st) /\ \A k \in 1 .. Len(st) : st[k].name = Sel[k]
      BY <2>1, <2>2, NamesMeasured
    <3>2. DOMAIN mt = 1 .. Len(mt) /\ \A k \in 1 .. Len(mt) : mt[k].name = Sel[k]
      BY <2>1, <2>2, NamesMeasured
    <3> QED
      BY <2>1, <3>1, <3>2 DEF Complete
  <2>5. ASSUME NEW j \in DOMAIN st, NEW k \in DOMAIN st, j < k
        PROVE  \E p, q \in DOMAIN Registry :
                  p < q /\ Registry[p] = st[j].name /\ Registry[q] = st[k].name
    <3>1. PICK at \in [1 .. Len(Sel) -> 1 .. 8] :
             /\ \A i \in 1 .. Len(Sel) : Sel[i] = Registry[at[i]]
             /\ \A i, l \in 1 .. Len(Sel) : i < l => at[i] < at[l]
      BY <2>2 DEF InOrder
    <3>2. j \in 1 .. Len(Sel) /\ k \in 1 .. Len(Sel)
      BY <2>4
    <3>3. at[j] \in DOMAIN Registry /\ at[k] \in DOMAIN Registry /\ at[j] < at[k]
      BY <2>5, <3>1, <3>2, RegistryIs
    <3> QED
      BY <2>4, <3>1, <3>2, <3>3
  <2>6. {st[k].name : k \in DOMAIN st} = IF Everything(tokens) THEN Names ELSE Wanted(tokens)
    BY <2>2, <2>3, <2>4
  <2>7. [k \in DOMAIN mt |-> mt[k].name]
           = IF flags.threads = 1 THEN <<>> ELSE [k \in DOMAIN st |-> st[k].name]
    <3>1. CASE flags.threads = 1
      <4>1. DOMAIN mt = {}
        BY <2>4, <3>1 DEF InMT, RunMT
      <4> QED
        BY <3>1, <4>1
    <3>2. CASE flags.threads # 1
      <4>1. DOMAIN mt = DOMAIN st /\ \A k \in DOMAIN st : mt[k].name = st[k].name
        BY <2>4, <3>2 DEF InMT, RunMT
      <4> QED
        BY <3>2, <4>1
    <3> QED
      BY <3>1, <3>2
  <2> QED
    BY <2>5, <2>6, <2>7 DEF MeasuredOnce
<1> QED
  BY <1>1, CliInvariance, PTL

\* In a list of outcomes that names no benchmark twice, every name leads to
\* its outcome.
LEMMA ByNameIs ==
    ASSUME NEW sel \in Seq(Names), InOrder(sel), NEW m \in Machines, NEW mode \in Modes, NEW rs,
           Beginning(rs, mode, sel, m), NEW k \in 1 .. Len(rs)
    PROVE  ByName(rs)[rs[k].name] = rs[k] /\ rs[k].name \in DOMAIN ByName(rs)
<1>1. /\ DOMAIN rs = 1 .. Len(rs) /\ k \in DOMAIN rs
      /\ \A i \in DOMAIN rs : i \in 1 .. Len(sel) /\ rs[i].name = sel[i]
  BY NamesMeasured
<1>2. PICK name : name = rs[k].name
  OBVIOUS
<1>3. {i \in DOMAIN rs : rs[i].name = name} = {k}
  <2>1. ASSUME NEW i \in DOMAIN rs, rs[i].name = name
        PROVE  i = k
    <3>1. i \in 1 .. Len(sel) /\ k \in 1 .. Len(sel) /\ sel[i] = sel[k]
      BY <1>1, <1>2, <2>1
    <3> QED
      BY <3>1, InOrderOnce
  <2> QED
    BY <1>1, <1>2, <2>1
<1>4. Max({k}) = k
  <2>1. k \in {k} /\ \A y \in {k} : k >= y
    BY <1>1
  <2> QED
    BY <2>1 DEF Max
<1>5. name \in {rs[i].name : i \in DOMAIN rs}
  BY <1>1, <1>2
<1>6. name \in DOMAIN ByName(rs) /\ ByName(rs)[name] = rs[Max({i \in DOMAIN rs : rs[i].name = name})]
  BY <1>5 DEF ByName
<1> QED
  BY <1>2, <1>3, <1>4, <1>6

EntriesOf(rs, mode) ==
    [key \in {Key(rs[k].name, mode) : k \in DOMAIN rs} |-> ByName(rs)[key[1]]]

\* The entries of one mode: as many as runs, and the runs themselves.
LEMMA EntriesAre ==
    ASSUME NEW sel \in Seq(Names), InOrder(sel), NEW m \in Machines, NEW mode \in Modes, NEW rs,
           Beginning(rs, mode, sel, m)
    PROVE  LET e == EntriesOf(rs, mode) IN
           /\ IsFiniteSet(DOMAIN e) /\ Cardinality(DOMAIN e) = Len(rs)
           /\ \A key \in DOMAIN e : key[2] = mode
           /\ {e[key] : key \in DOMAIN e} = {rs[k] : k \in DOMAIN rs}
<1> DEFINE e == EntriesOf(rs, mode)
           KeyAt == [k \in 1 .. Len(rs) |-> Key(rs[k].name, mode)]
<1>1. /\ DOMAIN rs = 1 .. Len(rs) /\ Len(rs) \in Nat
      /\ \A k \in 1 .. Len(rs) : k \in 1 .. Len(sel) /\ rs[k].name = sel[k]
  BY NamesMeasured
<1>2. \A k \in 1 .. Len(rs) : KeyAt[k][1] = rs[k].name /\ KeyAt[k][2] = mode
  BY DEF Key
<1>3. DOMAIN e = {KeyAt[k] : k \in 1 .. Len(rs)} /\ \A key \in DOMAIN e : e[key] = ByName(rs)[key[1]]
  BY <1>1 DEF EntriesOf
<1>4. KeyAt \in [1 .. Len(rs) -> DOMAIN e]
  BY <1>3
<1>5. DOMAIN KeyAt = 1 .. Len(rs)
  OBVIOUS
<1> HIDE DEF e, KeyAt
<1>6. ASSUME NEW i \in 1 .. Len(rs), NEW k \in 1 .. Len(rs), KeyAt[i] = KeyAt[k]
      PROVE  i = k
  <2>1. sel[i] = sel[k] /\ i \in 1 .. Len(sel) /\ k \in 1 .. Len(sel)
    BY <1>1, <1>2, <1>6
  <2> QED
    BY <2>1, InOrderOnce
<1>7. KeyAt \in Bijection(1 .. Len(rs), DOMAIN e)
  <2>1. KeyAt \in Injection(1 .. Len(rs), DOMAIN e)
    BY <1>4, <1>6 DEF Injection, IsInjective
  <2>2. KeyAt \in Surjection(1 .. Len(rs), DOMAIN e)
    BY <1>3, <1>4 DEF Surjection
  <2> QED
    BY <2>1, <2>2 DEF Bijection
<1>8. IsFiniteSet(1 .. Len(rs)) /\ Cardinality(1 .. Len(rs)) = Len(rs)
  <2>1. PICK n \in Nat : n = Len(rs)
    BY <1>1
  <2>2. IsFiniteSet(1 .. n) /\ Cardinality(1 .. n) = IF 1 > n THEN 0 ELSE n - 1 + 1
    BY ONLY n \in Nat, 1 \in Int, n \in Int, FS_Interval
  <2> QED
    BY <2>1, <2>2
<1>9. IsFiniteSet(DOMAIN e) /\ Cardinality(DOMAIN e) = Len(rs)
  BY <1>7, <1>8, FS_Bijection DEF ExistsBijection
<1>10. \A k \in 1 .. Len(rs) : e[KeyAt[k]] = rs[k]
  BY <1>2, <1>3, ByNameIs
<1>11. {e[key] : key \in DOMAIN e} = {rs[k] : k \in DOMAIN rs}
  <2>1. \A key \in DOMAIN e : \E k \in DOMAIN rs : e[key] = rs[k]
    BY <1>1, <1>3, <1>10
  <2>2. \A k \in DOMAIN rs : \E key \in DOMAIN e : e[key] = rs[k]
    BY <1>1, <1>4, <1>10
  <2> QED
    BY <2>1, <2>2
<1>12. \A key \in DOMAIN e : key[2] = mode
  BY <1>2, <1>3
<1> QED
  BY <1>9, <1>11, <1>12 DEF e

\* No run overwrites another one in the document.
LEMMA RawIs ==
    ASSUME Progress, machine \in Machines
    PROVE  RawHasEveryRun(Raw(st, mt))
<1>1. /\ Sel \in Seq(Names) /\ InOrder(Sel) /\ "st" \in Modes /\ "mt" \in Modes
      /\ Beginning(st, "st", Sel, machine) /\ Beginning(mt, "mt", Sel, machine)
  BY SelectedIs DEF Progress, Sel, Modes
<1>2. PICK e, f : e = EntriesOf(st, "st") /\ f = EntriesOf(mt, "mt")
  OBVIOUS
<1>3. /\ IsFiniteSet(DOMAIN e) /\ Cardinality(DOMAIN e) = Len(st)
      /\ \A key \in DOMAIN e : key[2] = "st"
      /\ {e[key] : key \in DOMAIN e} = {st[k] : k \in DOMAIN st}
  <2>1. LET all == EntriesOf(st, "st") IN
        /\ IsFiniteSet(DOMAIN all) /\ Cardinality(DOMAIN all) = Len(st)
        /\ \A key \in DOMAIN all : key[2] = "st"
        /\ {all[key] : key \in DOMAIN all} = {st[k] : k \in DOMAIN st}
    BY ONLY <1>1, machine \in Machines, EntriesAre
  <2> QED
    BY <1>2, <2>1
<1>4. /\ IsFiniteSet(DOMAIN f) /\ Cardinality(DOMAIN f) = Len(mt)
      /\ \A key \in DOMAIN f : key[2] = "mt"
      /\ {f[key] : key \in DOMAIN f} = {mt[k] : k \in DOMAIN mt}
  <2>1. LET all == EntriesOf(mt, "mt") IN
        /\ IsFiniteSet(DOMAIN all) /\ Cardinality(DOMAIN all) = Len(mt)
        /\ \A key \in DOMAIN all : key[2] = "mt"
        /\ {all[key] : key \in DOMAIN all} = {mt[k] : k \in DOMAIN mt}
    BY ONLY <1>1, machine \in Machines, EntriesAre
  <2> QED
    BY <1>2, <2>1
<1>5. PICK raw : raw = Raw(st, mt)
  OBVIOUS
<1>6. /\ DOMAIN raw = DOMAIN e \cup DOMAIN f
      /\ \A key \in DOMAIN raw : raw[key] = IF key \in DOMAIN f THEN f[key] ELSE e[key]
  BY <1>2, <1>5 DEF Raw, Stored, EntriesOf
<1>7. DOMAIN e \cap DOMAIN f = {}
  BY <1>3, <1>4
<1>8. Cardinality(DOMAIN raw) = Len(st) + Len(mt)
  <2>1. Cardinality({}) = 0
    BY FS_EmptySet
  <2>2. Len(st) \in Nat /\ Len(mt) \in Nat
    BY <1>1, NamesMeasured
  <2>3. Cardinality(DOMAIN e \cup DOMAIN f) = Len(st) + Len(mt) - 0
    BY <1>3, <1>4, <1>7, <2>1, FS_Union
  <2> QED
    BY <1>6, <2>2, <2>3
<1>9. \A key \in DOMAIN raw : raw[key] \in {st[k] : k \in DOMAIN st} \cup {mt[k] : k \in DOMAIN mt}
  BY <1>3, <1>4, <1>6
<1>10. \A r \in {e[key] : key \in DOMAIN e} : \E key \in DOMAIN raw : raw[key] = r
  BY <1>6, <1>7
<1>11. \A r \in {f[key] : key \in DOMAIN f} : \E key \in DOMAIN raw : raw[key] = r
  BY <1>6
<1>12. {raw[key] : key \in DOMAIN raw} = {st[r] : r \in DOMAIN st} \cup {mt[r] : r \in DOMAIN mt}
  <2> DEFINE all == {st[r] : r \in DOMAIN st} \cup {mt[r] : r \in DOMAIN mt}
  <2>1. \A key \in DOMAIN raw : raw[key] \in all
    BY <1>9
  <2>2. all = {e[key] : key \in DOMAIN e} \cup {f[key] : key \in DOMAIN f}
    BY <1>3, <1>4
  <2>3. \A r \in all : \E key \in DOMAIN raw : raw[key] = r
    <3> HIDE DEF all
    <3> QED
      BY <1>10, <1>11, <2>2
  <2> HIDE DEF all
  <2>4. {raw[key] : key \in DOMAIN raw} = all
    BY <2>1, <2>3
  <2> QED
    BY <2>4 DEF all
<1> QED
  BY <1>5, <1>8, <1>12 DEF RawHasEveryRun

\* The exit status tells whether the document was written, and it has every
\* run under a key of its own.
THEOREM CliAllOrNothing == Spec => []AllOrNothing
<1>1. IInv => AllOrNothing
  <2> SUFFICES ASSUME IInv PROVE AllOrNothing
    OBVIOUS
  <2>1. Papers /\ Progress /\ machine \in Machines
    BY DEF IInv, Types
  <2>2. ASSUME Succeeded
        PROVE  Kinds \in CASE flags.output = "table" -> {<<>>, <<"table">>}
                           [] flags.output = "json"  -> {<<"json">>}
                           [] flags.output = "both"  -> {<<"json">>, <<"table", "json">>}
    <3>1. \/ flags.output = "table" /\ Kinds \in {<<>>, <<"table">>}
          \/ flags.output = "json"  /\ Kinds = <<"json">>
          \/ flags.output = "both"  /\ Kinds \in {<<"json">>, <<"table", "json">>}
      BY <2>1, <2>2 DEF Papers
    <3>2. CASE flags.output = "table"
      BY <3>1, <3>2
    <3>3. CASE flags.output = "json"
      BY <3>1, <3>3
    <3>4. CASE flags.output = "both"
      BY <3>1, <3>4
    <3> QED
      BY <3>1, <3>2, <3>3, <3>4
  <2>3. ASSUME NEW k \in DOMAIN stdout, Kinds[k] = "json"
        PROVE  status # 1 /\ RawHasEveryRun(stdout[k].content)
    <3>1. stdout = [i \in 1 .. Len(Kinds) |-> Paper(Kinds[i])]
      BY <2>1 DEF Papers
    <3>2. stdout[k] = Document
      BY <2>3, <3>1 DEF Paper
    <3>3. stdout[k].content = Raw(st, mt)
      BY <3>2 DEF Document
    <3>4. Kinds \in {<<"json">>, <<"table", "json">>}
      <4>1. DOMAIN Kinds = DOMAIN stdout
        BY DEF Kinds
      <4>2. Kinds # <<>>
        BY <2>3, <4>1
      <4>3. Kinds # <<"table">>
        <5>1. ASSUME Kinds = <<"table">>
              PROVE  FALSE
          <6>1. k = 1 /\ Kinds[1] = "table"
            BY <2>3, <4>1, <5>1
          <6> QED
            BY <2>3, <6>1
        <5> QED
          BY <5>1
      <4> QED
        BY <2>1, <4>2, <4>3 DEF Papers
    <3>5. status = 0
      BY <2>1, <3>4 DEF Papers
    <3> QED
      BY <2>1, <3>3, <3>5, RawIs
  <2> QED
    BY <2>2, <2>3 DEF AllOrNothing
<1> QED
  BY <1>1, CliInvariance, PTL
-----------------------------------------------------------------------------
(* Scores.                                                                 *)

LEMMA CategoriesFinite == IsFiniteSet(Names) /\ IsFiniteSet(Category)
<1>1. IsFiniteSet({}) /\ \A S, x : IsFiniteSet(S) => IsFiniteSet(S \cup {x})
  BY FS_EmptySet, FS_AddElement
<1>2. IsFiniteSet({} \cup {"integer"} \cup {"memory"} \cup {"throughput"} \cup {"latency"})
  BY <1>1
<1>3. Category = {} \cup {"integer"} \cup {"memory"} \cup {"throughput"} \cup {"latency"}
  BY DEF Category
<1>4. IsFiniteSet({} \cup {"primes"} \cup {"sorting"} \cup {"matrix_int"} \cup {"matrix_float"}
                     \cup {"hashing"} \cup {"json"} \cup {"php_like"} \cup {"apache_like"})
  BY <1>1
<1>5. Names = {} \cup {"primes"} \cup {"sorting"} \cup {"matrix_int"} \cup {"matrix_float"}
                 \cup {"hashing"} \cup {"json"} \cup {"php_like"} \cup {"apache_like"}
  BY DEF Names
<1> QED
  BY <1>2, <1>3, <1>4, <1>5

\* A sum over the four categories, which are summed up one after the other.
LEMMA SumOfCategories ==
    ASSUME NEW h \in [Category -> Int]
    PROVE  SumFunction(h) = h["integer"] + (h["memory"] + (h["throughput"] + h["latency"]))
<1>1. Summable(h) /\ DOMAIN h = Category
  BY CategoriesFinite DEF Summable
<1>2. \A c \in Category : \A T \in SUBSET Category :
         c \in T => Sums(h)[T] = h[c] + Sums(h)[T \ {c}]
  BY <1>1, SumsAnyOrder
<1>3. Sums(h)[Category] = h["integer"] + Sums(h)[{"memory", "throughput", "latency"}]
  <2>1. Category \ {"integer"} = {"memory", "throughput", "latency"}
    BY DEF Category
  <2>2. "integer" \in Category
    BY DEF Category
  <2> QED
    BY <1>2, <2>1, <2>2
<1>4. Sums(h)[{"memory", "throughput", "latency"}] = h["memory"] + Sums(h)[{"throughput", "latency"}]
  <2>1. {"memory", "throughput", "latency"} \ {"memory"} = {"throughput", "latency"}
    OBVIOUS
  <2>2. "memory" \in Category /\ {"memory", "throughput", "latency"} \in SUBSET Category
    BY DEF Category
  <2> QED
    BY <1>2, <2>1, <2>2
<1>5. Sums(h)[{"throughput", "latency"}] = h["throughput"] + Sums(h)[{"latency"}]
  <2>1. {"throughput", "latency"} \ {"throughput"} = {"latency"}
    OBVIOUS
  <2>2. "throughput" \in Category /\ {"throughput", "latency"} \in SUBSET Category
    BY DEF Category
  <2> QED
    BY <1>2, <2>1, <2>2
<1>6. Sums(h)[{"latency"}] = h["latency"] + Sums(h)[{}]
  <2>1. {"latency"} \ {"latency"} = {}
    OBVIOUS
  <2>2. "latency" \in Category /\ {"latency"} \in SUBSET Category
    BY DEF Category
  <2> QED
    BY <1>2, <2>1, <2>2
<1>7. Sums(h)[{}] = 0
  BY <1>1, SumsOf
<1>8. h["latency"] \in Int
  BY DEF Category
<1>9. SumFunction(h) = Sums(h)[Category]
  BY <1>1, SumIsPartial
<1> QED
  BY <1>3, <1>4, <1>5, <1>6, <1>7, <1>8, <1>9

LEMMA MeanType ==
    ASSUME NEW f, Summable(f), f \in [DOMAIN f -> Nat]
    PROVE  Mean(f) \in Nat
<1>1. IsFiniteSet(DOMAIN f) /\ SumFunction(f) \in Nat
  BY SumOfNaturals DEF Summable
<1>2. Cardinality(DOMAIN f) \in Nat /\ (DOMAIN f # {} => Cardinality(DOMAIN f) # 0)
  BY <1>1, FS_CardinalityType, FS_EmptySet
<1>3. PICK s, n : s = SumFunction(f) /\ n = Cardinality(DOMAIN f)
  OBVIOUS
<1>4. s \in Nat /\ (DOMAIN f # {} => n \in Nat \ {0})
  BY <1>1, <1>2, <1>3
<1>5. DOMAIN f # {} => s \div n \in Nat
  BY <1>4
<1> QED
  BY <1>3, <1>5 DEF Mean

LEMMA MeanOfEqual ==
    ASSUME NEW f, Summable(f), DOMAIN f # {}, NEW v \in Nat, \A x \in DOMAIN f : f[x] = v
    PROVE  Mean(f) = v
<1>1. IsFiniteSet(DOMAIN f) /\ SumFunction(f) = Cardinality(DOMAIN f) * v
  BY SumOfEqual DEF Summable
<1>2. PICK n : n = Cardinality(DOMAIN f)
  OBVIOUS
<1>3. n \in Nat \ {0}
  BY <1>1, <1>2, FS_CardinalityType, FS_EmptySet
<1>4. (n * v) \div n = v
  BY <1>3
<1> QED
  BY <1>1, <1>2, <1>4 DEF Mean

\* The mean over the benchmarks of a list that were run.
Ran(rs, names) == names \cap DOMAIN ByName(rs)

OpsMean(rs, mode, names) ==
    Mean([b \in Ran(rs, names) |-> Normalize(ByName(rs)[b].ops, Reference[b][mode].ops)])

LatencyMean(rs, mode) ==
    Mean([b \in Ran(rs, Names) |-> NormalizeLatency(ByName(rs)[b].p99, Reference[b][mode].p99)])

LEMMA ComputedMode ==
    ASSUME NEW rs, NEW mode, NEW w, NEW all, all = ComputeMode(rs, mode, w)
    PROVE  /\ all.scores = [c \in Category |-> IF c = "latency" THEN LatencyMean(rs, mode)
                                                                ELSE OpsMean(rs, mode, Collected(c))]
           /\ all.total = SumFunction([c \in Category |-> all.scores[c] * w[c]])
           /\ all.label = Label(all.total)
BY DEF ComputeMode, LatencyMean, OpsMean, Ran

LEMMA CollectedAre ==
    /\ Collected("integer") \in SUBSET Names /\ "primes" \in Collected("integer")
    /\ Collected("memory") \in SUBSET Names /\ "hashing" \in Collected("memory")
    /\ Collected("throughput") \in SUBSET Names /\ "json" \in Collected("throughput")
BY DEF Collected, Names

LEMMA WeightsAre ==
    ASSUME NEW profile \in Profiles
    PROVE  LET w == WeightsFor(profile) IN
           /\ w["integer"] \in Nat /\ w["memory"] \in Nat /\ w["throughput"] \in Nat
           /\ w["latency"] \in Nat
           /\ w["integer"] + (w["memory"] + (w["throughput"] + w["latency"])) = 100
<1>1. CASE profile \in {"default", ""}
  <2>1. WeightsFor(profile) = [integer |-> 30, memory |-> 30, throughput |-> 25, latency |-> 15]
    BY <1>1 DEF WeightsFor
  <2> QED
    BY <2>1
<1>2. CASE profile = "database"
  BY <1>2 DEF WeightsFor
<1>3. CASE profile = "batch"
  BY <1>3 DEF WeightsFor
<1>4. profile \in {"default", ""} \/ profile = "database" \/ profile = "batch"
  BY DEF Profiles
<1> QED
  BY <1>1, <1>2, <1>3, <1>4

LEMMA ByNameDomain ==
    ASSUME NEW sel \in Seq(Names), InOrder(sel), NEW m \in Machines, NEW mode \in Modes, NEW rs,
           Beginning(rs, mode, sel, m)
    PROVE  DOMAIN ByName(rs) = {sel[k] : k \in 1 .. Len(rs)}
<1>1. /\ DOMAIN rs = 1 .. Len(rs)
      /\ \A k \in DOMAIN rs : k \in 1 .. Len(sel) /\ rs[k].name = sel[k] /\ rs[k] \in Outcome
  BY NamesMeasured
<1>2. DOMAIN ByName(rs) = {rs[k].name : k \in DOMAIN rs}
  BY DEF ByName
<1> QED
  BY <1>1, <1>2

LEMMA ByNameType ==
    ASSUME NEW sel \in Seq(Names), InOrder(sel), NEW m \in Machines, NEW mode \in Modes, NEW rs,
           Beginning(rs, mode, sel, m), NEW b \in DOMAIN ByName(rs)
    PROVE  /\ b \in Names /\ ByName(rs)[b] \in Outcome
           /\ \E k \in DOMAIN rs : rs[k].name = b /\ ByName(rs)[b] = rs[k]
<1>1. /\ DOMAIN rs = 1 .. Len(rs)
      /\ \A k \in DOMAIN rs : k \in 1 .. Len(sel) /\ rs[k].name = sel[k] /\ rs[k] \in Outcome
  BY NamesMeasured
<1>2. DOMAIN ByName(rs) = {rs[k].name : k \in DOMAIN rs}
  BY DEF ByName
<1>3. PICK k \in DOMAIN rs : b = rs[k].name
  BY <1>2
<1>4. ByName(rs)[b] = rs[k]
  BY <1>1, <1>3, ByNameIs
<1>5. rs[k].name \in Names
  BY <1>1
<1> QED
  BY <1>1, <1>3, <1>4, <1>5

LEMMA ReferenceType ==
    ASSUME NEW b \in Names, NEW mode \in Modes
    PROVE  /\ Reference[b][mode].ops \in Nat \ {0} /\ Reference[b][mode].p99 \in Nat \ {0}
           /\ Reference[b][mode].ops <= MaxReference
<1>1. Reference[b][mode] \in [ops : 1 .. MaxReference, p99 : Nat \ {0}]
  BY ReferenceAssumption
<1>2. MaxReference \in Int
  BY SMTT(30) DEF MaxReference, Point
<1>3. \A n \in 1 .. MaxReference : n \in Nat \ {0} /\ n <= MaxReference
  BY ONLY <1>2
<1> QED
  BY <1>1, <1>3

LEMMA Normalized ==
    ASSUME NEW measured, NEW reference, measured \in Nat, reference \in Nat, reference # 0
    PROVE  /\ Normalize(measured, reference) \in Nat
           /\ measured = reference => Normalize(measured, reference) = 1000 * Point
<1>1. Normalize(measured, reference) = (measured * 1000 * 840) \div reference
  BY DEF Normalize, Point
<1>2. (reference * 1000 * 840) \div reference = 840000
  BY SMTT(30)
<1>3. (measured * 1000 * 840) \div reference \in Nat
  <2>1. measured * 1000 * 840 \in Nat
    OBVIOUS
  <2> QED
    BY <2>1
<1> QED
  BY <1>1, <1>2, <1>3, SMTT(30) DEF Point

LEMMA LatencyNormalized ==
    ASSUME NEW measured, NEW reference, measured \in Nat, reference \in Nat, reference # 0
    PROVE  /\ NormalizeLatency(measured, reference) \in Nat
           /\ measured = reference => NormalizeLatency(measured, reference) = 1000 * Point
<1>1. NormalizeLatency(measured, reference)
         = IF measured = 0 THEN 0 ELSE (reference * 1000 * 840) \div measured
  BY DEF NormalizeLatency, Point
<1>2. (reference * 1000 * 840) \div reference = 840000
  BY SMTT(30)
<1>3. measured # 0 => (reference * 1000 * 840) \div measured \in Nat
  <2>1. reference * 1000 * 840 \in Nat
    OBVIOUS
  <2> QED
    BY <2>1
<1> QED
  BY <1>1, <1>2, <1>3, SMTT(30) DEF Point

\* What the means are taken of.
LEMMA Means ==
    ASSUME NEW sel \in Seq(Names), InOrder(sel), NEW m \in Machines, NEW mode \in Modes, NEW rs,
           Beginning(rs, mode, sel, m), NEW names \in SUBSET Names
    PROVE  /\ OpsMean(rs, mode, names) \in Nat
           /\ LatencyMean(rs, mode) \in Nat
           /\ AsReference(rs, mode) /\ Ran(rs, names) # {}
                 => OpsMean(rs, mode, names) = 1000 * Point
           /\ AsReference(rs, mode) /\ Ran(rs, Names) # {}
                 => LatencyMean(rs, mode) = 1000 * Point
<1> DEFINE ops == [b \in Ran(rs, names) |-> Normalize(ByName(rs)[b].ops, Reference[b][mode].ops)]
           latencies ==
             [b \in Ran(rs, Names) |-> NormalizeLatency(ByName(rs)[b].p99, Reference[b][mode].p99)]
<1>1. OpsMean(rs, mode, names) = Mean(ops) /\ LatencyMean(rs, mode) = Mean(latencies)
  BY DEF OpsMean, LatencyMean
<1>2. /\ DOMAIN ops = Ran(rs, names) /\ DOMAIN latencies = Ran(rs, Names)
      /\ IsFiniteSet(Ran(rs, names)) /\ IsFiniteSet(Ran(rs, Names))
  <2>1. Ran(rs, names) \in SUBSET Names /\ Ran(rs, Names) \in SUBSET Names
    BY DEF Ran
  <2> QED
    BY <2>1, CategoriesFinite, FS_Subset
<1>3. ASSUME NEW b \in DOMAIN ByName(rs)
      PROVE  /\ b \in Names
             /\ ByName(rs)[b].ops \in Nat /\ ByName(rs)[b].p99 \in Nat
             /\ Reference[b][mode].ops \in Nat \ {0} /\ Reference[b][mode].p99 \in Nat \ {0}
             /\ AsReference(rs, mode) => /\ ByName(rs)[b].ops = Reference[b][mode].ops
                                         /\ ByName(rs)[b].p99 = Reference[b][mode].p99
  <2>1. /\ b \in Names /\ ByName(rs)[b] \in Outcome
        /\ \E k \in DOMAIN rs : rs[k].name = b /\ ByName(rs)[b] = rs[k]
    BY ByNameType
  <2>2. PICK k \in DOMAIN rs : rs[k].name = b /\ ByName(rs)[b] = rs[k]
    BY <2>1
  <2>3. AsReference(rs, mode) => /\ rs[k].ops = Reference[b][mode].ops
                                 /\ rs[k].p99 = Reference[b][mode].p99
    BY <2>2 DEF AsReference
  <2> QED
    BY <2>1, <2>2, <2>3, ReferenceType DEF Outcome
<1>4. \A b \in Ran(rs, names) : b \in DOMAIN ByName(rs)
  BY DEF Ran
<1>5. \A b \in Ran(rs, Names) : b \in DOMAIN ByName(rs)
  BY DEF Ran
<1>6. ASSUME NEW b \in DOMAIN ByName(rs)
      PROVE  LET ratio   == Normalize(ByName(rs)[b].ops, Reference[b][mode].ops)
                 latency == NormalizeLatency(ByName(rs)[b].p99, Reference[b][mode].p99)
             IN  /\ ratio \in Nat /\ latency \in Nat
                 /\ AsReference(rs, mode) => ratio = 1000 * Point /\ latency = 1000 * Point
  <2>1. PICK o, l, ro, rl : /\ o = ByName(rs)[b].ops /\ l = ByName(rs)[b].p99
                            /\ ro = Reference[b][mode].ops /\ rl = Reference[b][mode].p99
    OBVIOUS
  <2>2. /\ o \in Nat /\ l \in Nat /\ ro \in Nat \ {0} /\ rl \in Nat \ {0}
        /\ AsReference(rs, mode) => o = ro /\ l = rl
    BY <1>3, <2>1
  <2>3. Normalize(o, ro) \in Nat /\ (o = ro => Normalize(o, ro) = 1000 * Point)
    <3>1. o \in Nat /\ ro \in Nat /\ ro # 0
      BY <2>2
    <3> QED
      BY ONLY <3>1, Normalized
  <2>4. /\ NormalizeLatency(l, rl) \in Nat
        /\ l = rl => NormalizeLatency(l, rl) = 1000 * Point
    <3>1. l \in Nat /\ rl \in Nat /\ rl # 0
      BY <2>2
    <3> QED
      BY ONLY <3>1, LatencyNormalized
  <2> QED
    BY <2>1, <2>2, <2>3, <2>4
<1>6a. ops \in [Ran(rs, names) -> Nat] /\ latencies \in [Ran(rs, Names) -> Nat]
  BY <1>4, <1>5, <1>6
<1>7. AsReference(rs, mode) => /\ \A b \in Ran(rs, names) : ops[b] = 1000 * Point
                               /\ \A b \in Ran(rs, Names) : latencies[b] = 1000 * Point
  BY <1>4, <1>5, <1>6
<1>8. 1000 * Point \in Nat
  BY DEF Point
<1> HIDE DEF ops, latencies
<1>9. Summable(ops) /\ Summable(latencies)
  BY <1>2, <1>6a DEF Summable
<1>10. Mean(ops) \in Nat /\ Mean(latencies) \in Nat
  BY <1>2, <1>6a, <1>9, MeanType
<1>11. AsReference(rs, mode) /\ Ran(rs, names) # {} => Mean(ops) = 1000 * Point
  BY <1>2, <1>7, <1>8, <1>9, MeanOfEqual
<1>12. AsReference(rs, mode) /\ Ran(rs, Names) # {} => Mean(latencies) = 1000 * Point
  BY <1>2, <1>7, <1>8, <1>9, MeanOfEqual
<1> QED
  BY <1>1, <1>10, <1>11, <1>12

LEMMA TotalType ==
    ASSUME NEW sel \in Seq(Names), InOrder(sel), NEW m \in Machines, NEW mode \in Modes, NEW rs,
           Beginning(rs, mode, sel, m), NEW profile \in Profiles
    PROVE  ComputeMode(rs, mode, WeightsFor(profile)).total \in Nat
<1>1. PICK w, all : w = WeightsFor(profile) /\ all = ComputeMode(rs, mode, w)
  OBVIOUS
<1>2. /\ all.scores = [c \in Category |-> IF c = "latency" THEN LatencyMean(rs, mode)
                                                           ELSE OpsMean(rs, mode, Collected(c))]
      /\ all.total = SumFunction([c \in Category |-> all.scores[c] * w[c]])
  BY <1>1, ComputedMode
<1>3. /\ LatencyMean(rs, mode) \in Nat /\ OpsMean(rs, mode, Collected("integer")) \in Nat
      /\ OpsMean(rs, mode, Collected("memory")) \in Nat
      /\ OpsMean(rs, mode, Collected("throughput")) \in Nat
  BY CollectedAre, Means
<1>4. all.scores \in [Category -> Nat]
  BY <1>2, <1>3 DEF Category
<1>5. \A c \in Category : w[c] \in Nat
  BY <1>1, WeightsAre DEF Category
<1> DEFINE f == [c \in Category |-> all.scores[c] * w[c]]
<1>6. f \in [Category -> Nat]
  <2>1. \A c \in Category : all.scores[c] \in Nat /\ w[c] \in Nat
    BY <1>4, <1>5
  <2>2. \A a, b \in Nat : a * b \in Nat
    OBVIOUS
  <2> QED
    BY <2>1, <2>2
<1>7. Summable(f) /\ DOMAIN f = Category
  BY <1>6, CategoriesFinite DEF Summable
<1>8. SumFunction(f) \in Nat
  <2> HIDE DEF f
  <2> QED
    BY <1>6, <1>7, SumOfNaturals
<1> QED
  BY <1>1, <1>2, <1>8

\* As fast as the reference in all benchmarks, that is 1000 in everything.
LEMMA AllAsReference ==
    ASSUME NEW sel \in Seq(Names), InOrder(sel), NEW m \in Machines, NEW mode \in Modes, NEW rs,
           Beginning(rs, mode, sel, m), NEW profile \in Profiles,
           {sel[k] : k \in 1 .. Len(rs)} = Names, AsReference(rs, mode)
    PROVE  Scores1000(ComputeMode(rs, mode, WeightsFor(profile)))
<1>1. PICK w, all : w = WeightsFor(profile) /\ all = ComputeMode(rs, mode, w)
  OBVIOUS
<1>2. /\ all.scores = [c \in Category |-> IF c = "latency" THEN LatencyMean(rs, mode)
                                                           ELSE OpsMean(rs, mode, Collected(c))]
      /\ all.total = SumFunction([c \in Category |-> all.scores[c] * w[c]])
      /\ all.label = Label(all.total)
  BY ONLY <1>1, ComputedMode
<1>3. DOMAIN ByName(rs) = Names
  BY ByNameDomain
<1>4. \A names \in SUBSET Names : Ran(rs, names) = names
  BY <1>3 DEF Ran
<1>5. /\ OpsMean(rs, mode, Collected("integer")) = 1000 * Point
      /\ OpsMean(rs, mode, Collected("memory")) = 1000 * Point
      /\ OpsMean(rs, mode, Collected("throughput")) = 1000 * Point
  <2>1. ASSUME NEW names \in SUBSET Names, names # {}
        PROVE  OpsMean(rs, mode, names) = 1000 * Point
    <3>1. Ran(rs, names) # {}
      BY <1>4, <2>1
    <3> QED
      BY <3>1, Means
  <2>2. /\ Collected("integer") \in SUBSET Names /\ Collected("integer") # {}
        /\ Collected("memory") \in SUBSET Names /\ Collected("memory") # {}
        /\ Collected("throughput") \in SUBSET Names /\ Collected("throughput") # {}
    BY CollectedAre
  <2> QED
    BY <2>1, <2>2
<1>6. LatencyMean(rs, mode) = 1000 * Point
  <2>1. Ran(rs, Names) # {}
    BY <1>4 DEF Names
  <2> QED
    BY <2>1, Means
<1>7. \A c \in Category : all.scores[c] = 1000 * Point
  BY <1>2, <1>5, <1>6 DEF Category
<1> DEFINE f == [c \in Category |-> all.scores[c] * w[c]]
<1>8. /\ w["integer"] \in Nat /\ w["memory"] \in Nat /\ w["throughput"] \in Nat
      /\ w["latency"] \in Nat
      /\ w["integer"] + (w["memory"] + (w["throughput"] + w["latency"])) = 100
  BY <1>1, WeightsAre
<1>9. /\ f["integer"] = 840000 * w["integer"] /\ f["memory"] = 840000 * w["memory"]
      /\ f["throughput"] = 840000 * w["throughput"] /\ f["latency"] = 840000 * w["latency"]
  BY <1>7, SMTT(30) DEF Category, Point
<1>10. f \in [Category -> Int]
  <2>1. \A c \in Category : f[c] \in Int
    BY <1>8, <1>9, SMTT(30) DEF Category
  <2> QED
    BY <2>1
<1>11. SumFunction(f) = 84000000
  <2> HIDE DEF f
  <2>1. SumFunction(f) = f["integer"] + (f["memory"] + (f["throughput"] + f["latency"]))
    BY <1>10, SumOfCategories
  <2>2. PICK a, b, c, d : /\ a = w["integer"] /\ b = w["memory"]
                          /\ c = w["throughput"] /\ d = w["latency"]
    OBVIOUS
  <2>3. a \in Nat /\ b \in Nat /\ c \in Nat /\ d \in Nat /\ a + (b + (c + d)) = 100
    BY <1>8, <2>2
  <2>4. SumFunction(f) = 840000 * a + (840000 * b + (840000 * c + 840000 * d))
    BY <1>9, <2>1, <2>2, SMTT(30)
  <2>5. 840000 * a + (840000 * b + (840000 * c + 840000 * d)) = 840000 * (a + (b + (c + d)))
    BY <2>3, SMTT(30)
  <2> QED
    BY <2>3, <2>4, <2>5, SMTT(30)
<1>12. all.total = 84000000
  BY <1>2, <1>11, SMTT(30)
<1>13. Label(84000000) = "Referenz"
  BY SMTT(30) DEF Label, Point
<1> QED
  BY <1>1, <1>2, <1>7, <1>12, <1>13, SMTT(30) DEF Scores1000, Point

\* A full selection has every name.
LEMMA FullSelection ==
    ASSUME NEW mode, NEW rs, Beginning(rs, mode, Sel, machine), Len(rs) = 8
    PROVE  {Sel[k] : k \in 1 .. Len(rs)} = Names
<1>1. Len(Sel) \in 0 .. 8 /\ (Len(Sel) = 8 => {Sel[k] : k \in 1 .. Len(Sel)} = Names)
  BY SelectedIs DEF Sel
<1>2. Len(rs) <= Len(Sel)
  BY DEF Beginning
<1>3. Len(Sel) = 8
  BY <1>1, <1>2
<1> QED
  BY <1>1, <1>3

\* The reference machine scores 1000 in every category and in total, if it
\* runs everything, in every profile, and is called the reference.
THEOREM CliReferenceScores1000 == Spec => []ReferenceScores1000
<1>1. IInv => ReferenceScores1000
  <2> SUFFICES ASSUME IInv, Scored PROVE ReferenceScores1000
    BY DEF ReferenceScores1000
  <2>1. /\ flags.profile \in Profiles /\ score = Score(st, mt, flags.profile)
        /\ machine \in Machines /\ "st" \in Modes /\ "mt" \in Modes
        /\ Beginning(st, "st", Sel, machine) /\ Beginning(mt, "mt", Sel, machine)
    BY DEF IInv, Types, Progress, Scores, Modes
  <2>2. Sel \in Seq(Names) /\ InOrder(Sel)
    BY SelectedIs DEF Sel
  <2>3. ASSUME AsReference(st, "st"), Len(st) = 8
        PROVE  Scores1000(score.st)
    <3>1. {Sel[k] : k \in 1 .. Len(st)} = Names
      BY <2>1, <2>3, FullSelection
    <3>2. Scores1000(ComputeMode(st, "st", WeightsFor(flags.profile)))
      BY <2>1, <2>2, <2>3, <3>1, AllAsReference
    <3> QED
      BY <2>1, <3>2 DEF Score
  <2>4. ASSUME AsReference(mt, "mt"), Len(mt) = 8
        PROVE  Scores1000(score.mt)
    <3>1. {Sel[k] : k \in 1 .. Len(mt)} = Names
      BY <2>1, <2>4, FullSelection
    <3>2. Scores1000(ComputeMode(mt, "mt", WeightsFor(flags.profile)))
      BY <2>1, <2>2, <2>4, <3>1, AllAsReference
    <3> QED
      BY <2>1, <3>2 DEF Score
  <2> QED
    BY <2>3, <2>4 DEF ReferenceScores1000
<1> QED
  BY <1>1, CliInvariance, PTL

\* The type invariant; the totals are natural numbers, and a stress run has
\* at least one worker and a buffer that is not empty.
THEOREM CliTypeOK == Spec => []TypeOK
<1>1. IInv => TypeOK
  <2> SUFFICES ASSUME IInv PROVE TypeOK
    OBVIOUS
  <2>1. /\ Types /\ Progress /\ Heating /\ Scores /\ Papers
        /\ machine \in Machines /\ "st" \in Modes /\ "mt" \in Modes
        /\ Beginning(st, "st", Sel, machine) /\ Beginning(mt, "mt", Sel, machine)
        /\ Ending(rest, Sel)
    BY DEF IInv, Types, Progress, Modes
  <2>2. Sel \in Seq(Names) /\ InOrder(Sel) /\ Len(Sel) \in 0 .. 8
    BY SelectedIs DEF Sel
  <2>3. \A rs \in {st, mt} : \A k \in DOMAIN rs : rs[k].name \in Names
    <3>1. \A k \in DOMAIN st : st[k] \in Outcome
      BY <2>1 DEF Beginning
    <3>2. \A k \in DOMAIN mt : mt[k] \in Outcome
      BY <2>1 DEF Beginning
    <3> QED
      BY <3>1, <3>2 DEF Outcome
  <2>4. Len(rest) + Len(st) <= 9 /\ Len(mt) <= Len(st)
    <3>1. Len(rest) + Len(st) <= Len(Sel) + 1 /\ Len(mt) <= Len(st)
      BY <2>1 DEF Progress
    <3>2. Len(rest) \in Nat /\ Len(st) \in Nat
      BY <2>1 DEF Beginning, Ending
    <3>3. PICK a, b, c : a = Len(rest) /\ b = Len(st) /\ c = Len(Sel)
      OBVIOUS
    <3>4. a \in Nat /\ b \in Nat /\ c \in 0 .. 8 /\ a + b <= c + 1
      BY <2>2, <3>1, <3>2, <3>3
    <3>5. a + b <= 9
      BY <3>4
    <3> QED
      BY <3>1, <3>3, <3>5
  <2>5. ASSUME Scored
        PROVE  /\ score.profile \in Profiles \ {""}
               /\ \A mode \in Modes : score[mode].total \in Nat
    <3>1. flags.profile \in Profiles /\ score = Score(st, mt, flags.profile)
      BY <2>1, <2>5 DEF Scores
    <3>2. /\ ComputeMode(st, "st", WeightsFor(flags.profile)).total \in Nat
          /\ ComputeMode(mt, "mt", WeightsFor(flags.profile)).total \in Nat
      BY <2>1, <2>2, <3>1, TotalType
    <3>3. score["st"].total \in Nat /\ score["mt"].total \in Nat
      BY <3>1, <3>2 DEF Score
    <3>4. score.profile \in Profiles \ {""}
      BY <3>1 DEF Score, Profiles
    <3> QED
      BY <3>3, <3>4 DEF Modes
  <2>6. \A k \in DOMAIN Kinds : Kinds[k] \in {"table", "json"}
    <3>1. Kinds \in {<<>>, <<"table">>, <<"json">>, <<"table", "json">>}
      BY <2>1 DEF Papers
    <3> HIDE DEF Kinds
    <3> QED
      BY <3>1
  <2>7. ASSUME load # <<>>
        PROVE  {load.cpu, load.mib} \subseteq Nat \ {0} /\ load.mem \in Nat
    <3>1. load = Asked /\ ValidStress
      BY <2>1, <2>7 DEF Heating
    <3>2. /\ flags.stressCPU \in Int /\ flags.stressMem \in Int /\ flags.stressMemMiB \in Int
          /\ NumCPU \in Nat \ {0} /\ IntMiB \in Nat \ {0}
      BY <2>1, FlagsType, StressConfigAssumption, CliAssumption DEF Types
    <3>3. Shifted(flags.stressMemMiB) \in Int
      BY <3>2 DEF Shifted
    <3>4. load.cpu \in Nat \ {0} /\ load.mib \in Nat \ {0}
      BY <3>1, <3>2, <3>3 DEF Asked, Resolve, DefaultMiB
    <3>5. DefaultMemWorkers \in Nat
      BY <3>2 DEF DefaultMemWorkers
    <3>6. load.mem = CASE DisableMem -> 0
                       [] ~DisableMem /\ flags.stressMem <= 0 -> DefaultMemWorkers
                       [] OTHER -> flags.stressMem
      BY <3>1 DEF Asked, Resolve, DisableMem
    <3>7. load.mem \in Nat
      BY <3>2, <3>5, <3>6 DEF DisableMem
    <3> QED
      BY <3>4, <3>7
  <2> QED
    BY <2>1, <2>3, <2>4, <2>5, <2>6, <2>7 DEF TypeOK, Types
<1> QED
  BY <1>1, CliInvariance, PTL
-----------------------------------------------------------------------------
(* The scan of /proc/cpuinfo.                                              *)

Line == STRING \X STRING

LEMMA MaxIs ==
    ASSUME NEW S \in SUBSET Int, NEW m, m \in S, \A x \in S : x <= m
    PROVE  Max(S) = m
<1>1. \A y \in S : m >= y
  OBVIOUS
<1>2. ASSUME NEW x \in S, \A y \in S : x >= y
      PROVE  x = m
  <2>1. x \in Int /\ m \in Int /\ x >= m /\ m >= x
    BY <1>1, <1>2
  <2> QED
    BY <2>1
<1> QED
  BY <1>1, <1>2 DEF Max

LEMMA MinIs ==
    ASSUME NEW S \in SUBSET Nat, S # {}
    PROVE  Min(S) \in S /\ \A x \in S : Min(S) <= x
<1>1. \E m \in S : \A x \in S : m <= x
  BY LeastNatural
<1> QED
  BY <1>1 DEF Min

Scan0 == [cur |-> NoCore, order |-> <<>>, counts |-> <<>>]

\* The fold over the first m lines, and over each part of them.
ScanStep(text, m, scans) ==
    [s \in SUBSET (1 .. m) |->
        IF s = {} THEN Scan0 ELSE ScanLine(scans[s \ {Max(s)}], text[Max(s)])]

Scans(text, m) == CHOOSE scans : scans = ScanStep(text, m, scans)

LEMMA PartsByMax ==
    ASSUME NEW m \in Nat, NEW s \in SUBSET (1 .. m + 1), s # {}
    PROVE  Max(s) \in s /\ s \ {Max(s)} \in SUBSET (1 .. m)
<1>1. s \in SUBSET Int /\ IsFiniteSet(s)
  <2>1. m + 1 \in Int
    OBVIOUS
  <2>2. IsFiniteSet(1 .. m + 1)
    BY <2>1, FS_Interval
  <2>3. IsFiniteSet(s)
    BY <2>2, FS_Subset
  <2>4. s \in SUBSET Int
    OBVIOUS
  <2> QED
    BY <2>3, <2>4
<1>2. PICK top \in s : \A k \in s : top >= k
  BY <1>1, GreatestInteger
<1>3. Max(s) = top
  BY <1>1, <1>2, MaxIs
<1>4. ASSUME NEW k \in s \ {top}
      PROVE  k \in 1 .. m
  <2>1. k \in 1 .. m + 1 /\ top \in 1 .. m + 1 /\ top >= k /\ k # top
    BY <1>2
  <2> QED
    BY <2>1
<1> QED
  BY <1>3, <1>4

LEMMA ScansUnfold ==
    ASSUME NEW text, NEW m \in Nat
    PROVE  Scans(text, m) = ScanStep(text, m, Scans(text, m))
<1> DEFINE Bad == {k \in Nat : ~\E scans : scans = ScanStep(text, k, scans)}
<1>1. 0 \notin Bad
  <2> DEFINE scans == [s \in SUBSET (1 .. 0) |-> Scan0]
  <2>1. \A s \in SUBSET (1 .. 0) : s = {}
    OBVIOUS
  <2>2. scans = ScanStep(text, 0, scans)
    BY <2>1 DEF ScanStep
  <2> QED
    BY <2>2
<1>2. ASSUME NEW k \in Nat, k \notin Bad
      PROVE  k + 1 \notin Bad
  <2>1. PICK scans : scans = ScanStep(text, k, scans)
    BY <1>2
  <2> DEFINE more == ScanStep(text, k + 1, scans)
  <2>2. ASSUME NEW s \in SUBSET (1 .. k)
        PROVE  more[s] = scans[s]
    <3>1. s \in SUBSET (1 .. k + 1)
      OBVIOUS
    <3>2. more[s] = IF s = {} THEN Scan0 ELSE ScanLine(scans[s \ {Max(s)}], text[Max(s)])
      BY <3>1 DEF ScanStep
    <3>3. ScanStep(text, k, scans)[s]
             = IF s = {} THEN Scan0 ELSE ScanLine(scans[s \ {Max(s)}], text[Max(s)])
      BY DEF ScanStep
    <3> QED
      BY <2>1, <3>2, <3>3
  <2>3. \A s \in SUBSET (1 .. k + 1) : s # {} => more[s \ {Max(s)}] = scans[s \ {Max(s)}]
    <3> HIDE DEF more
    <3> QED
      BY <2>2, PartsByMax
  <2>4. more = ScanStep(text, k + 1, more)
    <3>1. more = [s \in SUBSET (1 .. k + 1) |->
                     IF s = {} THEN Scan0 ELSE ScanLine(scans[s \ {Max(s)}], text[Max(s)])]
      BY DEF ScanStep
    <3> HIDE DEF more
    <3>2. ScanStep(text, k + 1, more)
             = [s \in SUBSET (1 .. k + 1) |->
                   IF s = {} THEN Scan0 ELSE ScanLine(more[s \ {Max(s)}], text[Max(s)])]
      BY DEF ScanStep
    <3> QED
      BY <2>3, <3>1, <3>2
  <2> QED
    BY <2>4
<1>3. Bad = {}
  <2> SUFFICES ASSUME Bad # {}
               PROVE  FALSE
    OBVIOUS
  <2>1. PICK k \in Bad : \A l \in Bad : k <= l
    BY LeastNatural
  <2>2. k \in Nat /\ k # 0
    BY <1>1, <2>1
  <2>3. k - 1 \in Nat /\ k - 1 \notin Bad /\ k - 1 + 1 = k
    BY <2>1, <2>2
  <2> HIDE DEF Bad
  <2> QED
    BY <1>2, <2>3
<1>4. \E scans : scans = ScanStep(text, m, scans)
  BY <1>3
<1> QED
  BY <1>4 DEF Scans

\* The scan after each line.
LEMMA ScanByLine ==
    ASSUME NEW text \in Seq(Line)
    PROVE  \E scan : /\ scan[0] = Scan0
                     /\ \A k \in 1 .. Len(text) : scan[k] = ScanLine(scan[k - 1], text[k])
                     /\ FoldLeft(ScanLine, Scan0, text) = scan[Len(text)]
<1> DEFINE n    == Len(text)
           all  == Scans(text, n)
           scan == [k \in 0 .. n |-> all[1 .. k]]
<1>1. n \in Nat /\ DOMAIN text = 1 .. n
  OBVIOUS
<1>2. \A s \in SUBSET (1 .. n) :
         all[s] = IF s = {} THEN Scan0 ELSE ScanLine(all[s \ {Max(s)}], text[Max(s)])
  <2>1. all = ScanStep(text, n, all)
    BY <1>1, ScansUnfold
  <2> HIDE DEF all, n
  <2> QED
    BY <2>1 DEF ScanStep
<1>3. FoldLeft(ScanLine, Scan0, text) = all[1 .. n]
  BY <1>1 DEF FoldLeft, MapThenFoldSet, Scans, ScanStep, Max
<1> HIDE DEF all, n
<1>4. scan[0] = Scan0
  BY <1>1, <1>2
<1>5. ASSUME NEW k \in 1 .. n
      PROVE  scan[k] = ScanLine(scan[k - 1], text[k])
  <2>1. Max(1 .. k) = k
    <3>1. 1 .. k \in SUBSET Int /\ k \in 1 .. k /\ \A x \in 1 .. k : x <= k
      BY <1>1
    <3> QED
      BY ONLY <3>1, MaxIs
  <2>2. (1 .. k) \ {k} = 1 .. k - 1 /\ 1 .. k # {} /\ 1 .. k \in SUBSET (1 .. n)
    <3>1. k \in Nat /\ k >= 1 /\ k <= n
      BY <1>1
    <3>2. \A x : x \in (1 .. k) \ {k} <=> x \in 1 .. k - 1
      BY <3>1
    <3>3. k \in 1 .. k /\ \A x \in 1 .. k : x \in 1 .. n
      BY <1>1, <3>1
    <3> QED
      BY <3>2, <3>3
  <2>3. all[1 .. k] = ScanLine(all[1 .. k - 1], text[k])
    BY <1>2, <2>1, <2>2
  <2> QED
    BY <1>1, <2>3
<1>6. scan[n] = all[1 .. n]
  BY <1>1
<1> HIDE DEF scan
<1> QED
  BY <1>3, <1>4, <1>5, <1>6 DEF n

\* What a block of lines says of a key: the last value.
Said(text, from, k, key) ==
    LET Lines == {q \in from .. k : text[q][1] = key}
    IN  IF Lines = {} THEN "" ELSE text[Max(Lines)][2]

CoreSaid(text, from, k) ==
    [impl |-> Said(text, from, k, "CPU implementer"), part |-> Said(text, from, k, "CPU part")]

LEMMA SaidNext ==
    ASSUME NEW text \in Seq(Line), NEW k \in 1 .. Len(text), NEW from \in 1 .. k, NEW key
    PROVE  Said(text, from, k, key)
              = IF text[k][1] = key THEN text[k][2] ELSE Said(text, from, k - 1, key)
<1> DEFINE Lines(l) == {q \in from .. l : text[q][1] = key}
<1>1. k \in Nat /\ from \in Nat /\ from <= k
  OBVIOUS
<1>2. CASE text[k][1] = key
  <2>1. Lines(k) \in SUBSET Int /\ k \in Lines(k) /\ \A x \in Lines(k) : x <= k
    BY <1>1, <1>2
  <2> HIDE DEF Lines
  <2>2. Max(Lines(k)) = k /\ Lines(k) # {}
    BY <2>1, MaxIs
  <2> QED
    BY <1>2, <2>2 DEF Said, Lines
<1>3. CASE text[k][1] # key
  <2>1. Lines(k) = Lines(k - 1)
    BY <1>1, <1>3
  <2> QED
    BY <1>3, <2>1 DEF Said
<1> QED
  BY <1>2, <1>3

LEMMA SaidNothing ==
    ASSUME NEW text, NEW k \in Nat
    PROVE  CoreSaid(text, k + 1, k) = NoCore
<1>1. k + 1 .. k = {}
  OBVIOUS
<1> QED
  BY <1>1 DEF CoreSaid, Said, NoCore

Kind == [impl : STRING \cup {""}, part : STRING \cup {""}]

LEMMA NothingSaid ==
    /\ NoCore \in Kind
    /\ \A core : core = NoCore => core.impl = ""
    /\ \A line : line = EmptyLine => line[1] = ""
<1>1. PICK none : none = ""
  OBVIOUS
<1>2. NoCore = [impl |-> none, part |-> none] /\ EmptyLine = <<none, none>>
  BY <1>1 DEF NoCore, EmptyLine
<1>3. none \in STRING \cup {none}
  OBVIOUS
<1>4. NoCore \in [impl : STRING \cup {none}, part : STRING \cup {none}]
  BY ONLY <1>2, <1>3
<1>5. NoCore.impl = none /\ EmptyLine[1] = none
  BY ONLY <1>2
<1> QED
  BY <1>1, <1>4, <1>5 DEF Kind

\* A kind comes before another one if it appears before all cores of that one.
InTurn(cores, F, kinds) ==
    \A i, j \in 1 .. Len(kinds) : i < j =>
        \E p \in F : /\ cores[p] = kinds[i]
                     /\ \A q \in F : cores[q] = kinds[j] => p < q

CountsOf(cores, F, counts) ==
    \A kind \in DOMAIN counts : counts[kind] = Cardinality({p \in F : cores[p] = kind})

\* The cores that start before a line are counted: each kind is in order once
\* and counted, and the kinds come in the order in which they first appear.
Counted(cores, s, from) ==
    LET F == {p \in DOMAIN cores : p < from} IN
    /\ s = [cur |-> s.cur, order |-> s.order, counts |-> s.counts]
    /\ s.order \in Seq(Kind)
    /\ DOMAIN s.counts = {cores[p] : p \in F}
    /\ DOMAIN s.counts = {s.order[i] : i \in 1 .. Len(s.order)}
    /\ CountsOf(cores, F, s.counts)
    /\ InTurn(cores, F, s.order)

\* Of the blocks from a line on and before another one only the first one may
\* be a core, and that is one if what it says is complete.
OneBlock(cores, cur, from, next) ==
    /\ \A p \in DOMAIN cores : ~(from < p /\ p < next)
    /\ from \in DOMAIN cores <=> cur.impl # "" /\ cur.part # ""
    /\ from \in DOMAIN cores => cores[from] = cur

Numbered(cores) == \A p \in DOMAIN cores : p \in Nat

\* A block ends, and what it describes is counted, if it is a core.
LEMMA FlushedCounts ==
    ASSUME NEW cores, Numbered(cores), NEW s, NEW from \in Nat, NEW next \in Nat, from < next,
           Counted(cores, s, from), s.cur \in Kind, OneBlock(cores, s.cur, from, next)
    PROVE  Counted(cores, Flushed(s), next)
<1> DEFINE F     == {p \in DOMAIN cores : p < from}
           G     == {p \in DOMAIN cores : p < next}
           Of(P, kind) == {p \in P : cores[p] = kind}
<1>1. /\ s = [cur |-> s.cur, order |-> s.order, counts |-> s.counts]
      /\ s.order \in Seq(Kind)
      /\ DOMAIN s.counts = {cores[p] : p \in F}
      /\ DOMAIN s.counts = {s.order[i] : i \in 1 .. Len(s.order)}
      /\ \A kind \in DOMAIN s.counts : s.counts[kind] = Cardinality(Of(F, kind))
      /\ \A i, j \in 1 .. Len(s.order) : i < j =>
            \E p \in F : /\ cores[p] = s.order[i]
                         /\ \A q \in F : cores[q] = s.order[j] => p < q
  <2>1. /\ s = [cur |-> s.cur, order |-> s.order, counts |-> s.counts]
        /\ s.order \in Seq(Kind)
        /\ DOMAIN s.counts = {cores[p] : p \in F}
        /\ DOMAIN s.counts = {s.order[i] : i \in 1 .. Len(s.order)}
        /\ CountsOf(cores, F, s.counts) /\ InTurn(cores, F, s.order)
    BY DEF Counted
  <2> HIDE DEF F
  <2> QED
    BY <2>1, Zenon DEF CountsOf, InTurn
<1>1a. from \in Nat /\ next \in Nat /\ \A p \in DOMAIN cores : p \in Nat
  BY DEF Numbered
<1>1b. \A p \in DOMAIN cores : (p < next <=> p < from \/ p = from)
  <2> TAKE p \in DOMAIN cores
  <2>1. p \in Nat /\ from \in Nat /\ next \in Nat /\ from < next
    BY <1>1a
  <2>2. ~(from < p /\ p < next)
    BY DEF OneBlock
  <2> HIDE DEF F, G, Of
  <2> QED
    BY <2>1, <2>2
<1>2. IsFiniteSet(F) /\ \A kind : IsFiniteSet(Of(F, kind))
  <2>0. IsFiniteSet(0 .. from)
    <3>1. 0 \in Int /\ from \in Int
      OBVIOUS
    <3> QED
      BY ONLY <3>1, FS_Interval
  <2>1. IsFiniteSet(0 .. from) /\ F \in SUBSET (0 .. from)
    BY <1>1a, <2>0
  <2>2. IsFiniteSet(F)
    BY <2>1, FS_Subset
  <2>3. \A kind : Of(F, kind) \in SUBSET F
    OBVIOUS
  <2> HIDE DEF Of, F
  <2> QED
    BY <2>2, <2>3, FS_Subset
<1>3. \A p \in F : p \in Nat /\ p < from
  BY <1>1a
<1>4. CASE from \notin DOMAIN cores
  <2>1. Flushed(s) = s
    BY <1>4 DEF Flushed, OneBlock
  <2>2. G = F
    <3>1. \A p \in DOMAIN cores : (p < from <=> p < next)
      BY <1>1b, <1>4
    <3> QED
      BY <3>1
  <2> HIDE DEF Of, F, G
  <2> QED
    BY <1>1, <2>1, <2>2 DEF Counted, CountsOf, InTurn, Of, G
<1>5. CASE from \in DOMAIN cores
  <2> DEFINE cur  == s.cur
             seen == cur \in DOMAIN s.counts
             f    == Flushed(s)
  <2>1. cores[from] = cur /\ cur \in Kind /\ ~(cur.impl = "" \/ cur.part = "")
    BY <1>5 DEF OneBlock
  <2>2. G = F \cup {from} /\ from \notin F
    <3>1. ~(from < from)
      BY <1>1a
    <3> QED
      BY <1>1b, <1>5, <3>1
  <2>3. /\ f = [cur |-> f.cur, order |-> f.order, counts |-> f.counts]
        /\ f.order = IF seen THEN s.order ELSE Append(s.order, cur)
        /\ f.counts = Stored(s.counts, [core \in {cur} |-> IF seen THEN s.counts[core] + 1 ELSE 1])
    BY <1>1, <2>1 DEF Flushed
  <2>4. /\ DOMAIN f.counts = DOMAIN s.counts \cup {cur}
        /\ f.counts[cur] = IF seen THEN s.counts[cur] + 1 ELSE 1
        /\ \A kind \in DOMAIN s.counts : kind # cur => f.counts[kind] = s.counts[kind]
    BY <2>3 DEF Stored
  <2>4a. PICK old, new, N, dom, dom2 :
            /\ old = s.order /\ new = f.order /\ N = Len(old)
            /\ dom = DOMAIN s.counts /\ dom2 = DOMAIN f.counts
    OBVIOUS
  <2> HIDE DEF f, cur, F, G
  <2>5. /\ old \in Seq(Kind) /\ N \in Nat /\ DOMAIN old = 1 .. N
        /\ dom = {old[i] : i \in 1 .. N}
        /\ new = IF seen THEN old ELSE Append(old, cur)
    BY <1>1, <2>3, <2>4a
  <2>6. DOMAIN f.counts = {cores[p] : p \in G}
    <3>1. {cores[p] : p \in G} = {cores[p] : p \in F} \cup {cur}
      BY <2>1, <2>2
    <3> QED
      BY <1>1, <2>4, <3>1
  <2>7. /\ new \in Seq(Kind)
        /\ dom2 = {new[i] : i \in 1 .. Len(new)}
        /\ \A i \in 1 .. N : i \in 1 .. Len(new) /\ new[i] = old[i]
        /\ seen => Len(new) = N
        /\ ~seen => Len(new) = N + 1 /\ new[N + 1] = cur
    <3>1. CASE seen
      <4>1. new = old /\ dom2 = dom
        BY <2>4, <2>4a, <2>5, <3>1
      <4> QED
        BY <2>4a, <2>5, <3>1, <4>1
    <3>2. CASE ~seen
      <4>1. new = Append(old, cur)
        BY <2>5, <3>2
      <4>2. /\ new \in Seq(Kind) /\ Len(new) = N + 1
            /\ new[N + 1] = cur
            /\ \A i \in 1 .. N : new[i] = old[i]
        <5>1. cur \in Kind /\ old \in Seq(Kind) /\ N = Len(old) /\ N \in Nat
          BY <2>1, <2>4a, <2>5
        <5> QED
          BY ONLY <4>1, <5>1, AppendProperties
      <4>3. \A i \in 1 .. N + 1 : i \in 1 .. N \/ i = N + 1
        BY <2>5
      <4>4. \A i \in 1 .. N : i \in 1 .. N + 1
        BY <2>5
      <4>5. N + 1 \in 1 .. N + 1
        BY <2>5
      <4>6. {new[i] : i \in 1 .. N + 1} = {old[i] : i \in 1 .. N} \cup {cur}
        BY <4>2, <4>3, <4>4, <4>5
      <4> QED
        BY <2>4, <2>4a, <2>5, <3>2, <4>2, <4>4, <4>6
    <3> QED
      BY <3>1, <3>2
  <2>8. ASSUME NEW kind \in DOMAIN f.counts
        PROVE  f.counts[kind] = Cardinality(Of(G, kind))
    <3>1. CASE kind # cur
      <4>1. Of(G, kind) = Of(F, kind)
        BY <2>1, <2>2, <3>1
      <4> QED
        BY <1>1, <2>4, <3>1, <4>1
    <3>2. CASE kind = cur
      <4>1. Of(G, cur) = Of(F, cur) \cup {from} /\ from \notin Of(F, cur)
        BY <2>1, <2>2
      <4>2. Cardinality(Of(G, cur)) = Cardinality(Of(F, cur)) + 1
        <5> HIDE DEF Of
        <5> QED
          BY <1>2, <4>1, FS_AddElement
      <4>3. CASE seen
        BY <1>1, <2>4, <3>2, <4>2, <4>3
      <4>4. CASE ~seen
        <5>1. Of(F, cur) = {}
          BY <1>1, <4>4
        <5>2. Cardinality(Of(F, cur)) = 0
          BY <5>1, FS_EmptySet
        <5> QED
          BY <2>4, <3>2, <4>2, <4>4, <5>2
      <4> QED
        BY <4>3, <4>4
    <3> QED
      BY <3>1, <3>2
  <2>9. ASSUME NEW i \in 1 .. Len(new), NEW j \in 1 .. Len(new), i < j
        PROVE  \E p \in G : /\ cores[p] = new[i]
                            /\ \A q \in G : cores[q] = new[j] => p < q
    <3>0. Len(new) \in {N, N + 1}
      BY <2>7
    <3>1. i \in 1 .. N /\ new[i] = old[i]
      <4>1. i \in Nat /\ j \in Nat /\ i >= 1 /\ j <= N + 1
        BY <2>5, <3>0
      <4> QED
        BY <2>5, <2>7, <2>9, <4>1
    <3>2. CASE j \in 1 .. N
      <4>1. PICK p \in F : /\ cores[p] = old[i]
                           /\ \A q \in F : cores[q] = old[j] => p < q
        BY <1>1, <2>4a, <2>9, <3>1, <3>2
      <4>2. \A q \in G : cores[q] = old[j] => p < q
        BY <1>3, <2>2, <4>1
      <4>3. new[j] = old[j] /\ p \in G
        BY <2>2, <2>7, <3>2
      <4> QED
        BY <3>1, <4>1, <4>2, <4>3
    <3>3. CASE j \notin 1 .. N
      <4>1. ~seen /\ j = N + 1 /\ new[j] = cur
        BY <2>5, <2>7, <3>0, <3>3
      <4>2. PICK p \in F : cores[p] = old[i]
        <5>1. old[i] \in dom /\ dom = {cores[p] : p \in F}
          BY <1>1, <2>4a, <2>5, <3>1
        <5> QED
          BY <5>1
      <4>3. \A q \in F : cores[q] # cur
        BY <1>1, <4>1
      <4>4. \A q \in G : cores[q] = cur => p < q
        BY <1>3, <2>2, <4>2, <4>3
      <4>5. p \in G
        BY <2>2
      <4> QED
        BY <3>1, <4>1, <4>2, <4>4, <4>5
    <3> QED
      BY <3>2, <3>3
  <2> QED
    <3>1. /\ f.order \in Seq(Kind)
          /\ DOMAIN f.counts = {f.order[i] : i \in 1 .. Len(f.order)}
      BY <2>4a, <2>7
    <3>2. InTurn(cores, G, f.order)
      <4>1. InTurn(cores, G, new)
        BY <2>9 DEF InTurn
      <4> QED
        BY <2>4a, <4>1
    <3>3. f = [cur |-> f.cur, order |-> f.order, counts |-> f.counts]
      BY <2>3
    <3>3a. CountsOf(cores, G, f.counts)
      BY <2>8 DEF CountsOf, Of
    <3>4. Counted(cores, f, next)
      <4> HIDE DEF Of
      <4> QED
        BY <2>6, <3>1, <3>2, <3>3, <3>3a, Zenon DEF Counted, G
    <3> QED
      BY <3>4 DEF f
<1> QED
  BY <1>4, <1>5

\* What is counted is in order and counts.
LEMMA SameCounts ==
    ASSUME NEW cores, NEW s, NEW from, Counted(cores, s, from),
           NEW g, g = [cur |-> g.cur, order |-> g.order, counts |-> g.counts],
           g.order = s.order, g.counts = s.counts
    PROVE  Counted(cores, g, from)
<1>1. PICK order, counts : order = s.order /\ counts = s.counts
  OBVIOUS
<1>2. g.order = order /\ g.counts = counts
  BY <1>1
<1> QED
  BY <1>1, <1>2 DEF Counted

\* What the scan has after k lines: the cores of the blocks before the last
\* one, and what the last one says so far.
Scanned(text, s, k, from) ==
    /\ from \in 1 .. k + 1 /\ (from = 1 \/ text[from - 1] = EmptyLine)
    /\ \A q \in from .. k : text[q] # EmptyLine
    /\ s.cur \in Kind /\ s.cur = CoreSaid(text, from, k)
    /\ Counted(Cores(text), s, from)

LEMMA CoresAre ==
    ASSUME NEW text \in Seq(Line)
    PROVE  /\ \A p : p \in DOMAIN Cores(text) <=>
                  /\ p \in 1 .. Len(text) /\ (p = 1 \/ text[p - 1] = EmptyLine)
                  /\ CoreAt(text, p).impl # "" /\ CoreAt(text, p).part # ""
           /\ \A p \in DOMAIN Cores(text) : Cores(text)[p] = CoreAt(text, p)
           /\ Numbered(Cores(text))
<1>1. DOMAIN text = 1 .. Len(text) /\ \A p \in 1 .. Len(text) : p \in Nat
  OBVIOUS
<1>2. \A p : p \in DOMAIN Cores(text) <=>
           /\ p \in 1 .. Len(text) /\ (p = 1 \/ text[p - 1] = EmptyLine)
           /\ CoreAt(text, p).impl # "" /\ CoreAt(text, p).part # ""
  BY <1>1 DEF Cores, Starts
<1>3. \A p \in DOMAIN Cores(text) : Cores(text)[p] = CoreAt(text, p)
  BY DEF Cores
<1> QED
  BY <1>1, <1>2, <1>3 DEF Numbered

\* A block that is over says what was said in it.
LEMMA BlockSays ==
    ASSUME NEW text \in Seq(Line), NEW k \in 0 .. Len(text), NEW from \in 1 .. k + 1,
           \A q \in from .. k : text[q] # EmptyLine,
           k = Len(text) \/ text[k + 1] = EmptyLine
    PROVE  CoreAt(text, from) = CoreSaid(text, from, k)
<1>1. k \in Nat /\ from \in Nat /\ Len(text) \in Nat /\ k <= Len(text) /\ from <= k + 1
  OBVIOUS
<1>2. ASSUME NEW q
      PROVE  q \in Block(text, from) <=> q \in from .. k
  <2>1. q \in Block(text, from) <=>
           q \in from .. Len(text) /\ \A r \in from .. q : text[r] # EmptyLine
    BY DEF Block
  <2>2. ASSUME q \in from .. k
        PROVE  q \in Block(text, from)
    <3>1. q \in from .. Len(text) /\ \A r \in from .. q : r \in from .. k
      BY <1>1, <2>2
    <3> QED
      BY <2>1, <3>1
  <2>3. ASSUME q \in Block(text, from), q \notin from .. k
        PROVE  FALSE
    <3>1. q \in Nat /\ q > k /\ q <= Len(text) /\ k # Len(text)
      BY <1>1, <2>1, <2>3
    <3>2. k + 1 \in from .. q
      BY <1>1, <3>1
    <3> QED
      BY <2>1, <2>3, <3>1, <3>2
  <2> QED
    BY <2>2, <2>3
<1>3. Block(text, from) = from .. k
  <2>1. \A q \in Block(text, from) : q \in from .. k
    BY <1>2
  <2> QED
    BY <1>2, <2>1
<1>4. \A key : Says(text, from, key) = Said(text, from, k, key)
  BY <1>3 DEF Says, Said
<1> QED
  BY <1>4 DEF CoreAt, CoreSaid

\* At the end of a block, or of the lines, its core is counted.
LEMMA BlockCounts ==
    ASSUME NEW text \in Seq(Line), NEW k \in 0 .. Len(text), NEW s, NEW from,
           Scanned(text, s, k, from), k = Len(text) \/ text[k + 1] = EmptyLine
    PROVE  Counted(Cores(text), Flushed(s), k + 2)
<1>1. /\ from \in 1 .. k + 1 /\ (from = 1 \/ text[from - 1] = EmptyLine)
      /\ \A q \in from .. k : text[q] # EmptyLine
      /\ s.cur \in Kind /\ s.cur = CoreSaid(text, from, k)
      /\ Counted(Cores(text), s, from)
  BY DEF Scanned
<1>2. k \in Nat /\ from \in Nat /\ k + 2 \in Nat /\ from < k + 2 /\ Len(text) \in Nat /\ k <= Len(text)
  BY <1>1
<1>3. CoreAt(text, from) = s.cur
  BY <1>1, BlockSays
<1>4. OneBlock(Cores(text), s.cur, from, k + 2)
  <2>1. ASSUME NEW p \in DOMAIN Cores(text), from < p, p < k + 2
        PROVE  FALSE
    <3>1. p \in 1 .. Len(text) /\ (p = 1 \/ text[p - 1] = EmptyLine)
      BY CoresAre
    <3>2. p \in Nat /\ p # 1 /\ p - 1 \in from .. k
      BY <1>1, <1>2, <2>1, <3>1
    <3> QED
      BY <1>1, <3>1, <3>2
  <2>2. ASSUME from \notin 1 .. Len(text)
        PROVE  s.cur = NoCore
    <3>1. from = k + 1
      BY <1>1, <1>2, <2>2
    <3> QED
      BY <1>1, <1>2, <3>1, SaidNothing
  <2>3. from \in DOMAIN Cores(text) <=> s.cur.impl # "" /\ s.cur.part # ""
    <3>2. CASE from \in 1 .. Len(text)
      <4>1. from \in DOMAIN Cores(text) <=> CoreAt(text, from).impl # "" /\ CoreAt(text, from).part # ""
        BY <1>1, <3>2, CoresAre
      <4> QED
        BY <1>3, <4>1
    <3>3. CASE from \notin 1 .. Len(text)
      <4>1. s.cur.impl = ""
        BY <2>2, <3>3, NothingSaid
      <4>2. from \notin DOMAIN Cores(text)
        BY <3>3, CoresAre
      <4> QED
        BY <4>1, <4>2
    <3> QED
      BY <3>2, <3>3
  <2>4. from \in DOMAIN Cores(text) => Cores(text)[from] = s.cur
    BY <1>3, CoresAre
  <2> QED
    BY <2>1, <2>3, <2>4 DEF OneBlock
<1>5. Numbered(Cores(text))
  BY CoresAre
<1> QED
  BY <1>1, <1>2, <1>4, <1>5, FlushedCounts

\* One more line.
LEMMA LineScanned ==
    ASSUME NEW text \in Seq(Line), NEW k \in 1 .. Len(text), NEW s, NEW from,
           Scanned(text, s, k - 1, from)
    PROVE  \E next : Scanned(text, ScanLine(s, text[k]), k, next)
<1>1. /\ from \in 1 .. k /\ (from = 1 \/ text[from - 1] = EmptyLine)
      /\ \A q \in from .. k - 1 : text[q] # EmptyLine
      /\ s.cur \in Kind /\ s.cur = CoreSaid(text, from, k - 1)
      /\ Counted(Cores(text), s, from)
  <2>1. k - 1 + 1 = k
    OBVIOUS
  <2> QED
    BY <2>1 DEF Scanned
<1>2. /\ k \in Nat /\ from \in Nat /\ k - 1 \in 0 .. Len(text) /\ k - 1 + 2 = k + 1
      /\ k - 1 + 1 = k /\ text[k] \in Line
  BY <1>1
<1>3. s = [cur |-> s.cur, order |-> s.order, counts |-> s.counts]
  BY <1>1 DEF Counted
<1>4. CASE text[k] = EmptyLine
  <2>1. PICK f : f = Flushed(s)
    OBVIOUS
  <2>2. Counted(Cores(text), f, k + 1)
    BY <1>2, <1>4, <2>1, BlockCounts
  <2>3. PICK g : g = ScanLine(s, text[k])
    OBVIOUS
  <2>4. g = [f EXCEPT !.cur = NoCore]
    <3>1. text[k][1] = ""
      BY <1>4, NothingSaid
    <3> QED
      BY <1>4, <2>1, <2>3, <3>1 DEF ScanLine, NextCore
  <2>5. /\ g = [cur |-> NoCore, order |-> f.order, counts |-> f.counts]
        /\ g.cur = NoCore /\ g.order = f.order /\ g.counts = f.counts
    <3>1. f = [cur |-> f.cur, order |-> f.order, counts |-> f.counts]
      BY <2>2 DEF Counted
    <3> QED
      BY <2>4, <3>1
  <2>6. Counted(Cores(text), g, k + 1)
    <3>1. g = [cur |-> g.cur, order |-> g.order, counts |-> g.counts]
      BY <2>5
    <3> QED
      BY <2>2, <2>5, <3>1, SameCounts
  <2>7. NoCore \in Kind /\ NoCore = CoreSaid(text, k + 1, k)
    <3>1. NoCore \in Kind
      BY NothingSaid
    <3> QED
      BY <1>2, <3>1, SaidNothing
  <2>8. k + 1 \in 1 .. k + 1 /\ k + 1 .. k = {} /\ k + 1 - 1 = k
    BY <1>2
  <2>9. Scanned(text, g, k, k + 1)
    BY <1>4, <2>5, <2>6, <2>7, <2>8 DEF Scanned
  <2> QED
    BY <2>3, <2>9
<1>5. CASE text[k] # EmptyLine
  <2>1. PICK g : g = ScanLine(s, text[k])
    OBVIOUS
  <2>2. PICK key, value : /\ key = text[k][1] /\ value = text[k][2]
                          /\ key \in STRING /\ value \in STRING
    BY <1>2 DEF Line
  <2>3. CoreSaid(text, from, k)
           = [impl |-> IF key = "CPU implementer" THEN value ELSE s.cur.impl,
              part |-> IF key = "CPU part" THEN value ELSE s.cur.part]
    <3>1. \A any : Said(text, from, k, any)
                      = IF key = any THEN value ELSE Said(text, from, k - 1, any)
      BY <1>1, <2>2, SaidNext
    <3>2. /\ s.cur.impl = Said(text, from, k - 1, "CPU implementer")
          /\ s.cur.part = Said(text, from, k - 1, "CPU part")
      <4>1. PICK core, impl, part :
               /\ core = s.cur /\ core = [impl |-> impl, part |-> part]
               /\ impl = Said(text, from, k - 1, "CPU implementer")
               /\ part = Said(text, from, k - 1, "CPU part")
        BY <1>1 DEF CoreSaid
      <4>1a. core = [impl |-> impl, part |-> part]
        BY <4>1
      <4>2. core.impl = impl /\ core.part = part
        BY ONLY <4>1a
      <4> QED
        BY <4>1, <4>2
    <3> QED
      BY <3>1, <3>2 DEF CoreSaid
  <2>4. /\ g = [cur |-> g.cur, order |-> s.order, counts |-> s.counts]
        /\ g.cur = [impl |-> IF key = "CPU implementer" THEN value ELSE s.cur.impl,
                    part |-> IF key = "CPU part" THEN value ELSE s.cur.part]
    <3>0. s.cur = [impl |-> s.cur.impl, part |-> s.cur.part]
      BY <1>1 DEF Kind
    <3>1. CASE key = "CPU implementer"
      <4>1. g = [s EXCEPT !.cur.impl = value]
        BY <1>5, <2>1, <2>2, <3>1 DEF ScanLine
      <4> QED
        BY <1>3, <3>0, <3>1, <4>1
    <3>2. CASE key = "CPU part"
      <4>1. g = [s EXCEPT !.cur.part = value]
        BY <1>5, <2>1, <2>2, <3>2 DEF ScanLine
      <4> QED
        BY <1>3, <3>0, <3>2, <4>1
    <3>3. CASE key \notin {"CPU implementer", "CPU part"}
      <4>1. g = s
        BY <1>5, <2>1, <2>2, <3>3 DEF ScanLine
      <4> QED
        BY <1>3, <3>0, <3>3, <4>1
    <3> QED
      BY <3>1, <3>2, <3>3
  <2>5. g.cur \in Kind
    <3>0. PICK Text : Text = STRING \cup {""}
      OBVIOUS
    <3>1. s.cur.impl \in Text /\ s.cur.part \in Text /\ value \in Text
      BY <1>1, <2>2, <3>0 DEF Kind
    <3>2. PICK impl \in Text, part \in Text : g.cur = [impl |-> impl, part |-> part]
      BY <2>2, <2>4, <3>1
    <3>3. g.cur \in [impl : Text, part : Text]
      BY ONLY <3>2, impl \in Text, part \in Text
    <3>4. [impl : Text, part : Text] = Kind
      BY ONLY <3>0, Zenon DEF Kind
    <3> QED
      BY ONLY <3>3, <3>4
  <2>6. Counted(Cores(text), g, from)
    <3>1. g.order = s.order /\ g.counts = s.counts
      <4>1. PICK cur, order, counts : /\ order = s.order /\ counts = s.counts
                                      /\ g = [cur |-> cur, order |-> order, counts |-> counts]
        BY <2>4
      <4>2. g.order = order /\ g.counts = counts
        BY ONLY <4>1
      <4> QED
        BY <4>1, <4>2
    <3>2. g = [cur |-> g.cur, order |-> g.order, counts |-> g.counts]
      BY <2>4, <3>1
    <3> QED
      BY <1>1, <3>1, <3>2, SameCounts
  <2>7. from \in 1 .. k + 1 /\ \A q \in from .. k : q = k \/ q \in from .. k - 1
    BY <1>1, <1>2
  <2>8. Scanned(text, g, k, from)
    BY <1>1, <1>5, <2>3, <2>4, <2>5, <2>6, <2>7 DEF Scanned
  <2> QED
    BY <2>1, <2>8
<1> QED
  BY <1>4, <1>5

\* The topology counts all cores.
LEMMA TopologyCounts ==
    ASSUME NEW text \in Seq(Line)
    PROVE  \E s : /\ Counted(Cores(text), s, Len(text) + 2)
                  /\ Topology(text) = [i \in DOMAIN s.order |->
                        [count |-> s.counts[s.order[i]], core |-> ArmCoreName(s.order[i])]]
<1> DEFINE n == Len(text)
<1>1. n \in Nat
  OBVIOUS
<1>2. PICK scan : /\ scan[0] = Scan0
                  /\ \A k \in 1 .. n : scan[k] = ScanLine(scan[k - 1], text[k])
                  /\ FoldLeft(ScanLine, Scan0, text) = scan[n]
  BY ScanByLine
<1> DEFINE Bad == {k \in 0 .. n : ~\E from : Scanned(text, scan[k], k, from)}
<1>3. 0 \notin Bad
  <2>1. Scan0.cur = NoCore /\ Scan0.order = <<>> /\ Scan0.counts = <<>>
    BY DEF Scan0
  <2>2. NoCore \in Kind /\ NoCore = CoreSaid(text, 1, 0)
    <3>1. CoreSaid(text, 0 + 1, 0) = NoCore
      BY SaidNothing
    <3>2. 0 + 1 = 1
      OBVIOUS
    <3>3. NoCore \in Kind
      BY NothingSaid
    <3> QED
      BY <3>1, <3>2, <3>3
  <2>3. {p \in DOMAIN Cores(text) : p < 1} = {}
    <3>1. \A p \in DOMAIN Cores(text) : p \in 1 .. n
      BY CoresAre
    <3>2. \A p \in 1 .. n : ~(p < 1)
      BY <1>1
    <3> QED
      BY <3>1, <3>2
  <2>4. /\ <<>> \in Seq(Kind) /\ Len(<<>>) = 0 /\ DOMAIN <<>> = {} /\ 1 .. 0 = {}
    OBVIOUS
  <2>5. Counted(Cores(text), Scan0, 1)
    BY <2>1, <2>3, <2>4 DEF Counted, CountsOf, InTurn, Scan0
  <2>6. Scanned(text, Scan0, 0, 1)
    BY <2>1, <2>2, <2>4, <2>5 DEF Scanned
  <2> QED
    BY <1>2, <2>6
<1>4. ASSUME NEW k \in 1 .. n, k - 1 \notin Bad
      PROVE  k \notin Bad
  <2>1. k - 1 \in 0 .. n
    BY <1>1
  <2>2. PICK from : Scanned(text, scan[k - 1], k - 1, from)
    BY <1>4, <2>1
  <2>3. \E next : Scanned(text, ScanLine(scan[k - 1], text[k]), k, next)
    BY <2>2, LineScanned
  <2> QED
    BY <1>2, <2>3
<1>5. Bad = {}
  <2> SUFFICES ASSUME Bad # {}
               PROVE  FALSE
    OBVIOUS
  <2>1. Bad \in SUBSET Nat /\ Bad \in SUBSET (0 .. n)
    OBVIOUS
  <2> HIDE DEF Bad
  <2>2. PICK k \in Bad : \A l \in Bad : k <= l
    BY <2>1, LeastNatural
  <2>3. k \in 0 .. n /\ k # 0
    BY <1>3, <2>1, <2>2
  <2>4. k \in 1 .. n /\ k - 1 \notin Bad
    <3>1. k \in Nat /\ k - 1 < k
      BY <2>3
    <3> QED
      BY <1>1, <2>1, <2>2, <2>3, <3>1
  <2> QED
    BY <1>4, <2>2, <2>4
<1>6. n \in 0 .. n
  BY <1>1
<1>7. PICK from : Scanned(text, scan[n], n, from)
  BY <1>5, <1>6
<1>8. Counted(Cores(text), Flushed(scan[n]), n + 2)
  BY <1>6, <1>7, BlockCounts
<1>9. Topology(text) = [i \in DOMAIN Flushed(scan[n]).order |->
         [count |-> Flushed(scan[n]).counts[Flushed(scan[n]).order[i]],
          core |-> ArmCoreName(Flushed(scan[n]).order[i])]]
  BY <1>2 DEF Topology, Scan0
<1> QED
  BY <1>8, <1>9

\* The kinds that the topology shows, and their order.
ShowsCores(shown, cores) ==
    LET Of(kind) == {p \in DOMAIN cores : cores[p] = kind} IN
    \E kinds \in [DOMAIN shown -> Range(cores)] :
        /\ Range(kinds) = Range(cores)
        /\ \A j \in DOMAIN shown :
              shown[j] = [count |-> Cardinality(Of(kinds[j])), core |-> ArmCoreName(kinds[j])]
        /\ \A i, j \in DOMAIN shown : i < j => Min(Of(kinds[i])) < Min(Of(kinds[j]))

LEMMA TopologyShows ==
    ASSUME NEW text \in Seq(Line)
    PROVE  ShowsCores(Topology(text), Cores(text))
<1>1. PICK cores, shown, n : cores = Cores(text) /\ shown = Topology(text) /\ n = Len(text) + 2
  OBVIOUS
<1> DEFINE Of(kind) == {p \in DOMAIN cores : cores[p] = kind}
<1>2. PICK s : /\ Counted(cores, s, n)
               /\ shown = [i \in DOMAIN s.order |->
                     [count |-> s.counts[s.order[i]], core |-> ArmCoreName(s.order[i])]]
  BY <1>1, TopologyCounts
<1>3. Numbered(cores) /\ \A p \in DOMAIN cores : p < n
  <2>1. Numbered(cores) /\ \A p \in DOMAIN cores : p \in 1 .. Len(text)
    BY <1>1, CoresAre
  <2>2. Len(text) \in Nat /\ \A p \in 1 .. Len(text) : p < Len(text) + 2
    OBVIOUS
  <2> QED
    BY <1>1, <2>1, <2>2
<1>4. PICK F : F = {p \in DOMAIN cores : p < n}
  OBVIOUS
<1>5. F = DOMAIN cores
  BY <1>3, <1>4
<1>6. PICK kinds, counts : kinds = s.order /\ counts = s.counts
  OBVIOUS
<1>7. /\ kinds \in Seq(Kind)
      /\ DOMAIN counts = {cores[p] : p \in F}
      /\ DOMAIN counts = {kinds[i] : i \in 1 .. Len(kinds)}
      /\ CountsOf(cores, F, counts) /\ InTurn(cores, F, kinds)
  BY <1>2, <1>4, <1>6 DEF Counted
<1>8. DOMAIN kinds = 1 .. Len(kinds) /\ kinds = [i \in DOMAIN kinds |-> kinds[i]]
  BY <1>7
<1>9. /\ shown = [i \in DOMAIN kinds |->
                     [count |-> counts[kinds[i]], core |-> ArmCoreName(kinds[i])]]
      /\ DOMAIN shown = DOMAIN kinds
  BY <1>2, <1>6
<1>10. kinds \in [DOMAIN shown -> Range(cores)] /\ Range(kinds) = Range(cores)
  <2>1. \A i \in DOMAIN kinds : kinds[i] \in Range(cores)
    BY <1>5, <1>7, <1>8 DEF Range
  <2>2. Range(kinds) = Range(cores)
    BY <1>5, <1>7, <1>8 DEF Range
  <2> QED
    BY <1>8, <1>9, <2>1, <2>2
<1>11. ASSUME NEW j \in DOMAIN shown
       PROVE  shown[j] = [count |-> Cardinality(Of(kinds[j])), core |-> ArmCoreName(kinds[j])]
  <2>1. kinds[j] \in DOMAIN counts
    BY <1>7, <1>8, <1>9
  <2>2. counts[kinds[j]] = Cardinality(Of(kinds[j]))
    BY <1>5, <1>7, <2>1 DEF CountsOf
  <2> HIDE DEF Of
  <2> QED
    BY <1>9, <2>2
<1>12. ASSUME NEW i \in DOMAIN shown, NEW j \in DOMAIN shown, i < j
       PROVE  Min(Of(kinds[i])) < Min(Of(kinds[j]))
  <2>1. PICK p \in DOMAIN cores : /\ cores[p] = kinds[i]
                                  /\ \A q \in DOMAIN cores : cores[q] = kinds[j] => p < q
    BY <1>5, <1>7, <1>8, <1>9, <1>12 DEF InTurn
  <2>2. \E q \in DOMAIN cores : cores[q] = kinds[j]
    <3>1. j \in 1 .. Len(kinds)
      BY <1>8, <1>9
    <3>2. kinds[j] \in DOMAIN counts
      BY <1>7, <3>1
    <3>3. kinds[j] \in {cores[q] : q \in DOMAIN cores}
      BY <1>5, <1>7, <3>2
    <3> QED
      BY ONLY <3>3
  <2>3. /\ Of(kinds[i]) \in SUBSET Nat /\ p \in Of(kinds[i])
        /\ Of(kinds[j]) \in SUBSET Nat /\ Of(kinds[j]) # {}
    BY <1>3, <2>1, <2>2 DEF Numbered
  <2>4. PICK a, b : a = Min(Of(kinds[i])) /\ b = Min(Of(kinds[j]))
    OBVIOUS
  <2>5. a \in Nat /\ a <= p /\ b \in Of(kinds[j])
    <3> HIDE DEF Of
    <3> QED
      BY <2>3, <2>4, MinIs
  <2>6. p \in Nat /\ b \in Nat /\ p < b
    BY <2>1, <2>3, <2>5
  <2>7. a < b
    BY <2>5, <2>6
  <2> QED
    BY <2>4, <2>7
<1>13. ShowsCores(shown, cores)
  BY <1>10, <1>11, <1>12 DEF ShowsCores
<1> QED
  BY <1>1, <1>13

\* Nothing but the topology is shown for a CPU without a name.
LEMMA TopologyShown ==
    ASSUME NEW host, host.os = "linux", LinuxCPUModel(host.cpuinfo) = ""
    PROVE  DetectCPUModel(host).cores = Topology(host.cpuinfo)
<1>1. PICK none, topo, name, bare, board :
         /\ none = "" /\ topo = Topology(host.cpuinfo) /\ name = LinuxCPUModel(host.cpuinfo)
         /\ bare = (host.board = none /\ topo = <<>>) /\ board = host.board
  OBVIOUS
<1>2. DetectCPUModel(host)
         = CASE host.os # "linux" -> [name |-> "unknown", cores |-> <<>>]
             [] host.os = "linux" /\ name # none -> [name |-> name, cores |-> <<>>]
             [] host.os = "linux" /\ name = none /\ (board # none \/ topo # <<>>) ->
                   [name |-> board, cores |-> topo]
             [] OTHER -> [name |-> "unknown", cores |-> <<>>]
  BY <1>1 DEF DetectCPUModel
<1>3. host.os = "linux" /\ name = none
  BY <1>1
<1>4. DetectCPUModel(host)
         = IF board # none \/ topo # <<>> THEN [name |-> board, cores |-> topo]
                                         ELSE [name |-> "unknown", cores |-> <<>>]
  BY ONLY <1>2, <1>3
<1>5. DetectCPUModel(host).cores = IF board # none \/ topo # <<>> THEN topo ELSE <<>>
  <2>1. PICK d : d = DetectCPUModel(host)
    OBVIOUS
  <2>2. d = IF board # none \/ topo # <<>> THEN [name |-> board, cores |-> topo]
                                          ELSE [name |-> "unknown", cores |-> <<>>]
    BY <1>4, <2>1
  <2>3. d.cores = IF board # none \/ topo # <<>> THEN topo ELSE <<>>
    BY ONLY <2>2
  <2> QED
    BY <2>1, <2>3
<1>6. DetectCPUModel(host).cores = topo
  BY ONLY <1>5
<1> QED
  BY <1>1, <1>6

\* On a machine whose CPU has no name, what was written counts its cores.
THEOREM CliCoresCounted == Spec => []CoresCounted
<1>1. IInv => CoresCounted
  <2>1. ASSUME IInv, machine.host.os = "linux", LinuxCPUModel(machine.host.cpuinfo) = "",
               NEW k \in DOMAIN stdout
        PROVE  ShowsCores(stdout[k].cpu.cores, Cores(machine.host.cpuinfo))
    <3>1. machine.host.cpuinfo \in Seq(Line)
      <4>1. machine \in Machines
        BY <2>1 DEF IInv, Types
      <4>2. machine.host \in Host
        BY <4>1, CliAssumption
      <4> QED
        BY <4>2 DEF Host, Line
    <3>2. stdout[k].cpu = DetectCPUModel(machine.host)
      <4>1. stdout = [i \in 1 .. Len(Kinds) |-> Paper(Kinds[i])]
        BY <2>1 DEF IInv, Papers
      <4>2. stdout[k] = Paper(Kinds[k])
        BY <4>1
      <4>3. Table.cpu = DetectCPUModel(machine.host) /\ Document.cpu = DetectCPUModel(machine.host)
        BY ONLY TRUE DEF Table, Document
      <4>4. stdout[k] \in {Table, Document}
        BY <4>2 DEF Paper
      <4> QED
        BY <4>3, <4>4
    <3>3. stdout[k].cpu.cores = Topology(machine.host.cpuinfo)
      BY <2>1, <3>2, TopologyShown
    <3> QED
      BY <3>1, <3>3, TopologyShows
  <2> QED
    BY <2>1 DEF CoresCounted, ShowsCores
<1> QED
  BY <1>1, CliInvariance, PTL
-----------------------------------------------------------------------------
(* The rows of the table.                                                  *)

\* The digits of less than ten tens are digits.
LEMMA DigitsAre ==
    ASSUME NEW n \in 0 .. 59
    PROVE  /\ Len(Digits(n)) \in 1 .. 2
           /\ Len(Digits(n)) = 2 => Digits(n)[1] # "-"
<1>1. CASE n < 10
  BY <1>1 DEF Digits
<1>2. CASE ~(n < 10)
  <2>1. Digits(n) = <<Digit(n \div 10), Digit(n % 10)>>
    BY <1>2 DEF Digits
  <2>2. Len(Digits(n)) = 2 /\ Digits(n)[1] = Digit(n \div 10)
    BY <2>1
  <2>3. PICK d : d = n \div 10
    OBVIOUS
  <2>4. d \in 1 .. 5
    BY <1>2, <2>3
  <2>5. Digit(d) \in {"1", "2", "3", "4", "5"}
    <3>1. /\ Digit(1) = "1" /\ Digit(2) = "2" /\ Digit(3) = "3" /\ Digit(4) = "4" /\ Digit(5) = "5"
      BY DEF Digit
    <3>2. d = 1 \/ d = 2 \/ d = 3 \/ d = 4 \/ d = 5
      BY <2>4
    <3> QED
      BY <3>1, <3>2
  <2> QED
    BY <2>2, <2>3, <2>5
<1> QED
  BY <1>1, <1>2

LEMMA Shorts ==
    ASSUME NEW X, NEW x \in X, NEW y \in X
    PROVE  /\ <<x>> \in Seq(X) /\ Len(<<x>>) = 1
           /\ <<x, y>> \in Seq(X) /\ Len(<<x, y>>) = 2
           /\ <<>> \in Seq(X) /\ Len(<<>>) = 0
OBVIOUS

\* Four texts one after the other.
LEMMA Joined ==
    ASSUME NEW X, NEW a \in Seq(X), NEW b \in Seq(X), NEW c \in Seq(X), NEW d \in Seq(X)
    PROVE  LET all == a \o b \o c \o d IN
           /\ all \in Seq(X) /\ Len(all) = Len(a) + Len(b) + Len(c) + Len(d)
           /\ a = <<>> /\ Len(b) >= 1 => all[1] = b[1]
<1>1. PICK ab, abc, all : ab = a \o b /\ abc = ab \o c /\ all = abc \o d
  OBVIOUS
<1>2. /\ ab \in Seq(X) /\ Len(ab) = Len(a) + Len(b) /\ Len(ab) \in Nat
      /\ a = <<>> /\ Len(b) >= 1 => ab[1] = b[1] /\ Len(ab) >= 1
  <2>1. ab = a \o b /\ a \in Seq(X) /\ b \in Seq(X)
    BY <1>1
  <2> QED
    BY ONLY <2>1
<1>3. /\ abc \in Seq(X) /\ Len(abc) = Len(ab) + Len(c) /\ Len(abc) \in Nat
      /\ Len(ab) >= 1 => abc[1] = ab[1] /\ Len(abc) >= 1
  <2>1. abc = ab \o c /\ ab \in Seq(X) /\ c \in Seq(X)
    BY <1>1, <1>2
  <2> QED
    BY ONLY <2>1
<1>4. /\ all \in Seq(X) /\ Len(all) = Len(abc) + Len(d)
      /\ Len(abc) >= 1 => all[1] = abc[1]
  <2>1. all = abc \o d /\ abc \in Seq(X) /\ d \in Seq(X)
    BY <1>1, <1>3
  <2> QED
    BY ONLY <2>1
<1>5. all = a \o b \o c \o d
  BY <1>1
<1>6. /\ all \in Seq(X) /\ Len(all) = Len(a) + Len(b) + Len(c) + Len(d)
      /\ a = <<>> /\ Len(b) >= 1 => all[1] = b[1]
  BY <1>2, <1>3, <1>4
<1> QED
  BY <1>5, <1>6

\* A text of two characters or more, or of three that does not begin like a
\* dash, is no dash without its last two.
LEMMA NoDashLeft ==
    ASSUME NEW X, NEW t \in Seq(X), Len(t) >= 2, Len(t) = 3 => t[1] # "-", NEW suffix, Len(suffix) = 2
    PROVE  TrimSuffix(t, suffix) # Dash
<1>1. PICK n \in Nat : n = Len(t)
  OBVIOUS
<1>2. PICK dash : dash = "-"
  OBVIOUS
<1>3. /\ Dash = <<dash>> /\ Len(Dash) = 1 /\ Dash[1] = dash
  BY <1>2 DEF Dash
<1>4. t # Dash
  BY <1>1, <1>3
<1>5. SubSeq(t, 1, n - 2) # Dash
  <2>1. n - 2 \in Nat /\ n >= 2
    BY <1>1
  <2>2. PICK s : s = SubSeq(t, 1, n - 2)
    OBVIOUS
  <2>3. Len(s) = n - 2 /\ \A k \in 1 .. n - 2 : s[k] = t[k]
    BY <1>1, <2>1, <2>2
  <2>4. s = Dash => n = 3 /\ t[1] = dash
    BY <1>3, <2>1, <2>3
  <2> QED
    BY <1>1, <1>2, <2>2, <2>4
<1> QED
  BY <1>1, <1>4, <1>5 DEF TrimSuffix

\* A timing above zero does not read like none.
LEMMA DashIsZero ==
    ASSUME NEW t \in Nat
    PROVE  FormatDuration(t) = Dash <=> t = 0
<1>1. CASE t = 0
  BY <1>1 DEF FormatDuration
<1>2. CASE t > 0
  <2> DEFINE d == DurationString(t)
  <2>1. \E X : d \in Seq(X) /\ Len(d) >= 2 /\ (Len(d) = 3 => d[1] # "-")
    <3>1. CASE t < Second
      <4>1. d = <<ToString(t), "ms">>
        BY <3>1 DEF DurationString
      <4>2. PICK x, y : x = ToString(t) /\ y = "ms"
        OBVIOUS
      <4>3. d = <<x, y>>
        BY <4>1, <4>2
      <4>4. d \in Seq({x, y}) /\ Len(d) = 2
        BY ONLY <4>3
      <4> QED
        BY <4>4
    <3>2. CASE ~(t < Second)
      <4> DEFINE minutes  == t \div (60 * Second)
                 seconds  == (t \div Second) % 60
                 fraction == t % Second
      <4>1. PICK x1, x2, x3, x4, x5, x6, x7, x8 :
               /\ x1 = Digit(minutes) /\ x2 = Digit(minutes \div 10) /\ x3 = Digit(minutes % 10)
               /\ x4 = Digit(seconds) /\ x5 = Digit(seconds \div 10) /\ x6 = Digit(seconds % 10)
               /\ x7 = ToString(fraction) /\ x8 = {"m", ".", "s"}
        OBVIOUS
      <4>2. PICK X : X = {x1, x2, x3, x4, x5, x6, x7} \cup x8
        OBVIOUS
      <4>3. PICK a, b, c, e : /\ a = IF minutes > 0 THEN Digits(minutes) \o <<"m">> ELSE <<>>
                              /\ b = Digits(seconds)
                              /\ c = IF fraction > 0 THEN <<".", ToString(fraction)>> ELSE <<>>
                              /\ e = <<"s">>
        OBVIOUS
      <4>4. d = a \o b \o c \o e
        BY <3>2, <4>3 DEF DurationString
      <4>5. seconds \in 0 .. 59 /\ minutes \in Nat
        <5>1. Second \in Nat \ {0}
          BY OutputAssumption
        <5>2. t \div Second \in Nat /\ 60 * Second \in Nat \ {0}
          BY <5>1
        <5>3. (t \div Second) % 60 \in 0 .. 59
          BY <5>2
        <5>4. t \div (60 * Second) \in Nat
          BY <5>2
        <5> QED
          BY <5>3, <5>4
      <4> HIDE DEF minutes, seconds, fraction, d
      <4>6. b \in Seq(X) /\ Len(b) \in 1 .. 2 /\ (Len(b) = 2 => b[1] # "-")
        <5>1. b = <<x4>> \/ b = <<x5, x6>>
          BY <4>1, <4>3 DEF Digits
        <5>2. x4 \in X /\ x5 \in X /\ x6 \in X
          BY <4>2
        <5>3. b \in Seq(X)
          BY <5>1, <5>2, Shorts
        <5> QED
          BY <4>3, <4>5, <5>3, DigitsAre
      <4>7. a \in Seq(X) /\ (a = <<>> \/ Len(a) >= 2)
        <5>1. PICK m : m = "m"
          OBVIOUS
        <5>2. x1 \in X /\ x2 \in X /\ x3 \in X /\ m \in X
          BY <4>1, <4>2, <5>1
        <5>3. PICK f : f = Digits(minutes)
          OBVIOUS
        <5>4. f = <<x1>> \/ f = <<x2, x3>>
          BY <4>1, <5>3 DEF Digits
        <5>5. a = <<>> \/ a = f \o <<m>>
          BY <4>3, <5>1, <5>3
        <5>6. f \in Seq(X) /\ Len(f) >= 1 /\ Len(f) \in Nat
          <6>1. /\ <<x1>> \in Seq(X) /\ Len(<<x1>>) = 1
                /\ <<x2, x3>> \in Seq(X) /\ Len(<<x2, x3>>) = 2
            BY <5>2, Shorts
          <6>2. CASE f = <<x1>>
            BY <6>1, <6>2
          <6>3. CASE f = <<x2, x3>>
            BY <6>1, <6>3
          <6> QED
            BY <5>4, <6>2, <6>3
        <5>7. PICK g : g = <<m>>
          OBVIOUS
        <5>8. g \in Seq(X) /\ Len(g) = 1
          BY <5>2, <5>7, Shorts
        <5>9. f \o g \in Seq(X) /\ Len(f \o g) >= 2
          BY ONLY <5>6, <5>8
        <5> QED
          <6>1. <<>> \in Seq(X)
            OBVIOUS
          <6>2. CASE a = <<>>
            BY <6>1, <6>2
          <6>3. CASE a = f \o g
            BY <5>9, <6>3
          <6> QED
            BY <5>5, <5>7, <6>2, <6>3
      <4>8. c \in Seq(X) /\ Len(c) \in {0, 2}
        <5>1. PICK dot : dot = "."
          OBVIOUS
        <5>2. x7 \in X /\ dot \in X
          BY <4>1, <4>2, <5>1
        <5>3. c = <<dot, x7>> \/ c = <<>>
          BY <4>1, <4>3, <5>1
        <5> QED
          BY <5>2, <5>3, Shorts
      <4>9. e \in Seq(X) /\ Len(e) = 1
        <5>1. PICK x : x = "s"
          OBVIOUS
        <5>2. x \in X /\ e = <<x>>
          BY <4>1, <4>2, <4>3, <5>1
        <5> QED
          BY ONLY <5>2
      <4>10. /\ d \in Seq(X) /\ Len(d) = Len(a) + Len(b) + Len(c) + Len(e)
             /\ a = <<>> /\ Len(b) >= 1 => d[1] = b[1]
        <5>1. a \in Seq(X) /\ b \in Seq(X) /\ c \in Seq(X) /\ e \in Seq(X)
          BY <4>6, <4>7, <4>8, <4>9
        <5>2. PICK all : all = a \o b \o c \o e
          OBVIOUS
        <5>3. /\ all \in Seq(X) /\ Len(all) = Len(a) + Len(b) + Len(c) + Len(e)
              /\ a = <<>> /\ Len(b) >= 1 => all[1] = b[1]
          BY ONLY <5>1, <5>2, Joined
        <5> QED
          BY <4>4, <5>2, <5>3
      <4>11. PICK la, lb, lc : la = Len(a) /\ lb = Len(b) /\ lc = Len(c)
        OBVIOUS
      <4>12. la \in Nat /\ lb \in 1 .. 2 /\ lc \in {0, 2} /\ (a = <<>> => la = 0) /\ (a # <<>> => la >= 2)
        BY <4>6, <4>7, <4>8, <4>11
      <4>13. Len(d) = la + lb + lc + 1
        BY <4>9, <4>10, <4>11
      <4>14. Len(d) >= 2 /\ (Len(d) = 3 => a = <<>> /\ lb = 2)
        BY <4>12, <4>13
      <4> QED
        BY <4>6, <4>10, <4>11, <4>14
    <3> QED
      BY <3>1, <3>2
  <2>2. PICK suffix : suffix = <<"0", "s">>
    OBVIOUS
  <2>3. Len(suffix) = 2
    BY <2>2
  <2>4. FormatDuration(t) = TrimSuffix(d, suffix)
    BY <1>2, <2>2 DEF FormatDuration
  <2> HIDE DEF d
  <2>5. TrimSuffix(d, suffix) # Dash
    BY <2>1, <2>3, NoDashLeft
  <2> QED
    BY <1>2, <2>4, <2>5
<1> QED
  BY <1>1, <1>2

\* A position of the values in order holds one of them.
LEMMA OrderedIs ==
    ASSUME NEW values, IsFiniteSet(DOMAIN values), NEW k \in 0 .. Cardinality(DOMAIN values) - 1,
           \A b \in DOMAIN values : values[b] \in Nat
    PROVE  \E b \in DOMAIN values : Ordered(values, k) = values[b]
<1> DEFINE D       == DOMAIN values
           AtMost(b) == {c \in D : values[c] <= values[b]}
           C       == {b \in D : Cardinality(AtMost(b)) > k}
           V       == {values[b] : b \in C}
           All     == {values[b] : b \in D}
<1>1. Ordered(values, k) = Min(V)
  BY DEF Ordered
<1>2. IsFiniteSet(D) /\ Cardinality(D) \in Nat /\ k \in Nat /\ k < Cardinality(D)
  <2>1. Cardinality(D) \in Nat
    BY FS_CardinalityType
  <2> QED
    BY <2>1
<1>3. D # {}
  BY <1>2, FS_EmptySet
<1>4. All \in SUBSET Int /\ All # {} /\ IsFiniteSet(All)
  <2>1. All # {}
    BY <1>3
  <2>2. \A v \in All : v \in Int
    OBVIOUS
  <2>3. [b \in D |-> values[b]] \in Surjection(D, All)
    BY DEF Surjection
  <2>4. IsFiniteSet(All)
    <3> HIDE DEF D, All
    <3> QED
      BY <1>2, <2>3, FS_Surjection
  <2> QED
    BY <2>1, <2>2, <2>4
<1>5. PICK v \in All : \A w \in All : v >= w
  <2> HIDE DEF All
  <2> QED
    BY <1>4, GreatestInteger
<1>6. PICK b \in D : v = values[b]
  OBVIOUS
<1>7. AtMost(b) = D
  <2>1. \A c \in D : values[c] \in All /\ values[c] \in Nat /\ values[b] \in Nat
    OBVIOUS
  <2>2. \A c \in D : values[c] <= values[b]
    BY <1>5, <1>6, <2>1
  <2> QED
    BY <2>2
<1>8. b \in C
  BY <1>2, <1>7
<1>9. V \in SUBSET Nat /\ V # {}
  <2>1. \A w \in V : w \in Nat
    OBVIOUS
  <2> QED
    BY <1>8, <2>1
<1>10. Min(V) \in V
  <2> HIDE DEF V
  <2> QED
    BY <1>9, MinIs
<1> QED
  BY <1>1, <1>10

\* What a row shows: its median is no higher than its P99, and that is zero
\* if and only if no benchmark of the row did anything.
LEMMA TimingsAre ==
    ASSUME NEW names \in SUBSET Names, NEW byName,
           \A b \in names \cap DOMAIN byName : byName[b] \in Outcome /\ Plausible(byName[b])
    PROVE  /\ MedianOfMedians(names, byName) \in Nat /\ MaxP99(names, byName) \in Nat
           /\ MedianOfMedians(names, byName) <= MaxP99(names, byName)
           /\ MaxP99(names, byName) = 0 <=> \A b \in names \cap DOMAIN byName : byName[b].ops = 0
<1> DEFINE D   == names \cap DOMAIN byName
           P   == {byName[b].p99 : b \in D}
           all == {0} \cup P
<1>1. \A b \in D : /\ byName[b].ops \in Nat /\ byName[b].median \in Nat /\ byName[b].p99 \in Nat
                   /\ byName[b].median <= byName[b].p99
                   /\ byName[b].ops = 0 <=> byName[b].median = 0
                   /\ byName[b].ops = 0 => byName[b].p99 = 0
  BY DEF Outcome, Plausible
<1>2. IsFiniteSet(D)
  BY CategoriesFinite, FS_Subset
<1> HIDE DEF D
<1>3. IsFiniteSet(all) /\ all \in SUBSET Int /\ all # {}
  <2>1. [b \in D |-> byName[b].p99] \in Surjection(D, P)
    BY DEF Surjection
  <2>2. IsFiniteSet(P)
    <3> HIDE DEF P
    <3> QED
      BY <1>2, <2>1, FS_Surjection
  <2>3. IsFiniteSet({0} \cup P)
    <3>1. IsFiniteSet(P \cup {0}) /\ P \cup {0} = {0} \cup P
      <4> HIDE DEF P
      <4> QED
        BY <2>2, FS_AddElement
    <3> QED
      BY <3>1
  <2>4. \A v \in P : v \in Int
    BY <1>1
  <2> QED
    BY <2>3, <2>4
<1>4. PICK m \in all : \A v \in all : m >= v
  <2> HIDE DEF all
  <2> QED
    BY <1>3, GreatestInteger
<1>5. Max(all) = m
  <2> HIDE DEF all
  <2> QED
    BY <1>3, <1>4, MaxIs
<1>6. MaxP99(names, byName) = m
  BY <1>5 DEF MaxP99, D
<1>7. /\ m \in Nat /\ \A b \in D : byName[b].p99 <= m
      /\ m = 0 \/ \E b \in D : m = byName[b].p99
  <2>1. 0 \in all /\ \A b \in D : byName[b].p99 \in all
    OBVIOUS
  <2>2. m = 0 \/ m \in P
    BY <1>4
  <2> QED
    BY <1>1, <1>4, <2>1, <2>2
<1>8. m = 0 <=> \A b \in D : byName[b].ops = 0
  <2>1. ASSUME m = 0, NEW b \in D
        PROVE  byName[b].ops = 0
    BY <1>1, <1>7, <2>1
  <2>2. ASSUME \A b \in D : byName[b].ops = 0
        PROVE  m = 0
    BY <1>1, <1>7, <2>2
  <2> QED
    BY <2>1, <2>2
<1>9. MedianOfMedians(names, byName) \in Nat /\ MedianOfMedians(names, byName) <= m
  <2> DEFINE medians == [b \in D |-> byName[b].median]
             len     == Cardinality(DOMAIN medians)
  <2>1. MedianOfMedians(names, byName) = IF len = 0 THEN 0 ELSE Ordered(medians, len \div 2)
    BY DEF MedianOfMedians, D
  <2>2. DOMAIN medians = D /\ len \in Nat
    BY <1>2, FS_CardinalityType
  <2>3. CASE len = 0
    BY <1>7, <2>1, <2>3
  <2>4. CASE len # 0
    <3> HIDE DEF medians, len
    <3>1. len \div 2 \in 0 .. len - 1
      BY <2>2, <2>4
    <3>2. \A b \in DOMAIN medians : medians[b] = byName[b].median /\ medians[b] \in Nat
      BY <1>1, <2>2 DEF medians
    <3>3. PICK b \in DOMAIN medians : Ordered(medians, len \div 2) = medians[b]
      BY <1>2, <2>2, <3>1, <3>2, OrderedIs DEF len
    <3>4. medians[b] \in Nat /\ medians[b] <= m
      BY <1>1, <1>7, <2>2, <3>2
    <3> QED
      BY <2>1, <2>4, <3>3, <3>4
  <2> QED
    BY <2>3, <2>4
<1> QED
  BY <1>6, <1>7, <1>8, <1>9 DEF D

LEMMA NamesAreEight == \A S \in SUBSET Names : IsFiniteSet(S) /\ Cardinality(S) \in 0 .. 8
<1>1. IsFiniteSet(1 .. 8) /\ Cardinality(1 .. 8) = 8
  <2>1. /\ IsFiniteSet(1 .. 8)
        /\ Cardinality(1 .. 8) = IF 1 > 8 THEN 0 ELSE 8 - 1 + 1
    BY ONLY 1 \in Int, 8 \in Int, FS_Interval
  <2> QED
    BY <2>1
<1>2. Registry \in Surjection(1 .. 8, Names)
  <2>1. Registry \in [1 .. 8 -> Names] /\ \A b \in Names : \E k \in 1 .. 8 : b = Registry[k]
    BY RegistryIs
  <2> QED
    BY <2>1 DEF Surjection
<1>3. IsFiniteSet(Names) /\ Cardinality(Names) <= 8
  BY <1>1, <1>2, FS_Surjection
<1>4. ASSUME NEW S \in SUBSET Names
      PROVE  IsFiniteSet(S) /\ Cardinality(S) \in 0 .. 8
  <2>1. IsFiniteSet(S) /\ Cardinality(S) <= Cardinality(Names)
    BY <1>3, FS_Subset
  <2>2. Cardinality(S) \in Nat /\ Cardinality(Names) \in Nat
    BY <1>3, <2>1, FS_CardinalityType
  <2> QED
    BY <1>3, <2>1, <2>2
<1> QED
  BY <1>4

\* Where one value rises by eight, so does the sum.
LEMMA SumRises ==
    ASSUME NEW f, Summable(f), NEW g, Summable(g), DOMAIN g = DOMAIN f, NEW x \in DOMAIN f,
           \A y \in DOMAIN f : y # x => g[y] = f[y], g[x] >= f[x] + 8
    PROVE  SumFunction(g) >= SumFunction(f) + 8
<1> DEFINE others == [y \in DOMAIN f \ {x} |-> f[y]]
<1>1. DOMAIN others = DOMAIN f \ {x} /\ others = [y \in DOMAIN others |-> f[y]] /\ others = [y \in DOMAIN others |-> g[y]]
  OBVIOUS
<1> HIDE DEF others
<1>2. Summable(others) /\ SumFunction(f) = f[x] + SumFunction(others)
  BY <1>1, SumTakenOut
<1>3. SumFunction(g) = g[x] + SumFunction(others)
  BY <1>1, SumTakenOut
<1>4. SumFunction(others) \in Int /\ f[x] \in Int /\ g[x] \in Int
  BY <1>2, SumType DEF Summable
<1> QED
  BY <1>2, <1>3, <1>4

\* A mean of at most eight scores rises by one at least.
LEMMA MeanRises ==
    ASSUME NEW f, Summable(f), f \in [DOMAIN f -> Nat], NEW g, Summable(g), g \in [DOMAIN f -> Nat],
           Cardinality(DOMAIN f) <= 8, NEW x \in DOMAIN f,
           \A y \in DOMAIN f : y # x => g[y] = f[y], g[x] >= f[x] + 8
    PROVE  Mean(g) > Mean(f)
<1>1. DOMAIN g = DOMAIN f
  OBVIOUS
<1>2. PICK a, b, n : a = SumFunction(f) /\ b = SumFunction(g) /\ n = Cardinality(DOMAIN f)
  OBVIOUS
<1>3. b >= a + 8
  BY <1>1, <1>2, SumRises
<1>4. a \in Nat /\ b \in Nat
  BY <1>1, <1>2, SumOfNaturals
<1>5. n \in 1 .. 8
  <2>1. IsFiniteSet(DOMAIN f) /\ DOMAIN f # {}
    BY DEF Summable
  <2>2. n \in Nat /\ n # 0
    BY <1>2, <2>1, FS_CardinalityType, FS_EmptySet
  <2> QED
    BY <1>2, <2>2
<1>6. b \div n > a \div n
  BY ONLY <1>3, <1>4, <1>5
<1>7. Mean(f) = a \div n /\ Mean(g) = b \div n
  BY <1>1, <1>2 DEF Mean
<1> QED
  BY <1>6, <1>7

\* A mean of at most eight scores, each of which is zero or eight at least,
\* is zero if and only if all of them are.
LEMMA MeanZero ==
    ASSUME NEW f, Summable(f), f \in [DOMAIN f -> Nat], Cardinality(DOMAIN f) <= 8,
           \A y \in DOMAIN f : f[y] = 0 \/ f[y] >= 8
    PROVE  Mean(f) = 0 <=> \A y \in DOMAIN f : f[y] = 0
<1>1. ASSUME \A y \in DOMAIN f : f[y] = 0
      PROVE  Mean(f) = 0
  <2>1. CASE DOMAIN f = {}
    BY <2>1 DEF Mean
  <2>2. CASE DOMAIN f # {}
    BY <1>1, <2>2, MeanOfEqual
  <2> QED
    BY <2>1, <2>2
<1>2. ASSUME NEW x \in DOMAIN f, f[x] # 0
      PROVE  Mean(f) # 0
  <2> DEFINE g == [y \in DOMAIN f |-> IF y = x THEN 0 ELSE f[y]]
  <2>1. g \in [DOMAIN f -> Nat] /\ Summable(g) /\ DOMAIN g = DOMAIN f /\ g[x] = 0
    BY DEF Summable
  <2>2. \A y \in DOMAIN f : y # x => f[y] = g[y]
    OBVIOUS
  <2> HIDE DEF g
  <2>3. f[x] >= g[x] + 8
    BY <1>2, <2>1
  <2>4. Mean(f) > Mean(g)
    BY <2>1, <2>2, <2>3, MeanRises
  <2>5. Mean(g) \in Nat /\ Mean(f) \in Nat
    BY <2>1, MeanType
  <2> QED
    BY <2>4, <2>5
<1> QED
  BY <1>1, <1>2

\* One more unit of throughput is a score higher by eight parts of a point at
\* least, against any reference; a throughput above zero scores that much.
LEMMA NormalizeRises ==
    ASSUME NEW measured \in Nat, NEW reference \in Nat, reference # 0, reference <= MaxReference
    PROVE  /\ Normalize(measured + 1, reference) >= Normalize(measured, reference) + 8
           /\ Normalize(0, reference) = 0
           /\ measured # 0 => Normalize(measured, reference) >= 8
<1>1. MaxReference = 105000
  BY SMTT(30) DEF MaxReference, Point
<1>2. \A n \in Nat : Normalize(n, reference) = (n * 840000) \div reference
  <2>1. \A n \in Nat : Normalize(n, reference) = (n * 1000 * 840) \div reference
    BY DEF Normalize, Point
  <2>2. \A n \in Nat : n * 1000 * 840 = n * 840000
    BY SMTT(30)
  <2> QED
    BY <2>1, <2>2
<1>3. 8 * reference <= 840000
  BY <1>1, SMTT(30)
<1>4. \A a, b \in Nat : b >= a + 8 * reference => b \div reference >= a \div reference + 8
  BY SMTT(30)
<1>5. \A n \in Nat : Normalize(n + 1, reference) >= Normalize(n, reference) + 8
  <2> TAKE n \in Nat
  <2>1. PICK a, b : a = n * 840000 /\ b = (n + 1) * 840000
    OBVIOUS
  <2>2. a \in Nat /\ b \in Nat /\ b = a + 840000
    BY ONLY <2>1, n \in Nat, SMTT(30)
  <2>3. b \div reference >= a \div reference + 8
    BY ONLY <1>3, <1>4, <2>2, reference \in Nat
  <2> QED
    BY <1>2, <2>1, <2>3
<1>6. Normalize(0, reference) = 0
  <2>1. 0 * 840000 = 0 /\ 0 \div reference = 0
    BY SMTT(30)
  <2> QED
    BY <1>2, <2>1
<1>7. ASSUME measured # 0
      PROVE  Normalize(measured, reference) >= 8
  <2>1. PICK n \in Nat : measured = n + 1
    <3>1. measured - 1 \in Nat /\ measured = (measured - 1) + 1
      BY <1>7
    <3> QED
      BY <3>1
  <2>2. Normalize(n, reference) \in Nat
    BY Normalized
  <2>3. Normalize(n + 1, reference) >= Normalize(n, reference) + 8
    BY <1>5
  <2>5. Normalize(n + 1, reference) \in Nat
    BY Normalized
  <2>6. Normalize(n + 1, reference) >= 8
    BY <2>2, <2>3, <2>5
  <2> QED
    BY <2>1, <2>6
<1> QED
  BY <1>5, <1>6, <1>7

\* The scores whose mean is that of a category.
OpsScores(byName, mode, names) ==
    [b \in names \cap DOMAIN byName |-> Normalize(byName[b].ops, Reference[b][mode].ops)]

LatencyScores(byName, mode) ==
    [b \in Names \cap DOMAIN byName |-> NormalizeLatency(byName[b].p99, Reference[b][mode].p99)]

LEMMA ScoresType ==
    ASSUME NEW byName, NEW mode \in Modes, NEW names \in SUBSET Names,
           \A b \in Names \cap DOMAIN byName : byName[b].ops \in Nat /\ byName[b].p99 \in Nat
    PROVE  LET ops == OpsScores(byName, mode, names)
               lat == LatencyScores(byName, mode) IN
           /\ DOMAIN ops = names \cap DOMAIN byName /\ DOMAIN lat = Names \cap DOMAIN byName
           /\ ops \in [DOMAIN ops -> Nat] /\ lat \in [DOMAIN lat -> Nat]
           /\ Summable(ops) /\ Summable(lat)
           /\ Cardinality(DOMAIN ops) <= 8 /\ Cardinality(DOMAIN lat) <= 8
<1>1. ASSUME NEW b \in Names \cap DOMAIN byName
      PROVE  /\ Normalize(byName[b].ops, Reference[b][mode].ops) \in Nat
             /\ NormalizeLatency(byName[b].p99, Reference[b][mode].p99) \in Nat
  <2>1. PICK o, l, ro, rl : /\ o = byName[b].ops /\ l = byName[b].p99
                            /\ ro = Reference[b][mode].ops /\ rl = Reference[b][mode].p99
    OBVIOUS
  <2>2. o \in Nat /\ l \in Nat /\ ro \in Nat /\ rl \in Nat /\ ro # 0 /\ rl # 0
    BY <2>1, ReferenceType
  <2>3. Normalize(o, ro) \in Nat /\ NormalizeLatency(l, rl) \in Nat
    BY ONLY <2>2, Normalized, LatencyNormalized
  <2> QED
    BY <2>1, <2>3
<1>2. PICK ops, lat : ops = OpsScores(byName, mode, names) /\ lat = LatencyScores(byName, mode)
  OBVIOUS
<1>3. /\ DOMAIN ops = names \cap DOMAIN byName /\ DOMAIN lat = Names \cap DOMAIN byName
      /\ ops \in [DOMAIN ops -> Nat] /\ lat \in [DOMAIN lat -> Nat]
  BY <1>1, <1>2 DEF OpsScores, LatencyScores
<1>4. /\ IsFiniteSet(DOMAIN ops) /\ Cardinality(DOMAIN ops) \in 0 .. 8
      /\ IsFiniteSet(DOMAIN lat) /\ Cardinality(DOMAIN lat) \in 0 .. 8
  <2>1. DOMAIN ops \in SUBSET Names /\ DOMAIN lat \in SUBSET Names
    BY <1>3
  <2> QED
    BY <2>1, NamesAreEight
<1>5. Summable(ops) /\ Summable(lat)
  BY <1>3, <1>4 DEF Summable
<1>6. Cardinality(DOMAIN ops) <= 8 /\ Cardinality(DOMAIN lat) <= 8
  BY <1>4
<1> QED
  BY <1>2, <1>3, <1>5, <1>6

\* A category scores zero if and only if none of its benchmarks did anything.
LEMMA CategoryZero ==
    ASSUME NEW byName, NEW mode \in Modes, NEW names \in SUBSET Names,
           \A b \in Names \cap DOMAIN byName : byName[b].ops \in Nat /\ byName[b].p99 \in Nat
    PROVE  Mean(OpsScores(byName, mode, names)) = 0
              <=> \A b \in names \cap DOMAIN byName : byName[b].ops = 0
<1>1. PICK f : f = OpsScores(byName, mode, names)
  OBVIOUS
<1>2. /\ DOMAIN f = names \cap DOMAIN byName /\ f \in [DOMAIN f -> Nat] /\ Summable(f)
      /\ Cardinality(DOMAIN f) <= 8
  BY <1>1, ScoresType
<1>3. ASSUME NEW b \in DOMAIN f
      PROVE  (f[b] = 0 \/ f[b] >= 8) /\ (f[b] = 0 <=> byName[b].ops = 0)
  <2>1. PICK o, ro : o = byName[b].ops /\ ro = Reference[b][mode].ops
    OBVIOUS
  <2>2. o \in Nat /\ ro \in Nat /\ ro # 0 /\ ro <= MaxReference
    BY <1>2, <2>1, ReferenceType
  <2>3. Normalize(0, ro) = 0 /\ (o # 0 => Normalize(o, ro) >= 8)
    BY <2>2, NormalizeRises
  <2>4. f[b] = Normalize(o, ro)
    BY <1>1, <1>2, <2>1 DEF OpsScores
  <2>5. f[b] \in Nat
    BY <1>2
  <2> QED
    BY <2>1, <2>3, <2>4, <2>5
<1>4. Mean(f) = 0 <=> \A b \in DOMAIN f : f[b] = 0
  BY <1>2, <1>3, MeanZero
<1> QED
  BY <1>1, <1>2, <1>3, <1>4

LEMMA ListsAgree ==
    ASSUME NEW c \in Category, c # "latency"
    PROVE  BenchmarksFor(c) = Collected(c) /\ Collected(c) \in SUBSET Names
<1>1. CASE c = "integer"
  BY <1>1 DEF BenchmarksFor, Collected, Names
<1>2. CASE c = "memory"
  BY <1>2 DEF BenchmarksFor, Collected, Names
<1>3. CASE c = "throughput"
  BY <1>3 DEF BenchmarksFor, Collected, Names
<1> QED
  BY <1>1, <1>2, <1>3 DEF Category

LEMMA MeasuredPlausible ==
    ASSUME NEW sel \in Seq(Names), InOrder(sel), NEW m \in Machines, NEW mode \in Modes, NEW rs,
           Beginning(rs, mode, sel, m), NEW b \in DOMAIN ByName(rs)
    PROVE  b \in Names /\ ByName(rs)[b] \in Outcome /\ Plausible(ByName(rs)[b])
<1>1. PICK k \in DOMAIN rs : ByName(rs)[b] = rs[k]
  BY ByNameType
<1>2. k \in 1 .. Len(sel) /\ rs[k] = Measured(m, sel[k], mode)
  <2>1. rs \in Seq(Outcome) /\ Len(rs) <= Len(sel) /\ \A j \in 1 .. Len(rs) : rs[j] = Measured(m, sel[j], mode)
    BY DEF Beginning
  <2>2. k \in 1 .. Len(rs) /\ Len(rs) \in Nat /\ Len(sel) \in Nat
    BY <2>1
  <2> QED
    BY <2>1, <2>2
<1>3. PICK name \in Names : name = sel[k]
  BY <1>2
<1>4. Plausible(m.perf[name][mode])
  BY CliAssumption
<1>5. Plausible(Measured(m, name, mode))
  BY <1>4 DEF Plausible, Measured
<1> QED
  BY <1>1, <1>2, <1>3, <1>5, ByNameType

\* A row of the table, with the score of its category.
LEMMA RowIs ==
    ASSUME NEW sel \in Seq(Names), InOrder(sel), NEW m \in Machines, NEW rs,
           Beginning(rs, "st", sel, m), NEW c \in Category, c # "latency"
    PROVE  LET t == Timings(c, rs) IN
           /\ t.median <= t.p99
           /\ FormatDuration(t.p99) = Dash <=> OpsMean(rs, "st", Collected(c)) = 0
           /\ FormatDuration(t.p99) = Dash => FormatDuration(t.median) = Dash
<1>1. PICK names \in SUBSET Names : names = Collected(c) /\ names = BenchmarksFor(c)
  BY ListsAgree
<1>2. PICK byName : byName = ByName(rs)
  OBVIOUS
<1>3. "st" \in Modes
  BY DEF Modes
<1>4. \A b \in DOMAIN byName : byName[b] \in Outcome /\ Plausible(byName[b])
  BY <1>2, <1>3, MeasuredPlausible
<1>5. \A b \in Names \cap DOMAIN byName : byName[b].ops \in Nat /\ byName[b].p99 \in Nat
  BY <1>4 DEF Outcome
<1>6. PICK median, p99 : median = MedianOfMedians(names, byName) /\ p99 = MaxP99(names, byName)
  OBVIOUS
<1>7. /\ median \in Nat /\ p99 \in Nat /\ median <= p99
      /\ p99 = 0 <=> \A b \in names \cap DOMAIN byName : byName[b].ops = 0
  BY <1>4, <1>6, TimingsAre
<1>8. OpsMean(rs, "st", names) = 0 <=> p99 = 0
  <2>1. OpsMean(rs, "st", names) = Mean(OpsScores(byName, "st", names))
    BY <1>2 DEF OpsMean, OpsScores, Ran
  <2> QED
    BY <1>3, <1>5, <1>7, <2>1, CategoryZero
<1>9. Timings(c, rs).median = median /\ Timings(c, rs).p99 = p99
  BY <1>1, <1>2, <1>6 DEF Timings
<1>10. FormatDuration(p99) = Dash <=> p99 = 0
  BY <1>7, DashIsZero
<1>11. p99 = 0 => FormatDuration(median) = Dash
  BY <1>7, DashIsZero
<1> QED
  BY <1>1, <1>7, <1>8, <1>9, <1>10, <1>11

LEMMA CategoryScore ==
    ASSUME NEW rs, NEW mode, NEW w, NEW all, all = ComputeMode(rs, mode, w)
    PROVE  /\ \A c \in Category : c # "latency" => all.scores[c] = OpsMean(rs, mode, Collected(c))
           /\ all.scores["latency"] = LatencyMean(rs, mode)
<1>1. all.scores = [c \in Category |-> IF c = "latency" THEN LatencyMean(rs, mode)
                                                        ELSE OpsMean(rs, mode, Collected(c))]
  BY DEF ComputeMode, LatencyMean, OpsMean, Ran
<1>2. "latency" \in Category
  BY DEF Category
<1> QED
  BY <1>1, <1>2

\* From the score on it is the one of what was measured.
Shown ==
    pc \in {"table", "json"} \/ stdout # <<>> => score = Score(st, mt, flags.profile)

LEMMA ShownAlways == Spec => []Shown
<1>1. Init => Shown
  BY DEF Init, Shown
<1>2. ASSUME IInv, Shown, [Next]_vars
      PROVE  Shown'
  <2>0. /\ pc = "flags" => stdout = <<>>
        /\ pc \in {"st", "mt"} => stdout = <<>>
    BY <1>2 DEF IInv, Heating, Nothing, Scores
  <2>1. CASE Reject
    BY <2>0, <2>1 DEF Reject, Shown
  <2>2. CASE Accept
    BY <2>0, <2>2 DEF Accept, Shown
  <2>3. CASE StartStress
    BY <2>0, <2>3 DEF StartStress, Shown
  <2>4. CASE StressEnds
    BY <1>2, <2>4 DEF StressEnds, Shown, input, results
  <2>5. CASE MeasureST
    BY <2>0, <2>5 DEF MeasureST, Shown
  <2>6. CASE MeasureMT
    BY <2>0, <2>6 DEF MeasureMT, Shown
  <2>7. CASE ComputeScore
    BY <2>0, <2>7 DEF ComputeScore, Shown, input
  <2>8. CASE RenderTable
    BY <1>2, <2>8 DEF RenderTable, Shown, input, results
  <2>9. CASE EmitJSON
    BY <1>2, <2>9 DEF EmitJSON, Shown, input, results
  <2>10. CASE Interrupt
    BY <1>2, <2>10 DEF Interrupt, Shown, input, results
  <2>11. CASE UNCHANGED vars
    BY <1>2, <2>11 DEF Shown, vars, input, results
  <2> QED
    BY <1>2, <2>1, <2>2, <2>3, <2>4, <2>5, <2>6, <2>7, <2>8, <2>9, <2>10, <2>11
       DEF Next, Terminated
<1> QED
  BY <1>1, <1>2, CliInvariance, PTL DEF Spec

\* In the table a row has a dash for its P99 just where its score is zero,
\* and no median then, and a median is no higher than the P99 next to it.
THEOREM CliRowsBelongTogether == Spec => []RowsBelongTogether
<1>1. IInv /\ Shown => RowsBelongTogether
  <2> SUFFICES ASSUME IInv, Shown, NEW k \in DOMAIN stdout, stdout[k].kind = "table",
                      NEW c \in Category, c # "latency"
               PROVE  LET row == stdout[k].content[c] IN
                      /\ row.p99 = Dash <=> row.st = 0
                      /\ row.p99 = Dash => row.median = Dash
                      /\ Timings(c, st).median <= Timings(c, st).p99
    BY DEF RowsBelongTogether
  <2>1. /\ machine \in Machines /\ Sel \in Seq(Names) /\ InOrder(Sel)
        /\ Beginning(st, "st", Sel, machine)
    BY SelectedIs DEF IInv, Types, Progress, Sel
  <2>2. /\ Timings(c, st).median <= Timings(c, st).p99
        /\ FormatDuration(Timings(c, st).p99) = Dash <=> OpsMean(st, "st", Collected(c)) = 0
        /\ FormatDuration(Timings(c, st).p99) = Dash => FormatDuration(Timings(c, st).median) = Dash
    BY <2>1, RowIs
  <2>3. stdout[k].content = Rows(score, st)
    <3>1. stdout = [i \in 1 .. Len(Kinds) |-> Paper(Kinds[i])]
      BY DEF IInv, Papers
    <3>2. stdout[k] = Paper(Kinds[k])
      BY <3>1
    <3>3. stdout[k] = Table
      BY <3>2, PapersAre DEF Paper
    <3> QED
      BY <3>3 DEF Table
  <2>4. score.st.scores[c] = OpsMean(st, "st", Collected(c))
    <3>1. stdout # <<>>
      OBVIOUS
    <3>2. score = Score(st, mt, flags.profile)
      BY <3>1 DEF Shown
    <3>3. PICK w, all : w = WeightsFor(flags.profile) /\ all = ComputeMode(st, "st", w)
      OBVIOUS
    <3>4. score.st = all
      BY ONLY <3>2, <3>3 DEF Score
    <3>5. all.scores[c] = OpsMean(st, "st", Collected(c))
      BY <3>3, CategoryScore
    <3> QED
      BY <3>4, <3>5
  <2>5. /\ stdout[k].content[c].st = OpsMean(st, "st", Collected(c))
        /\ stdout[k].content[c].median = FormatDuration(Timings(c, st).median)
        /\ stdout[k].content[c].p99 = FormatDuration(Timings(c, st).p99)
    BY <2>3, <2>4 DEF Rows
  <2> QED
    BY <2>2, <2>5
<1> QED
  BY <1>1, CliInvariance, ShownAlways, PTL
-----------------------------------------------------------------------------
(* What gets faster scores higher.                                         *)

\* Half of a timing is worth eight parts of a point more at least, unless it
\* is more than a thousand times the reference.
LEMMA LatencyRises ==
    ASSUME NEW q \in Nat, NEW reference \in Nat, reference # 0, q >= 2, q <= 1000 * reference
    PROVE  NormalizeLatency(q \div 2, reference) >= NormalizeLatency(q, reference) + 8
<1>1. PICK p, h, n : p = reference * 840000 /\ h = q \div 2 /\ n = p \div q
  OBVIOUS
<1>2. p \in Nat /\ h \in Nat /\ h # 0 /\ h + h <= q
  BY ONLY <1>1, q \in Nat, reference \in Nat, q >= 2, SMTT(30)
<1>3. n \in Nat /\ n * q <= p
  <2>1. \A a \in Nat : \A b \in Nat \ {0} : a \div b \in Nat /\ (a \div b) * b <= a
    OBVIOUS
  <2> QED
    BY <1>1, <1>2, <2>1
<1>4. n >= 840
  <2>1. 840 * q <= p
    BY ONLY <1>1, q \in Nat, reference \in Nat, q <= 1000 * reference, SMTT(30)
  <2>2. \A a \in Nat : \A b \in Nat \ {0} : \A c \in Nat : c * b <= a => c <= a \div b
    OBVIOUS
  <2> QED
    BY <1>1, <1>2, <2>1, <2>2
<1>5. (n + n) * h <= p
  <2>1. (n + n) * h = n * (h + h)
    BY ONLY <1>2, <1>3
  <2>2. \A a, b, c \in Nat : a <= b => c * a <= c * b
    OBVIOUS
  <2>3. n * (h + h) <= n * q
    BY <1>2, <1>3, <2>2
  <2>4. n * (h + h) \in Int /\ n * q \in Int
    BY <1>2, <1>3
  <2> QED
    BY <1>2, <1>3, <2>1, <2>3, <2>4
<1>6. n + n <= p \div h
  <2>1. \A a \in Nat : \A b \in Nat \ {0} : \A c \in Nat : c * b <= a => c <= a \div b
    OBVIOUS
  <2> QED
    BY <1>2, <1>3, <1>5, <2>1
<1>7. NormalizeLatency(q, reference) = n /\ NormalizeLatency(h, reference) = p \div h
  <2>1. reference * 1000 * 840 = p
    BY <1>1, SMTT(30)
  <2> QED
    BY <1>1, <1>2, <2>1 DEF NormalizeLatency, Point
<1>8. p \div h \in Int
  BY <1>2
<1> QED
  BY <1>1, <1>3, <1>4, <1>6, <1>7, <1>8

\* The mean over the benchmarks of a list rises with the throughput of any of
\* them, and of no other.
LEMMA OpsFaster ==
    ASSUME NEW f, NEW g, DOMAIN g = DOMAIN f, NEW mode \in Modes, NEW x \in Names \cap DOMAIN f,
           \A y \in Names \cap DOMAIN f : f[y].ops \in Nat /\ f[y].p99 \in Nat,
           \A y \in DOMAIN f : y # x => g[y] = f[y],
           g[x].ops = f[x].ops + 1, g[x].p99 = f[x].p99
    PROVE  /\ LatencyScores(g, mode) = LatencyScores(f, mode)
           /\ \A names \in SUBSET Names :
                 IF x \in names THEN Mean(OpsScores(g, mode, names)) > Mean(OpsScores(f, mode, names))
                                ELSE OpsScores(g, mode, names) = OpsScores(f, mode, names)
<1>1. \A y \in Names \cap DOMAIN g : g[y].ops \in Nat /\ g[y].p99 \in Nat
  OBVIOUS
<1>2. LatencyScores(g, mode) = LatencyScores(f, mode)
  <2>1. \A y \in Names \cap DOMAIN f : g[y].p99 = f[y].p99
    OBVIOUS
  <2> QED
    BY <2>1 DEF LatencyScores
<1>3. ASSUME NEW names \in SUBSET Names, x \notin names
      PROVE  OpsScores(g, mode, names) = OpsScores(f, mode, names)
  <2>1. \A y \in names \cap DOMAIN f : g[y].ops = f[y].ops
    BY <1>3
  <2> QED
    BY <2>1 DEF OpsScores
<1>4. ASSUME NEW names \in SUBSET Names, x \in names
      PROVE  Mean(OpsScores(g, mode, names)) > Mean(OpsScores(f, mode, names))
  <2>1. PICK a, b : a = OpsScores(f, mode, names) /\ b = OpsScores(g, mode, names)
    OBVIOUS
  <2>2. /\ DOMAIN a = names \cap DOMAIN f /\ a \in [DOMAIN a -> Nat] /\ Summable(a)
        /\ Cardinality(DOMAIN a) <= 8
    BY <2>1, ScoresType
  <2>3. DOMAIN b = names \cap DOMAIN f /\ b \in [DOMAIN b -> Nat] /\ Summable(b)
    <3>1. DOMAIN b = names \cap DOMAIN g /\ b \in [DOMAIN b -> Nat] /\ Summable(b)
      BY ONLY <1>1, <2>1, mode \in Modes, names \in SUBSET Names, ScoresType
    <3> QED
      BY <3>1
  <2>4. x \in DOMAIN a
    BY <1>4, <2>2
  <2>5. \A y \in DOMAIN a : y # x => b[y] = a[y]
    BY <2>1, <2>2 DEF OpsScores
  <2>6. b[x] >= a[x] + 8
    <3>1. PICK o, r : o = f[x].ops /\ r = Reference[x][mode].ops
      OBVIOUS
    <3>2. o \in Nat /\ r \in Nat /\ r # 0 /\ r <= MaxReference
      BY <3>1, ReferenceType
    <3>3. a[x] = Normalize(o, r) /\ b[x] = Normalize(o + 1, r)
      BY <2>1, <2>2, <2>4, <3>1 DEF OpsScores
    <3> QED
      BY <3>2, <3>3, NormalizeRises
  <2> QED
    BY <2>1, <2>2, <2>3, <2>4, <2>5, <2>6, MeanRises
<1> QED
  BY <1>2, <1>3, <1>4

\* The mean of the timings' scores rises where one of them is halved, and no
\* other does.
LEMMA LatencyFaster ==
    ASSUME NEW f, NEW g, DOMAIN g = DOMAIN f, NEW mode \in Modes, NEW x \in Names \cap DOMAIN f,
           \A y \in Names \cap DOMAIN f : f[y].ops \in Nat /\ f[y].p99 \in Nat,
           \A y \in DOMAIN f : y # x => g[y] = f[y],
           g[x].ops = f[x].ops, g[x].p99 = f[x].p99 \div 2,
           f[x].p99 >= 2, f[x].p99 <= 1000 * Reference[x][mode].p99
    PROVE  /\ Mean(LatencyScores(g, mode)) > Mean(LatencyScores(f, mode))
           /\ \A names \in SUBSET Names : OpsScores(g, mode, names) = OpsScores(f, mode, names)
<1>1. \A y \in Names \cap DOMAIN g : g[y].ops \in Nat /\ g[y].p99 \in Nat
  <2>1. f[x].p99 \div 2 \in Nat
    OBVIOUS
  <2> QED
    BY <2>1
<1>2. ASSUME NEW names \in SUBSET Names
      PROVE  OpsScores(g, mode, names) = OpsScores(f, mode, names)
  <2>1. \A y \in names \cap DOMAIN f : g[y].ops = f[y].ops
    OBVIOUS
  <2> QED
    BY <2>1 DEF OpsScores
<1>3. Mean(LatencyScores(g, mode)) > Mean(LatencyScores(f, mode))
  <2>1. PICK a, b : a = LatencyScores(f, mode) /\ b = LatencyScores(g, mode)
    OBVIOUS
  <2>2. /\ DOMAIN a = Names \cap DOMAIN f /\ a \in [DOMAIN a -> Nat] /\ Summable(a)
        /\ Cardinality(DOMAIN a) <= 8
    BY <2>1, ScoresType
  <2>3. DOMAIN b = Names \cap DOMAIN f /\ b \in [DOMAIN b -> Nat] /\ Summable(b)
    <3>1. DOMAIN b = Names \cap DOMAIN g /\ b \in [DOMAIN b -> Nat] /\ Summable(b)
      BY ONLY <1>1, <2>1, mode \in Modes, ScoresType
    <3> QED
      BY <3>1
  <2>4. x \in DOMAIN a
    BY <2>2
  <2>5. \A y \in DOMAIN a : y # x => b[y] = a[y]
    BY <2>1, <2>2 DEF LatencyScores
  <2>6. b[x] >= a[x] + 8
    <3>1. PICK q, r : q = f[x].p99 /\ r = Reference[x][mode].p99
      OBVIOUS
    <3>2. q \in Nat /\ r \in Nat /\ r # 0 /\ q >= 2 /\ q <= 1000 * r
      BY <3>1, ReferenceType
    <3>3. a[x] = NormalizeLatency(q, r) /\ b[x] = NormalizeLatency(q \div 2, r)
      BY <2>1, <2>2, <2>4, <3>1 DEF LatencyScores
    <3> QED
      BY <3>2, <3>3, LatencyRises
  <2> QED
    BY <2>1, <2>2, <2>3, <2>4, <2>5, <2>6, MeanRises
<1> QED
  BY <1>2, <1>3

LEMMA WeightsPositive ==
    ASSUME NEW profile \in Profiles, NEW c \in Category
    PROVE  WeightsFor(profile)[c] \in Nat \ {0}
<1>1. CASE profile \in {"default", ""}
  <2>1. WeightsFor(profile) = [integer |-> 30, memory |-> 30, throughput |-> 25, latency |-> 15]
    BY <1>1 DEF WeightsFor
  <2> QED
    BY <2>1 DEF Category
<1>2. CASE profile = "database"
  BY <1>2 DEF WeightsFor, Category
<1>3. CASE profile = "batch"
  BY <1>3 DEF WeightsFor, Category
<1>4. profile \in {"default", ""} \/ profile = "database" \/ profile = "batch"
  BY DEF Profiles
<1> QED
  BY <1>1, <1>2, <1>3, <1>4

\* One category more, none less: that is a higher total, in every profile.
LEMMA TotalRises ==
    ASSUME NEW a, NEW b, NEW w, NEW rs, NEW better, NEW mode,
           a = ComputeMode(rs, mode, w), b = ComputeMode(better, mode, w),
           \A c \in Category : w[c] \in Nat \ {0},
           \A c \in Category : a.scores[c] \in Nat /\ b.scores[c] \in Nat /\ a.scores[c] <= b.scores[c],
           NEW d \in Category, a.scores[d] < b.scores[d]
    PROVE  b.total > a.total
<1> DEFINE f == [c \in Category |-> a.scores[c] * w[c]]
           g == [c \in Category |-> b.scores[c] * w[c]]
<1>1. a.total = SumFunction(f) /\ b.total = SumFunction(g)
  BY DEF ComputeMode
<1>2. ASSUME NEW c \in Category
      PROVE  f[c] \in Int /\ g[c] \in Int /\ f[c] <= g[c] /\ (c = d => f[c] < g[c])
  <2>1. PICK x, y, v : x = a.scores[c] /\ y = b.scores[c] /\ v = w[c]
    OBVIOUS
  <2>2. x \in Nat /\ y \in Nat /\ v \in Nat /\ v # 0 /\ x <= y /\ (c = d => x < y)
    BY <2>1
  <2>3. /\ x * v \in Int /\ y * v \in Int /\ x * v <= y * v
        /\ x < y => x * v < y * v
    BY ONLY <2>2
  <2>4. f[c] = x * v /\ g[c] = y * v
    BY <2>1
  <2> QED
    BY <2>2, <2>3, <2>4
<1>3. f \in [Category -> Int] /\ g \in [Category -> Int]
  BY <1>2
<1> HIDE DEF f, g
<1>4. /\ SumFunction(f) = f["integer"] + (f["memory"] + (f["throughput"] + f["latency"]))
      /\ SumFunction(g) = g["integer"] + (g["memory"] + (g["throughput"] + g["latency"]))
  BY <1>3, SumOfCategories
<1>5. /\ "integer" \in Category /\ "memory" \in Category /\ "throughput" \in Category
      /\ "latency" \in Category
      /\ d = "integer" \/ d = "memory" \/ d = "throughput" \/ d = "latency"
  BY DEF Category
<1>6. PICK f1, f2, f3, f4, g1, g2, g3, g4 :
         /\ f1 = f["integer"] /\ f2 = f["memory"] /\ f3 = f["throughput"] /\ f4 = f["latency"]
         /\ g1 = g["integer"] /\ g2 = g["memory"] /\ g3 = g["throughput"] /\ g4 = g["latency"]
  OBVIOUS
<1>7. /\ {f1, f2, f3, f4, g1, g2, g3, g4} \subseteq Int
      /\ f1 <= g1 /\ f2 <= g2 /\ f3 <= g3 /\ f4 <= g4
      /\ f1 < g1 \/ f2 < g2 \/ f3 < g3 \/ f4 < g4
  BY <1>2, <1>5, <1>6
<1>8. f1 + (f2 + (f3 + f4)) < g1 + (g2 + (g3 + g4))
  BY ONLY <1>7
<1> QED
  BY <1>1, <1>4, <1>6, <1>8

\* Two runs of the same benchmarks in the same order have the same names.
LEMMA SameNames ==
    ASSUME NEW sel \in Seq(Names), InOrder(sel), NEW m \in Machines, NEW mode \in Modes, NEW rs,
           Beginning(rs, mode, sel, m),
           NEW better, DOMAIN better = DOMAIN rs, \A j \in DOMAIN rs : better[j].name = rs[j].name
    PROVE  /\ DOMAIN ByName(better) = DOMAIN ByName(rs)
           /\ \A j \in DOMAIN rs : ByName(better)[rs[j].name] = better[j]
<1>1. DOMAIN ByName(better) = DOMAIN ByName(rs)
  <2>1. {better[j].name : j \in DOMAIN better} = {rs[j].name : j \in DOMAIN rs}
    OBVIOUS
  <2> QED
    BY <2>1 DEF ByName
<1>2. ASSUME NEW j \in DOMAIN rs
      PROVE  ByName(better)[rs[j].name] = better[j]
  <2>1. /\ DOMAIN rs = 1 .. Len(rs)
        /\ \A i \in DOMAIN rs : i \in 1 .. Len(sel) /\ rs[i].name = sel[i]
    BY NamesMeasured
  <2>2. PICK name : name = rs[j].name
    OBVIOUS
  <2>3. {i \in DOMAIN better : better[i].name = name} = {j}
    <3>1. ASSUME NEW i \in DOMAIN rs, rs[i].name = name
          PROVE  i = j
      <4>1. i \in 1 .. Len(sel) /\ j \in 1 .. Len(sel) /\ sel[i] = sel[j]
        BY <2>1, <2>2, <3>1
      <4> QED
        BY <4>1, InOrderOnce
    <3> QED
      BY <2>2, <3>1
  <2>4. Max({j}) = j
    <3>1. j \in {j} /\ \A y \in {j} : j >= y
      BY <2>1
    <3> QED
      BY <3>1 DEF Max
  <2>5. name \in {better[i].name : i \in DOMAIN better}
    BY <2>2
  <2>6. ByName(better)[name] = better[Max({i \in DOMAIN better : better[i].name = name})]
    BY <2>5 DEF ByName
  <2> QED
    BY <2>2, <2>3, <2>4, <2>6
<1> QED
  BY <1>1, <1>2

\* Every benchmark is in a category of throughput.
LEMMA EachCollected ==
    ASSUME NEW b \in Names
    PROVE  \E c \in Category : c # "latency" /\ b \in Collected(c)
<1>1. CASE b \in {"primes", "sorting"}
  <2>1. "integer" \in Category /\ "integer" # "latency" /\ b \in Collected("integer")
    BY <1>1 DEF Category, Collected
  <2> QED
    BY <2>1
<1>2. CASE b \in {"matrix_int", "matrix_float", "hashing", "php_like", "apache_like"}
  <2>1. "memory" \in Category /\ "memory" # "latency" /\ b \in Collected("memory")
    BY <1>2 DEF Category, Collected
  <2> QED
    BY <2>1
<1>3. CASE b = "json"
  <2>1. "throughput" \in Category /\ "throughput" # "latency" /\ b \in Collected("throughput")
    BY <1>3 DEF Category, Collected
  <2> QED
    BY <2>1
<1>4. \/ b \in {"primes", "sorting"} \/ b = "json"
      \/ b \in {"matrix_int", "matrix_float", "hashing", "php_like", "apache_like"}
  BY DEF Names
<1> QED
  BY <1>1, <1>2, <1>3, <1>4

\* The scores of the categories, by the results of the benchmarks.
LEMMA CategoriesAre ==
    ASSUME NEW rs, NEW mode \in Modes, NEW w, NEW all, all = ComputeMode(rs, mode, w),
           \A y \in Names \cap DOMAIN ByName(rs) : ByName(rs)[y].ops \in Nat /\ ByName(rs)[y].p99 \in Nat
    PROVE  /\ \A c \in Category : all.scores[c] \in Nat
           /\ \A c \in Category : c # "latency" =>
                 all.scores[c] = Mean(OpsScores(ByName(rs), mode, Collected(c)))
           /\ all.scores["latency"] = Mean(LatencyScores(ByName(rs), mode))
<1>1. PICK f : f = ByName(rs)
  OBVIOUS
<1>2. /\ \A c \in Category : c # "latency" => all.scores[c] = OpsMean(rs, mode, Collected(c))
      /\ all.scores["latency"] = LatencyMean(rs, mode)
  BY CategoryScore
<1>3. /\ \A names : OpsMean(rs, mode, names) = Mean(OpsScores(f, mode, names))
      /\ LatencyMean(rs, mode) = Mean(LatencyScores(f, mode))
  BY <1>1 DEF OpsMean, LatencyMean, OpsScores, LatencyScores, Ran
<1>4. \A y \in Names \cap DOMAIN f : f[y].ops \in Nat /\ f[y].p99 \in Nat
  BY <1>1
<1>5. ASSUME NEW names \in SUBSET Names
      PROVE  Mean(OpsScores(f, mode, names)) \in Nat /\ Mean(LatencyScores(f, mode)) \in Nat
  <2>1. PICK a, b : a = OpsScores(f, mode, names) /\ b = LatencyScores(f, mode)
    OBVIOUS
  <2>2. /\ a \in [DOMAIN a -> Nat] /\ Summable(a)
        /\ b \in [DOMAIN b -> Nat] /\ Summable(b)
    BY <1>4, <2>1, ScoresType
  <2> QED
    BY <2>1, <2>2, MeanType
<1>6. ASSUME NEW c \in Category
      PROVE  all.scores[c] \in Nat
  <2>1. CASE c = "latency"
    <3>1. Names \in SUBSET Names
      OBVIOUS
    <3> QED
      BY <1>2, <1>3, <1>5, <2>1, <3>1
  <2>2. CASE c # "latency"
    <3>1. Collected(c) \in SUBSET Names
      BY <2>2, ListsAgree
    <3> QED
      BY <1>2, <1>3, <1>5, <2>2, <3>1
  <2> QED
    BY <2>1, <2>2
<1> QED
  BY <1>1, <1>2, <1>3, <1>6

\* How a faster run differs: in one benchmark, and there in one number.
LEMMA BetterIs ==
    ASSUME NEW rs \in Seq(Outcome), NEW k \in DOMAIN rs, NEW better \in Better(rs, k)
    PROVE  /\ DOMAIN better = DOMAIN rs
           /\ \A j \in DOMAIN rs : better[j].name = rs[j].name /\ (j # k => better[j] = rs[j])
           /\ \/ better[k].ops = rs[k].ops + 1 /\ better[k].p99 = rs[k].p99
              \/ /\ better[k].ops = rs[k].ops /\ better[k].p99 = rs[k].p99 \div 2
                 /\ rs[k].p99 >= 2 /\ rs[k].p99 <= 1000 * Reference[rs[k].name]["st"].p99
<1>1. rs[k] \in Outcome
  OBVIOUS
<1>2. CASE better = [rs EXCEPT ![k].ops = @ + 1]
  <2>1. /\ DOMAIN better = DOMAIN rs /\ \A j \in DOMAIN rs : j # k => better[j] = rs[j]
        /\ better[k] = [rs[k] EXCEPT !.ops = @ + 1]
    BY <1>2
  <2>2. /\ better[k].ops = rs[k].ops + 1 /\ better[k].p99 = rs[k].p99
        /\ better[k].name = rs[k].name
    BY <1>1, <2>1 DEF Outcome
  <2> QED
    BY <2>1, <2>2
<1>3. CASE /\ better = [rs EXCEPT ![k].p99 = @ \div 2]
           /\ rs[k].p99 \in 2 .. 1000 * Reference[rs[k].name]["st"].p99
  <2>1. /\ DOMAIN better = DOMAIN rs /\ \A j \in DOMAIN rs : j # k => better[j] = rs[j]
        /\ better[k] = [rs[k] EXCEPT !.p99 = @ \div 2]
    BY <1>3
  <2>2. /\ better[k].ops = rs[k].ops /\ better[k].p99 = rs[k].p99 \div 2
        /\ better[k].name = rs[k].name
    BY <1>1, <2>1 DEF Outcome
  <2>3. rs[k].p99 >= 2 /\ rs[k].p99 <= 1000 * Reference[rs[k].name]["st"].p99
    BY <1>3
  <2> QED
    BY <2>1, <2>2, <2>3
<1> QED
  BY <1>2, <1>3 DEF Better

LEMMA FasterTotal ==
    ASSUME NEW sel \in Seq(Names), InOrder(sel), NEW m \in Machines, NEW rs,
           Beginning(rs, "st", sel, m), NEW profile \in Profiles,
           NEW k \in DOMAIN rs, NEW better \in Better(rs, k)
    PROVE  ComputeMode(better, "st", WeightsFor(profile)).total
              > ComputeMode(rs, "st", WeightsFor(profile)).total
<1>1. PICK mode \in Modes : mode = "st"
  BY DEF Modes
<1>2. rs \in Seq(Outcome) /\ Beginning(rs, mode, sel, m)
  BY <1>1 DEF Beginning
<1>3. PICK w, a, b : /\ w = WeightsFor(profile)
                     /\ a = ComputeMode(rs, mode, w) /\ b = ComputeMode(better, mode, w)
  OBVIOUS
<1>4. PICK f, g, x : f = ByName(rs) /\ g = ByName(better) /\ x = rs[k].name
  OBVIOUS
<1>5. /\ DOMAIN better = DOMAIN rs
      /\ \A j \in DOMAIN rs : better[j].name = rs[j].name /\ (j # k => better[j] = rs[j])
      /\ \/ better[k].ops = rs[k].ops + 1 /\ better[k].p99 = rs[k].p99
         \/ /\ better[k].ops = rs[k].ops /\ better[k].p99 = rs[k].p99 \div 2
            /\ rs[k].p99 >= 2 /\ rs[k].p99 <= 1000 * Reference[x][mode].p99
  BY <1>1, <1>2, <1>4, BetterIs
<1>6. DOMAIN g = DOMAIN f /\ \A j \in DOMAIN rs : g[rs[j].name] = better[j]
  BY <1>2, <1>4, <1>5, SameNames
<1>7. \A j \in DOMAIN rs : rs[j].name \in DOMAIN f /\ f[rs[j].name] = rs[j] /\ rs[j] \in Outcome
  <2>1. DOMAIN rs = 1 .. Len(rs)
    BY <1>2
  <2> QED
    BY <1>2, <1>4, <2>1, ByNameIs
<1>8. \A y \in DOMAIN f : f[y] \in Outcome /\ \E j \in DOMAIN rs : rs[j].name = y
  BY <1>2, <1>4, ByNameType
<1>9. x \in Names \cap DOMAIN f /\ f[x] = rs[k] /\ g[x] = better[k]
  BY <1>4, <1>6, <1>7 DEF Outcome
<1>10. \A y \in DOMAIN f : y # x => g[y] = f[y]
  BY <1>4, <1>5, <1>6, <1>7, <1>8
<1>11. \A y \in Names \cap DOMAIN f : f[y].ops \in Nat /\ f[y].p99 \in Nat
  BY <1>8 DEF Outcome
<1>12. \A y \in Names \cap DOMAIN g : g[y].ops \in Nat /\ g[y].p99 \in Nat
  <2>1. f[x].ops + 1 \in Nat /\ f[x].p99 \div 2 \in Nat
    BY <1>9, <1>11
  <2> QED
    BY <1>5, <1>6, <1>9, <1>10, <1>11, <2>1
<1>13. /\ \A c \in Category : a.scores[c] \in Nat /\ b.scores[c] \in Nat
       /\ \A c \in Category : c # "latency" =>
             /\ a.scores[c] = Mean(OpsScores(f, mode, Collected(c)))
             /\ b.scores[c] = Mean(OpsScores(g, mode, Collected(c)))
       /\ a.scores["latency"] = Mean(LatencyScores(f, mode))
       /\ b.scores["latency"] = Mean(LatencyScores(g, mode))
  BY <1>3, <1>4, <1>11, <1>12, CategoriesAre
<1>14. \A c \in Category : c # "latency" => Collected(c) \in SUBSET Names
  BY ListsAgree
<1>15. \A c \in Category : w[c] \in Nat \ {0}
  BY <1>3, WeightsPositive
<1>16. \E d \in Category : /\ \A c \in Category : a.scores[c] <= b.scores[c]
                           /\ a.scores[d] < b.scores[d]
  <2>1. CASE better[k].ops = rs[k].ops + 1 /\ better[k].p99 = rs[k].p99
    <3>1. /\ LatencyScores(g, mode) = LatencyScores(f, mode)
          /\ \A names \in SUBSET Names :
                IF x \in names THEN Mean(OpsScores(g, mode, names)) > Mean(OpsScores(f, mode, names))
                               ELSE OpsScores(g, mode, names) = OpsScores(f, mode, names)
      BY <1>6, <1>9, <1>10, <1>11, <2>1, OpsFaster
    <3>2. ASSUME NEW c \in Category
          PROVE  a.scores[c] <= b.scores[c]
      <4>1. CASE c = "latency"
        BY <1>13, <3>1, <4>1
      <4>2. CASE c # "latency" /\ x \in Collected(c)
        BY <1>13, <1>14, <3>1, <4>2
      <4>3. CASE c # "latency" /\ x \notin Collected(c)
        BY <1>13, <1>14, <3>1, <4>3
      <4> QED
        BY <4>1, <4>2, <4>3
    <3>3. PICK d \in Category : d # "latency" /\ x \in Collected(d)
      BY <1>9, EachCollected
    <3>4. a.scores[d] < b.scores[d]
      BY <1>13, <1>14, <3>1, <3>3
    <3> QED
      BY <3>2, <3>4
  <2>2. CASE /\ better[k].ops = rs[k].ops /\ better[k].p99 = rs[k].p99 \div 2
             /\ rs[k].p99 >= 2 /\ rs[k].p99 <= 1000 * Reference[x][mode].p99
    <3>1. /\ Mean(LatencyScores(g, mode)) > Mean(LatencyScores(f, mode))
          /\ \A names \in SUBSET Names : OpsScores(g, mode, names) = OpsScores(f, mode, names)
      BY <1>6, <1>9, <1>10, <1>11, <2>2, LatencyFaster
    <3>2. "latency" \in Category
      BY DEF Category
    <3>3. a.scores["latency"] < b.scores["latency"]
      BY <1>13, <3>1, <3>2
    <3>4. ASSUME NEW c \in Category
          PROVE  a.scores[c] <= b.scores[c]
      <4>1. CASE c = "latency"
        BY <1>13, <3>3, <4>1
      <4>2. CASE c # "latency"
        BY <1>13, <1>14, <3>1, <4>2
      <4> QED
        BY <4>1, <4>2
    <3> QED
      BY <3>2, <3>3, <3>4
  <2> QED
    BY <1>5, <2>1, <2>2
<1>17. b.total > a.total
  BY <1>3, <1>13, <1>15, <1>16, TotalRises
<1> QED
  BY <1>1, <1>3, <1>17

\* Whatever was measured and in whichever profile, one unit more of throughput
\* of any benchmark, or half the P99 of any, is a higher total.
THEOREM CliFasterScoresHigher == Spec => []FasterScoresHigher
<1>1. IInv => FasterScoresHigher
  <2> SUFFICES ASSUME IInv, Scored, NEW k \in DOMAIN st, NEW better \in Better(st, k)
               PROVE  ComputeMode(better, "st", WeightsFor(flags.profile)).total > score.st.total
    BY DEF FasterScoresHigher
  <2>1. /\ flags.profile \in Profiles /\ score = Score(st, mt, flags.profile)
        /\ machine \in Machines /\ Sel \in Seq(Names) /\ InOrder(Sel)
        /\ Beginning(st, "st", Sel, machine)
    BY SelectedIs DEF IInv, Types, Progress, Scores, Sel
  <2>2. PICK all : all = ComputeMode(st, "st", WeightsFor(flags.profile))
    OBVIOUS
  <2>3. score.st = all
    BY ONLY <2>1, <2>2 DEF Score
  <2>4. ComputeMode(better, "st", WeightsFor(flags.profile)).total > all.total
    BY <2>1, <2>2, FasterTotal
  <2> QED
    BY <2>3, <2>4
<1> QED
  BY <1>1, CliInvariance, PTL
=============================================================================
