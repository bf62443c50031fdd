------------------------ MODULE MigrateSqlite_proofs ------------------------
(***************************************************************************)
(* The SQLite migration keeps every row and cuts no session off, proved    *)
(* for any migrators, sessions, rows and thresholds and any number of      *)
(* runs, each of which may be killed between any two statements.           *)
(***************************************************************************)
EXTENDS MigrateSqlite, TLAPS

\* The statements of the rebuild: create, copy, drop, rename.
Rebuild == 4 .. 7

Has(m, i) == i \in todo[m]

\* Of the rebuild a run has either everything left to do, or a suffix of it and
\* the tables as the statements before that suffix left them.
RebuildStage(m) ==
    /\ Has(m, 4) => Has(m, 5)
    /\ Has(m, 5) => Has(m, 6)
    /\ Has(m, 6) => Has(m, 7)
    /\ Has(m, 7) => "sem_threshold" \notin columns
    /\ Has(m, 7) /\ ~Has(m, 4) => pc[m] = "run" /\ "takeaways_v8" \in tables
    /\ Has(m, 6) => "takeaways" \in tables
    /\ Has(m, 5) /\ ~Has(m, 4) => \A r \in Rows : takeaways_v8[r] = Absent
    /\ Has(m, 6) /\ ~Has(m, 5) => takeaways_v8 = written
    /\ Has(m, 7) /\ ~Has(m, 6) => "takeaways" \notin tables

\* Two runs that are under way at once have overlapped.
OneRun ==
    \A m, n \in Migrators : pc[m] # "idle" /\ pc[n] # "idle" => m = n

IdleHasNoPlan == \A m \in Migrators : pc[m] = "idle" => todo[m] = {}

\* A table without sem_threshold holds no threshold.
NoThresholdBefore ==
    "sem_threshold" \notin columns => \A r \in Rows : written[r] \in {Absent, Null}

OneRunInv ==
    /\ OneRun
    /\ \A m \in Migrators : RebuildStage(m)
    /\ NoThresholdBefore
    /\ RowsKept
    /\ OpenedStays

MigrateInv ==
    /\ TypeOK
    /\ IdleHasNoPlan
    /\ overlapped \/ OneRunInv

LEMMA PlanType == \A missing : Plan(missing) \subseteq Statements
BY DEF Plan

LEMMA InitType == Init => TypeOK
<1> SUFFICES ASSUME Init PROVE TypeOK
    OBVIOUS
<1>1. tables \subseteq Tables /\ columns \subseteq Columns /\ "takeaways" \in tables
    BY DEF Init, VersionTables, VersionColumns, Tables, Columns, TakeawayColumns, FiringColumns
<1>2. runs \in 0 .. MaxRuns
    BY MigrateAssumption DEF Init
<1> QED
    BY <1>1, <1>2 DEF Init, TypeOK, Cell

\* A step that leaves the store alone.
LEMMA EndType ==
    ASSUME TypeOK, NEW m \in Migrators,
           NEW result \in {"migrated", "already v9", "error", "killed"}, End(m, result),
           UNCHANGED <<store, opened, written>>, runs' \in 0 .. MaxRuns, overlapped' \in BOOLEAN
    PROVE  TypeOK'
BY DEF End, TypeOK, store

LEMMA RememberType ==
    ASSUME TypeOK, NEW m \in Migrators, NEW missing,
           NEW next \in {"firings", "violations", "mutations", "run"},
           Remember(m, missing, next),
           UNCHANGED <<store, opened, written>>, runs' \in 0 .. MaxRuns, overlapped' \in BOOLEAN
    PROVE  TypeOK'
<1>1. todo[m] \cup Plan(missing) \in SUBSET Statements
    BY PlanType DEF TypeOK
<1> QED
    BY <1>1 DEF Remember, TypeOK, store

\* What a statement SQLite accepts found in the store.
LEMMA CanRunMeans ==
    ASSUME NEW s, CanRun(s)
    PROVE  /\ s \in Columns => (s \in TakeawayColumns => "takeaways" \in tables)
           /\ s \in Tables => s \notin tables
           /\ s = "copy" => /\ "takeaways" \in tables /\ "takeaways_v8" \in tables
                           /\ \A r \in Rows : Absent \in {takeaways[r], takeaways_v8[r]}
           /\ s = "drop" => "takeaways" \in tables
           /\ s = "rename" => "takeaways" \notin tables /\ "takeaways_v8" \in tables
BY DEF CanRun, Columns, TakeawayColumns, FiringColumns, Tables

\* A statement SQLite accepts leaves a well-formed store.
LEMMA RunType ==
    ASSUME TypeOK, NEW i \in Statements, CanRun(Ladder[i]), Run(Ladder[i])
    PROVE  /\ tables' \subseteq Tables
           /\ columns' \subseteq Columns
           /\ takeaways' \in [Rows -> Cell]
           /\ takeaways_v8' \in [Rows -> Cell]
           /\ "takeaways" \notin tables' =>
                 TakeawayColumns \cap columns' = {} /\ \A r \in Rows : takeaways'[r] = Absent
           /\ "takeaways_v8" \notin tables' => \A r \in Rows : takeaways_v8'[r] = Absent
<1>2. CASE Ladder[i] \in Columns /\ AddColumn(Ladder[i])
    BY <1>2, CanRunMeans DEF AddColumn, TypeOK
<1>3. CASE Ladder[i] \in Tables /\ CreateTable(Ladder[i])
    BY <1>3 DEF CreateTable, TypeOK, Tables
<1>4. CASE Ladder[i] = "copy" /\ Copy
    <2>1. "takeaways_v8" \in tables
        BY <1>4, CanRunMeans
    <2>2. takeaways_v8' \in [Rows -> Cell]
        BY <1>4 DEF Copy, TypeOK, Cell
    <2> QED
        BY <1>4, <2>1, <2>2 DEF Copy, TypeOK
<1>5. CASE Ladder[i] = "drop" /\ Drop
    BY <1>5 DEF Drop, TypeOK, Cell
<1>6. CASE Ladder[i] = "rename" /\ Rename
    BY <1>6 DEF Rename, TypeOK, Cell, Tables, Columns
<1> QED
    BY <1>2, <1>3, <1>4, <1>5, <1>6 DEF Run

LEMMA TypeStep == TypeOK /\ [Next]_vars => TypeOK'
<1> SUFFICES ASSUME TypeOK, [Next]_vars PROVE TypeOK'
    OBVIOUS
<1>0. overlapped \in BOOLEAN /\ runs \in 0 .. MaxRuns /\ MaxRuns \in Nat
    BY MigrateAssumption DEF TypeOK
<1>1. ASSUME NEW m \in Migrators, DescribeTakeaways(m) PROVE TypeOK'
    <2>1. runs' \in 0 .. MaxRuns /\ overlapped' \in BOOLEAN
        BY <1>0, <1>1 DEF DescribeTakeaways
    <2> QED
        BY <1>1, <2>1, EndType, RememberType DEF DescribeTakeaways
<1>2. ASSUME NEW m \in Migrators,
             DescribeFirings(m) \/ DescribeViolations(m) \/ DescribeMutations(m)
                \/ Finish(m) \/ Crash(m)
      PROVE  TypeOK'
    <2>1. runs' \in 0 .. MaxRuns /\ overlapped' \in BOOLEAN
          /\ UNCHANGED <<store, opened, written>>
        BY <1>0, <1>2 DEF DescribeFirings, DescribeViolations, DescribeMutations, Finish, Crash
    <2> QED
        BY <1>2, <2>1, EndType, RememberType
        DEF DescribeFirings, DescribeViolations, DescribeMutations, Finish, Crash
<1>3. ASSUME NEW m \in Migrators, Execute(m) PROVE TypeOK'
    <2> PICK i \in Statements :
          \/ /\ CanRun(Ladder[i]) /\ Run(Ladder[i])
             /\ todo' = [todo EXCEPT ![m] = todo[m] \ {i}]
             /\ UNCHANGED <<pc, outcome>>
          \/ End(m, "error") /\ UNCHANGED store
        BY <1>3 DEF Execute
    <2>1. UNCHANGED <<opened, written, runs, overlapped>>
        BY <1>3 DEF Execute
    <2>2. CASE End(m, "error") /\ UNCHANGED store
        BY <1>0, <2>1, <2>2, EndType
    <2>3. CASE /\ CanRun(Ladder[i]) /\ Run(Ladder[i])
               /\ todo' = [todo EXCEPT ![m] = todo[m] \ {i}]
               /\ UNCHANGED <<pc, outcome>>
        BY <2>1, <2>3, RunType DEF TypeOK
    <2> QED
        BY <2>2, <2>3
<1>4. ASSUME NEW s \in Sessions, Open(s) \/ Close(s) PROVE TypeOK'
    BY <1>4 DEF Open, Close, TypeOK, store
<1>5. ASSUME NEW s \in Sessions, NEW r \in Rows, Add(s, r) PROVE TypeOK'
    <2>1. CASE "takeaways" \in tables /\ "violation_signature" \in columns
        <3>0. /\ takeaways' = [takeaways EXCEPT ![r] = Null]
              /\ written' = [written EXCEPT ![r] = Null]
            BY <1>5, <2>1 DEF Add
        <3>1. takeaways' \in [Rows -> Cell] /\ written' \in [Rows -> Cell]
            BY <3>0 DEF TypeOK, Cell
        <3>2. opened' \subseteq Sessions
            BY <1>5, <2>1 DEF Add, TypeOK
        <3>3. /\ "takeaways" \in tables'
              /\ UNCHANGED <<tables, columns, takeaways_v8, pc, todo, outcome, runs, overlapped>>
            BY <1>5, <2>1 DEF Add
        <3> QED
            BY <3>1, <3>2, <3>3 DEF TypeOK
    <2>2. CASE ~("takeaways" \in tables /\ "violation_signature" \in columns)
        <3>1. /\ opened' \subseteq opened
              /\ UNCHANGED <<takeaways, written, tables, columns, takeaways_v8,
                             pc, todo, outcome, runs, overlapped>>
            BY <1>5, <2>2 DEF Add
        <3> QED
            BY <3>1 DEF TypeOK
    <2> QED
        BY <2>1, <2>2
<1>6. ASSUME NEW s \in Sessions, NEW r \in Rows, NEW value \in Thresholds, Tune(s, r, value)
      PROVE  TypeOK'
    <2>1. "takeaways" \in tables
        BY <1>6 DEF Tune, TypeOK, TakeawayColumns
    <2>2. takeaways' \in [Rows -> Cell] /\ written' \in [Rows -> Cell]
        BY <1>6 DEF Tune, TypeOK, Cell
    <2> QED
        BY <1>6, <2>1, <2>2 DEF Tune, TypeOK
<1>7. CASE UNCHANGED vars
    BY <1>7 DEF vars, store, TypeOK
<1> QED
    BY <1>1, <1>2, <1>3, <1>4, <1>5, <1>6, <1>7 DEF Next, Migrate, Use

\* Every variable keeps its type, and a table that does not exist stays empty.
THEOREM TypeCorrect == Spec => []TypeOK
<1> QED
    BY InitType, TypeStep, PTL DEF Spec

\* The whole rebuild is in a plan, or none of it.
LEMMA PlanRebuild ==
    ASSUME NEW missing
    PROVE  \A i \in Rebuild : i \in Plan(missing) <=> "sem_threshold" \in missing
BY DEF Plan, Rebuild, Statements, Indicator

LEMMA InvInit == Init => MigrateInv
<1> SUFFICES ASSUME Init PROVE MigrateInv
    OBVIOUS
<1>1. TypeOK /\ "takeaways" \in tables
    BY InitType DEF Init, VersionTables
<1>2. \A m \in Migrators : RebuildStage(m)
    BY DEF Init, RebuildStage, Has
<1>3. RowsKept /\ OpenedStays /\ NoThresholdBefore
    BY <1>1 DEF Init, RowsKept, OpenedStays, NoThresholdBefore
<1> QED
    BY <1>1, <1>2, <1>3 DEF Init, MigrateInv, OneRunInv, OneRun, IdleHasNoPlan

\* A run that leaves the store alone and the rebuild's part of its plan as it was,
\* or that has no plan at all, is in the same stage.
LEMMA SameStage ==
    ASSUME NEW m \in Migrators, RebuildStage(m), UNCHANGED <<store, written>>,
           \/ \A i \in Rebuild : Has(m, i)' <=> Has(m, i)
           \/ todo'[m] = {},
           pc[m] = "run" => pc'[m] = "run" \/ todo'[m] = {}
    PROVE  RebuildStage(m)'
BY DEF RebuildStage, Has, Rebuild, store

\* The rest of the invariant is about the store and the sessions alone.
LEMMA SameStore ==
    ASSUME RowsKept, OpenedStays, NoThresholdBefore, UNCHANGED <<store, written>>,
           overlapped' = overlapped, opened' = opened
    PROVE  RowsKept' /\ OpenedStays' /\ NoThresholdBefore'
BY DEF RowsKept, OpenedStays, NoThresholdBefore, Fingerprint, store

\* A run ends, and leaves the store as it is.
LEMMA EndInv ==
    ASSUME TypeOK, IdleHasNoPlan, ~overlapped => OneRunInv,
           NEW m \in Migrators, NEW result, End(m, result),
           UNCHANGED <<store, opened, written, overlapped>>
    PROVE  IdleHasNoPlan' /\ (~overlapped' => OneRunInv')
<1>1. /\ pc'[m] = "idle" /\ todo'[m] = {}
      /\ \A n \in Migrators \ {m} : pc'[n] = pc[n] /\ todo'[n] = todo[n]
    BY DEF End, TypeOK
<1>2. IdleHasNoPlan'
    BY <1>1 DEF IdleHasNoPlan
<1>3. ASSUME ~overlapped PROVE OneRunInv'
    <2>1. ASSUME NEW n \in Migrators PROVE RebuildStage(n)'
        <3>1. RebuildStage(n)
            BY <1>3 DEF OneRunInv
        <3>2. (todo'[n] = {}) \/ \A i \in Rebuild : Has(n, i)' <=> Has(n, i)
            BY <1>1 DEF Has
        <3>3. pc[n] = "run" => pc'[n] = "run" \/ todo'[n] = {}
            BY <1>1
        <3> QED
            BY <3>1, <3>2, <3>3, SameStage
    <2>2. OneRun'
        BY <1>1, <1>3 DEF OneRunInv, OneRun
    <2> QED
        BY <1>3, <2>1, <2>2, SameStore DEF OneRunInv
<1> QED
    BY <1>2, <1>3

\* A description after the first adds nothing of the rebuild to the plan.
LEMMA DescribeInv ==
    ASSUME TypeOK, IdleHasNoPlan, ~overlapped => OneRunInv,
           NEW m \in Migrators, pc[m] \in {"firings", "violations", "mutations"},
           NEW missing, "sem_threshold" \notin missing,
           NEW next \in {"violations", "mutations", "run"}, Remember(m, missing, next),
           UNCHANGED <<store, opened, written, overlapped>>
    PROVE  IdleHasNoPlan' /\ (~overlapped' => OneRunInv')
<1>1. /\ pc'[m] = next /\ pc[m] # "run" /\ pc[m] # "idle" /\ pc'[m] # "idle"
      /\ todo'[m] = todo[m] \cup Plan(missing)
      /\ \A n \in Migrators \ {m} : pc'[n] = pc[n] /\ todo'[n] = todo[n]
    BY DEF Remember, TypeOK
<1>2. IdleHasNoPlan'
    BY <1>1 DEF IdleHasNoPlan
<1>3. ASSUME ~overlapped PROVE OneRunInv'
    <2>1. ASSUME NEW n \in Migrators PROVE RebuildStage(n)'
        <3>1. RebuildStage(n)
            BY <1>3 DEF OneRunInv
        <3>2. \A i \in Rebuild : Has(n, i)' <=> Has(n, i)
            BY <1>1, PlanRebuild DEF Has
        <3>3. pc[n] = "run" => pc'[n] = "run"
            BY <1>1
        <3> QED
            BY <3>1, <3>2, <3>3, SameStage
    <2>2. OneRun'
        BY <1>1, <1>3 DEF OneRunInv, OneRun
    <2> QED
        BY <1>3, <2>1, <2>2, SameStore DEF OneRunInv
<1> QED
    BY <1>2, <1>3

LEMMA StartInv ==
    ASSUME MigrateInv, NEW m \in Migrators, DescribeTakeaways(m)
    PROVE  IdleHasNoPlan' /\ (~overlapped' => OneRunInv')
<1>a. /\ TypeOK /\ IdleHasNoPlan /\ pc[m] = "idle"
      /\ UNCHANGED <<store, opened, written>>
      /\ overlapped' = (overlapped \/ \E n \in Migrators : pc[n] # "idle")
    BY DEF MigrateInv, DescribeTakeaways
<1>b. \A n \in Migrators : pc[n] = "idle" => todo[n] = {}
    BY <1>a DEF IdleHasNoPlan
<1>0. /\ TypeOK /\ IdleHasNoPlan /\ pc[m] = "idle" /\ todo[m] = {}
      /\ UNCHANGED <<store, opened, written>>
      /\ ~overlapped' => ~overlapped /\ \A n \in Migrators : pc[n] = "idle" /\ todo[n] = {}
    BY <1>a, <1>b
<1>1. /\ \A n \in Migrators \ {m} : pc'[n] = pc[n] /\ todo'[n] = todo[n]
      /\ \/ pc'[m] = "idle" /\ todo'[m] = {}
         \/ /\ pc'[m] = "firings" /\ todo'[m] = Plan(TakeawayColumns \ columns)
            /\ "takeaways" \in tables
    <2>1. CASE End(m, "error")
        BY <1>0, <2>1 DEF End, TypeOK
    <2>2. CASE /\ "takeaways" \in tables
               /\ Remember(m, TakeawayColumns \ columns, "firings")
        <3>1. todo' = [todo EXCEPT ![m] = Plan(TakeawayColumns \ columns)]
            BY <1>0, <2>2 DEF Remember
        <3> QED
            BY <1>0, <2>2, <3>1 DEF Remember, TypeOK
    <2> QED
        BY <2>1, <2>2 DEF DescribeTakeaways
<1>2. IdleHasNoPlan'
    BY <1>0, <1>1 DEF IdleHasNoPlan
<1>3. ASSUME ~overlapped' PROVE OneRunInv'
    <2>0. OneRunInv /\ overlapped' = overlapped
        BY <1>0, <1>3 DEF MigrateInv, TypeOK, DescribeTakeaways
    <2>1. ASSUME NEW n \in Migrators, n # m PROVE RebuildStage(n)'
        BY <1>0, <1>1, <1>3, <2>1 DEF RebuildStage, Has
    <2>2. RebuildStage(m)'
        <3>1. CASE todo'[m] = {}
            BY <3>1 DEF RebuildStage, Has
        <3>2. CASE todo'[m] = Plan(TakeawayColumns \ columns) /\ "takeaways" \in tables
            <4>1. \A i \in Rebuild : Has(m, i)' <=> "sem_threshold" \notin columns
                BY <3>2, PlanRebuild DEF Has, TakeawayColumns
            <4> QED
                BY <1>0, <3>2, <4>1 DEF RebuildStage, Rebuild, store
        <3> QED
            BY <1>1, <3>1, <3>2
    <2>3. OneRun'
        BY <1>0, <1>1, <1>3 DEF OneRun
    <2> QED
        BY <1>0, <2>0, <2>1, <2>2, <2>3, SameStore DEF OneRunInv
<1> QED
    BY <1>2, <1>3

\* What each statement of the rebuild, and any other statement, does to the store.
LEMMA StatementEffect ==
    ASSUME NEW i \in Statements, CanRun(Ladder[i]), Run(Ladder[i])
    PROVE  /\ i = 4 => CreateTable("takeaways_v8") /\ "takeaways_v8" \notin tables
           /\ i = 5 => Copy
           /\ i = 6 => Drop
           /\ i = 7 => Rename /\ "takeaways" \notin tables
           /\ i \notin Rebuild => /\ UNCHANGED <<takeaways, takeaways_v8>>
                                  /\ tables \subseteq tables' /\ columns \subseteq columns'
                                  /\ "takeaways" \in tables' => "takeaways" \in tables
                                  /\ "sem_threshold" \in columns' => "sem_threshold" \in columns
<1> USE DEF Columns, TakeawayColumns, FiringColumns, Tables
<1>1. CASE i = 4
    BY <1>1, CanRunMeans DEF Ladder, Run, Rebuild
<1>2. CASE i = 5
    BY <1>2 DEF Ladder, Run, Rebuild
<1>3. CASE i = 6
    BY <1>3 DEF Ladder, Run, Rebuild
<1>4. CASE i = 7
    BY <1>4, CanRunMeans DEF Ladder, Run, Rebuild
<1>5. CASE i \notin Rebuild
    BY <1>5 DEF Ladder, Run, Rebuild, Statements, AddColumn, CreateTable
<1> QED
    BY <1>1, <1>2, <1>3, <1>4, <1>5 DEF Rebuild, Statements

LEMMA ExecuteInv ==
    ASSUME TypeOK, IdleHasNoPlan, OneRunInv, ~overlapped,
           NEW m \in Migrators, pc[m] = "run",
           NEW i \in Statements, IsNext(m, i), CanRun(Ladder[i]), Run(Ladder[i]),
           todo' = [todo EXCEPT ![m] = todo[m] \ {i}],
           UNCHANGED <<pc, outcome, opened, written, runs, overlapped>>
    PROVE  OneRunInv'
<1>0. /\ OneRun /\ OneRun' /\ RebuildStage(m) /\ NoThresholdBefore /\ RowsKept /\ OpenedStays
      /\ \A n \in Migrators \ {m} : todo'[n] = {}
      /\ \A j \in Statements : Has(m, j)' <=> Has(m, j) /\ j # i
      /\ \A j \in Statements : Has(m, j) => i <= j
      /\ Has(m, i)
    BY DEF OneRunInv, OneRun, IdleHasNoPlan, TypeOK, Has, IsNext
<1>1. ASSUME NEW n \in Migrators, n # m PROVE RebuildStage(n)'
    BY <1>0, <1>1 DEF RebuildStage, Has
<1>2. i \in Rebuild => Has(m, 7) /\ opened = {}
    BY <1>0 DEF RebuildStage, Rebuild, OpenedStays, Fingerprint, TakeawayColumns
<1>3. CASE i \notin Rebuild
    <2>1. /\ UNCHANGED <<takeaways, takeaways_v8>>
          /\ tables \subseteq tables' /\ columns \subseteq columns'
          /\ "takeaways" \in tables' <=> "takeaways" \in tables
          /\ "sem_threshold" \in columns' <=> "sem_threshold" \in columns
        BY <1>3, StatementEffect
    <2>2. RebuildStage(m)'
        <3>1. \A j \in Rebuild : Has(m, j)' <=> Has(m, j)
            BY <1>0, <1>3 DEF Rebuild, Statements
        <3> QED
            BY <1>0, <2>1, <3>1 DEF RebuildStage, Rebuild
    <2>3. RowsKept' /\ NoThresholdBefore' /\ OpenedStays'
        BY <1>0, <2>1 DEF RowsKept, NoThresholdBefore, OpenedStays, Fingerprint
    <2> QED
        BY <1>0, <1>1, <2>2, <2>3 DEF OneRunInv
<1>4. CASE i = 4
    <2>1. /\ tables' = tables \cup {"takeaways_v8"} /\ "takeaways_v8" \notin tables
          /\ UNCHANGED <<columns, takeaways, takeaways_v8>>
        BY <1>4, StatementEffect DEF CreateTable
    <2>2. \A r \in Rows : takeaways_v8[r] = Absent
        BY <2>1 DEF TypeOK
    <2>3. RebuildStage(m)'
        BY <1>0, <1>4, <2>1, <2>2 DEF RebuildStage, Statements
    <2>4. RowsKept' /\ NoThresholdBefore' /\ OpenedStays'
        BY <1>0, <1>2, <1>4, <2>1 DEF RowsKept, NoThresholdBefore, OpenedStays, Rebuild
    <2> QED
        BY <1>0, <1>1, <2>3, <2>4 DEF OneRunInv
<1>5. CASE i = 5
    <2>1. /\ takeaways_v8' = [r \in Rows |-> IF takeaways[r] # Absent THEN Null
                                             ELSE takeaways_v8[r]]
          /\ UNCHANGED <<tables, columns, takeaways>>
        BY <1>5, StatementEffect DEF Copy
    <2>2. /\ Has(m, 5) /\ ~Has(m, 4) /\ Has(m, 6) /\ Has(m, 7)
          /\ "takeaways" \in tables /\ "takeaways_v8" \in tables
          /\ "sem_threshold" \notin columns
          /\ \A r \in Rows : takeaways_v8[r] = Absent
        BY <1>0, <1>5 DEF RebuildStage, Statements
    <2>3. takeaways = written /\ \A r \in Rows : written[r] \in {Absent, Null}
        BY <1>0, <2>2 DEF RowsKept, NoThresholdBefore
    <2>4. takeaways_v8' = written
        BY <2>1, <2>2, <2>3 DEF TypeOK
    <2>5. RebuildStage(m)'
        BY <1>0, <1>5, <2>1, <2>2, <2>4 DEF RebuildStage, Statements
    <2>6. RowsKept' /\ NoThresholdBefore' /\ OpenedStays'
        BY <1>0, <1>2, <1>5, <2>1, <2>2, <2>3
        DEF RowsKept, NoThresholdBefore, OpenedStays, Rebuild
    <2> QED
        BY <1>0, <1>1, <2>5, <2>6 DEF OneRunInv
<1>6. CASE i = 6
    <2>1. /\ tables' = tables \ {"takeaways"} /\ columns' = columns \ TakeawayColumns
          /\ takeaways_v8' = takeaways_v8
        BY <1>6, StatementEffect DEF Drop
    <2>2. /\ ~Has(m, 4) /\ ~Has(m, 5) /\ Has(m, 6) /\ Has(m, 7)
          /\ "takeaways_v8" \in tables /\ "sem_threshold" \notin columns
          /\ takeaways_v8 = written
        BY <1>0, <1>6 DEF RebuildStage, Statements
    <2>3. RebuildStage(m)'
        BY <1>0, <1>6, <2>1, <2>2 DEF RebuildStage, Statements
    <2>4. RowsKept' /\ NoThresholdBefore' /\ OpenedStays'
        BY <1>0, <1>2, <1>6, <2>1, <2>2
        DEF RowsKept, NoThresholdBefore, OpenedStays, Rebuild
    <2> QED
        BY <1>0, <1>1, <2>3, <2>4 DEF OneRunInv
<1>7. CASE i = 7
    <2>1. /\ "takeaways" \notin tables /\ "takeaways" \in tables'
          /\ "sem_threshold" \in columns'
          /\ takeaways' = takeaways_v8
        BY <1>7, StatementEffect DEF Rename, TakeawayColumns
    <2>2. takeaways_v8 = written
        BY <1>0, <2>1 DEF RowsKept
    <2>3. RebuildStage(m)'
        <3>1. \A j \in Rebuild : ~Has(m, j)'
            BY <1>0, <1>7 DEF Rebuild, Statements
        <3> QED
            BY <3>1 DEF RebuildStage, Rebuild
    <2>4. RowsKept' /\ NoThresholdBefore' /\ OpenedStays'
        BY <1>0, <1>2, <1>7, <2>1, <2>2
        DEF RowsKept, NoThresholdBefore, OpenedStays, Rebuild
    <2> QED
        BY <1>0, <1>1, <2>3, <2>4 DEF OneRunInv
<1> QED
    BY <1>3, <1>4, <1>5, <1>6, <1>7 DEF Rebuild

\* A session that is open sees a store no rebuild is at work on.
LEMMA UseInv ==
    ASSUME TypeOK, OneRunInv, ~overlapped, NEW s \in Sessions, Use(s)
    PROVE  OneRunInv'
<1>0. UNCHANGED <<tables, columns, takeaways_v8, pc, todo, overlapped>>
    BY DEF Use, Open, Close, Add, Tune, store
<1>1. Fingerprint
    BY DEF Use, Open, Close, Add, Tune, OneRunInv, OpenedStays
<1>2. "takeaways" \in tables /\ TakeawayColumns \subseteq columns
    BY <1>1 DEF Fingerprint
<1>3. takeaways = written
    BY <1>2 DEF OneRunInv, RowsKept
<1>4. takeaways' = written'
    BY <1>2, <1>3 DEF Use, Open, Close, Add, Tune, store, TakeawayColumns
<1>5. \A m \in Migrators : RebuildStage(m)'
    <2> SUFFICES ASSUME NEW m \in Migrators PROVE RebuildStage(m)'
        OBVIOUS
    <2>1. ~Has(m, 7) /\ ~Has(m, 6) /\ ~Has(m, 5) /\ ~Has(m, 4)
        BY <1>2 DEF OneRunInv, RebuildStage, TakeawayColumns
    <2> QED
        BY <1>0, <2>1 DEF RebuildStage, Has
<1>6. OneRun' /\ RowsKept' /\ NoThresholdBefore' /\ OpenedStays'
    BY <1>0, <1>1, <1>2, <1>4
    DEF OneRunInv, OneRun, RowsKept, NoThresholdBefore, OpenedStays, Fingerprint, TakeawayColumns
<1> QED
    BY <1>5, <1>6 DEF OneRunInv

LEMMA InvStep == MigrateInv /\ [Next]_vars => MigrateInv'
<1> SUFFICES ASSUME MigrateInv, [Next]_vars PROVE IdleHasNoPlan' /\ (~overlapped' => OneRunInv')
    BY TypeStep DEF MigrateInv
<1>0. TypeOK /\ IdleHasNoPlan /\ (~overlapped => OneRunInv)
    BY DEF MigrateInv
<1>1. ASSUME NEW m \in Migrators, DescribeTakeaways(m)
      PROVE  IdleHasNoPlan' /\ (~overlapped' => OneRunInv')
    BY <1>1, StartInv
<1>2. ASSUME NEW m \in Migrators, DescribeFirings(m)
      PROVE  IdleHasNoPlan' /\ (~overlapped' => OneRunInv')
    BY <1>0, <1>2, DescribeInv DEF DescribeFirings
<1>3. ASSUME NEW m \in Migrators, DescribeViolations(m)
      PROVE  IdleHasNoPlan' /\ (~overlapped' => OneRunInv')
    BY <1>0, <1>3, DescribeInv DEF DescribeViolations
<1>4. ASSUME NEW m \in Migrators, DescribeMutations(m)
      PROVE  IdleHasNoPlan' /\ (~overlapped' => OneRunInv')
    BY <1>0, <1>4, DescribeInv, EndInv DEF DescribeMutations
<1>5. ASSUME NEW m \in Migrators, Finish(m) \/ Crash(m)
      PROVE  IdleHasNoPlan' /\ (~overlapped' => OneRunInv')
    <2>1. PICK result : End(m, result) /\ UNCHANGED <<store, opened, written, overlapped>>
        BY <1>5 DEF Finish, Crash
    <2> QED
        BY <1>0, <2>1, EndInv
<1>6. ASSUME NEW m \in Migrators, Execute(m)
      PROVE  IdleHasNoPlan' /\ (~overlapped' => OneRunInv')
    <2>0. pc[m] = "run" /\ UNCHANGED <<opened, written, runs, overlapped>>
        BY <1>6 DEF Execute
    <2> PICK i \in Statements :
          /\ IsNext(m, i)
          /\ \/ /\ CanRun(Ladder[i]) /\ Run(Ladder[i])
                /\ todo' = [todo EXCEPT ![m] = todo[m] \ {i}]
                /\ UNCHANGED <<pc, outcome>>
             \/ End(m, "error") /\ UNCHANGED store
        BY <1>6 DEF Execute
    <2>1. CASE End(m, "error") /\ UNCHANGED store
        BY <1>0, <2>0, <2>1, EndInv
    <2>2. CASE /\ CanRun(Ladder[i]) /\ Run(Ladder[i])
               /\ todo' = [todo EXCEPT ![m] = todo[m] \ {i}]
               /\ UNCHANGED <<pc, outcome>>
        <3>1. IdleHasNoPlan'
            BY <1>0, <2>0, <2>2 DEF IdleHasNoPlan, TypeOK
        <3>2. ~overlapped' => OneRunInv'
            BY <1>0, <2>0, <2>2, ExecuteInv
        <3> QED
            BY <3>1, <3>2
    <2> QED
        BY <2>1, <2>2
<1>7. ASSUME NEW s \in Sessions, Use(s)
      PROVE  IdleHasNoPlan' /\ (~overlapped' => OneRunInv')
    <2>1. UNCHANGED <<pc, todo, overlapped>>
        BY <1>7 DEF Use, Open, Close, Add, Tune
    <2>2. IdleHasNoPlan'
        BY <1>0, <2>1 DEF IdleHasNoPlan
    <2>3. ~overlapped' => OneRunInv'
        BY <1>0, <1>7, <2>1, UseInv
    <2> QED
        BY <2>2, <2>3
<1>8. CASE UNCHANGED vars
    <2>1. IdleHasNoPlan'
        BY <1>0, <1>8 DEF vars, IdleHasNoPlan
    <2>2. ASSUME ~overlapped PROVE OneRunInv'
        <3>1. OneRun' /\ \A m \in Migrators : RebuildStage(m)'
            BY <1>0, <1>8, <2>2 DEF vars, store, OneRunInv, OneRun, RebuildStage, Has
        <3>2. RowsKept' /\ OpenedStays' /\ NoThresholdBefore'
            BY <1>0, <1>8, <2>2, SameStore DEF vars, OneRunInv
        <3> QED
            BY <3>1, <3>2 DEF OneRunInv
    <2> QED
        BY <1>8, <2>1, <2>2 DEF vars
<1> QED
    BY <1>1, <1>2, <1>3, <1>4, <1>5, <1>6, <1>7, <1>8 DEF Next, Migrate

\* The rebuild loses no row and no threshold, wherever a run is killed and however
\* often migrate is started again, as long as no two runs overlap.
THEOREM MigrationKeepsRows == Spec => []RowsKept
<1>1. MigrateInv => RowsKept
    BY DEF MigrateInv, OneRunInv, RowsKept
<1> QED
    BY <1>1, InvInit, InvStep, PTL DEF Spec

\* As long as no two runs overlap, no migration cuts off a session that the reader
\* has let in, wherever runs are killed and however often they are started again.
THEOREM SessionsStayOpen == Spec => []OpenedStays
<1>1. MigrateInv => OpenedStays
    BY DEF MigrateInv, OneRunInv, OpenedStays
<1> QED
    BY <1>1, InvInit, InvStep, PTL DEF Spec
-----------------------------------------------------------------------------
(* A run that reports success has left nothing of v9 out *)

\* Whatever a run has looked for is there or in the rest of its plan, where the
\* rename restores what the drop takes along.
PlannedOrThere(m) ==
    /\ pc[m] # "idle" =>
          /\ "violation_signature" \in columns \/ Has(m, 1) \/ Has(m, 7)
          /\ "sem_threshold" \in columns \/ Has(m, 7)
          /\ "takeaways" \in tables \/ Has(m, 7)
    /\ pc[m] \in {"violations", "mutations", "run"} =>
          /\ "match_evidence" \in columns \/ Has(m, 2)
          /\ "relevance_score" \in columns \/ Has(m, 9)
    /\ pc[m] \in {"mutations", "run"} => "violations" \in tables \/ Has(m, 3)
    /\ pc[m] = "run" => "mutations" \in tables \/ Has(m, 8)
    /\ Has(m, 9) => Has(m, 10)

\* A run was killed, or is, between the two columns of v9: no plan has the second
\* but that run's, whose last statement it is.
HalfDone == "relevance_score" \in columns /\ "head_version" \notin columns

HalfDoneInv ==
    HalfDone => /\ Fingerprint
                /\ \A m \in Migrators :
                     IF pc[m] = "run" THEN todo[m] = {10} ELSE todo[m] = {}

CurrentInv ==
    /\ \A m \in Migrators : PlannedOrThere(m)
    /\ HalfDoneInv
    /\ MigratedIsCurrent

LEMMA PlanOf ==
    ASSUME NEW missing
    PROVE  /\ 1 \in Plan(missing) <=> "violation_signature" \in missing
           /\ 2 \in Plan(missing) <=> "match_evidence" \in missing
           /\ 3 \in Plan(missing) <=> "violations" \in missing
           /\ 7 \in Plan(missing) <=> "sem_threshold" \in missing
           /\ 8 \in Plan(missing) <=> "mutations" \in missing
           /\ 9 \in Plan(missing) <=> "relevance_score" \in missing
           /\ 10 \in Plan(missing) <=> "relevance_score" \in missing
BY DEF Plan, Statements, Indicator

LEMMA EmptyPlan == Plan({}) = {}
BY DEF Plan

\* A run ends: with the store as it is, only a success has anything to show.
LEMMA EndCurrent ==
    ASSUME TypeOK, CurrentInv, NEW m \in Migrators, NEW result, End(m, result),
           result = "migrated" => overlapped \/ Current,
           UNCHANGED <<store, overlapped>>
    PROVE  CurrentInv'
<1>1. /\ pc'[m] = "idle" /\ todo'[m] = {} /\ outcome'[m] = result
      /\ \A n \in Migrators \ {m} : pc'[n] = pc[n] /\ todo'[n] = todo[n] /\ outcome'[n] = outcome[n]
    BY DEF End, TypeOK
<1>2. UNCHANGED <<tables, columns>>
    BY DEF store
<1>3. \A n \in Migrators : PlannedOrThere(n)'
    BY <1>1, <1>2 DEF CurrentInv, PlannedOrThere, Has
<1>4. HalfDoneInv'
    BY <1>1, <1>2 DEF CurrentInv, HalfDoneInv, HalfDone, Fingerprint
<1>5. MigratedIsCurrent'
    BY <1>1, <1>2 DEF CurrentInv, MigratedIsCurrent, Current, Fingerprint
<1> QED
    BY <1>3, <1>4, <1>5 DEF CurrentInv

\* A run reads the next table; everything it was to look for there is there or
\* goes into its plan.
LEMMA DescribeCurrent ==
    ASSUME TypeOK, CurrentInv, NEW m \in Migrators, NEW missing, NEW next, Remember(m, missing, next),
           PlannedOrThere(m)', next = "run" => todo'[m] # {},
           HalfDone /\ Fingerprint => missing = {},
           pc[m] # "run", UNCHANGED <<store, overlapped>>
    PROVE  CurrentInv'
<1>1. /\ pc'[m] = next /\ todo'[m] = todo[m] \cup Plan(missing) /\ outcome' = outcome
      /\ \A n \in Migrators \ {m} : pc'[n] = pc[n] /\ todo'[n] = todo[n]
    BY DEF Remember, TypeOK
<1>2. UNCHANGED <<tables, columns>>
    BY DEF store
<1>3. ASSUME NEW n \in Migrators, n # m
      PROVE  PlannedOrThere(n)'
    BY <1>1, <1>2, <1>3 DEF CurrentInv, PlannedOrThere, Has
<1>4. HalfDoneInv'
    <2> SUFFICES ASSUME HalfDone
                 PROVE  HalfDoneInv'
        BY <1>2 DEF HalfDoneInv, HalfDone
    <2>1. Fingerprint /\ todo[m] = {} /\ missing = {}
        BY DEF CurrentInv, HalfDoneInv
    <2>2. todo'[m] = {}
        BY <1>1, <2>1, EmptyPlan
    <2> QED
        BY <1>1, <1>2, <2>1, <2>2 DEF CurrentInv, HalfDoneInv, Fingerprint
<1>5. MigratedIsCurrent'
    BY <1>1, <1>2 DEF CurrentInv, MigratedIsCurrent, Current, Fingerprint
<1> QED
    BY <1>3, <1>4, <1>5 DEF CurrentInv

\* What each statement adds, and that only the drop takes anything away.
LEMMA StatementAdds ==
    ASSUME NEW i \in Statements, CanRun(Ladder[i]), Run(Ladder[i])
    PROVE  /\ i = 1 => "violation_signature" \in columns'
           /\ i = 2 => "match_evidence" \in columns'
           /\ i = 3 => "violations" \in tables'
           /\ i = 7 => TakeawayColumns \subseteq columns' /\ "takeaways" \in tables'
           /\ i = 8 => "mutations" \in tables'
           /\ i = 9 => "relevance_score" \in columns'
           /\ i = 10 => "head_version" \in columns'
           /\ i # 9 => ("relevance_score" \in columns' <=> "relevance_score" \in columns)
           /\ columns \ TakeawayColumns \subseteq columns'
           /\ {"violations", "mutations"} \cap tables \subseteq tables'
           /\ i # 6 => columns \subseteq columns' /\ ("takeaways" \in tables => "takeaways" \in tables')
<1> USE DEF Columns, TakeawayColumns, FiringColumns, Tables, Ladder, Run
<1>1. CASE i \in {1, 2, 9, 10}
    BY <1>1 DEF AddColumn
<1>2. CASE i \in {3, 4, 8}
    BY <1>2 DEF CreateTable
<1>3. CASE i = 5
    BY <1>3 DEF Copy
<1>4. CASE i = 6
    BY <1>4 DEF Drop
<1>5. CASE i = 7
    BY <1>5 DEF Rename
<1> QED
    BY <1>1, <1>2, <1>3, <1>4, <1>5 DEF Statements

LEMMA ExecuteCurrent ==
    ASSUME TypeOK, IdleHasNoPlan, OneRunInv, CurrentInv, ~overlapped,
           NEW m \in Migrators, pc[m] = "run",
           NEW i \in Statements, IsNext(m, i), CanRun(Ladder[i]), Run(Ladder[i]),
           todo' = [todo EXCEPT ![m] = todo[m] \ {i}],
           UNCHANGED <<pc, outcome, opened, written, runs, overlapped>>
    PROVE  CurrentInv'
<1>1. /\ RebuildStage(m) /\ PlannedOrThere(m)
      /\ \A n \in Migrators \ {m} : pc'[n] = "idle" /\ todo'[n] = {}
      /\ \A j \in Statements : Has(m, j)' <=> Has(m, j) /\ j # i
      /\ \A j \in Statements : Has(m, j) => i <= j
      /\ Has(m, i) /\ pc'[m] = "run" /\ todo[m] \subseteq Statements
    BY DEF OneRunInv, OneRun, IdleHasNoPlan, CurrentInv, TypeOK, Has, IsNext
<1>2. i \in Rebuild => "sem_threshold" \notin columns
    BY <1>1 DEF RebuildStage, Rebuild
<1>3. ASSUME NEW n \in Migrators, n # m
      PROVE  PlannedOrThere(n)'
    BY <1>1, <1>3 DEF PlannedOrThere, Has
<1>4. PlannedOrThere(m)'
    <2> USE StatementAdds
    <2>1. Has(m, 7)' <=> Has(m, 7) /\ i # 7
        BY <1>1 DEF Statements
    <2>2. /\ "violation_signature" \in columns' \/ Has(m, 1)' \/ Has(m, 7)'
          /\ "sem_threshold" \in columns' \/ Has(m, 7)'
          /\ "takeaways" \in tables' \/ Has(m, 7)'
        <3>1. CASE i = 7
            BY <3>1 DEF TakeawayColumns
        <3>2. CASE i = 6
            BY <1>1, <2>1, <3>2 DEF RebuildStage
        <3>3. CASE i \notin {6, 7}
            BY <1>1, <2>1, <3>3 DEF PlannedOrThere, Statements
        <3> QED
            BY <3>1, <3>2, <3>3
    <2>3. /\ "match_evidence" \in columns' \/ Has(m, 2)'
          /\ "relevance_score" \in columns' \/ Has(m, 9)'
        BY <1>1 DEF PlannedOrThere, Statements, TakeawayColumns
    <2>4. /\ "violations" \in tables' \/ Has(m, 3)'
          /\ "mutations" \in tables' \/ Has(m, 8)'
        BY <1>1 DEF PlannedOrThere, Statements
    <2>5. Has(m, 9)' => Has(m, 10)'
        <3>1. Has(m, 9) => i <= 9
            BY <1>1 DEF Statements
        <3> QED
            BY <1>1, <3>1 DEF PlannedOrThere, Statements
    <2> QED
        BY <2>2, <2>3, <2>4, <2>5 DEF PlannedOrThere
<1>5. HalfDoneInv'
    <2> SUFFICES ASSUME HalfDone'
                 PROVE  Fingerprint' /\ todo'[m] = {10}
        BY <1>1 DEF HalfDoneInv
    <2>1. ~HalfDone
        <3> SUFFICES ASSUME HalfDone
                     PROVE  i = 10
            BY StatementAdds DEF HalfDone
        <3> QED
            BY <1>1 DEF CurrentInv, HalfDoneInv, Has
    <2>2. i = 9
        BY <2>1, StatementAdds DEF HalfDone, TakeawayColumns
    <2>3. \A j \in Statements : Has(m, j)' => j = 10
        BY <1>1, <2>2 DEF Statements
    <2>4. Has(m, 10)'
        BY <1>1, <2>2 DEF PlannedOrThere, Statements
    <2>5. todo'[m] = {10}
        <3>1. todo[m] \in SUBSET Statements /\ todo'[m] = todo[m] \ {i}
            BY DEF TypeOK
        <3>2. \A j \in todo'[m] : j \in Statements /\ j = 10
            BY <2>3, <3>1 DEF Has
        <3>3. 10 \in todo'[m]
            BY <2>4 DEF Has
        <3> QED
            BY <3>2, <3>3
    <2>6. Fingerprint'
        BY <1>1, <1>4, <2>5 DEF PlannedOrThere, Has, Fingerprint, TakeawayColumns
    <2> QED
        BY <2>5, <2>6
<1>6. MigratedIsCurrent'
    <2> SUFFICES ASSUME Current
                 PROVE  Current'
        BY DEF CurrentInv, MigratedIsCurrent
    <2>1. i \notin Rebuild
        BY <1>2 DEF Current, Fingerprint, TakeawayColumns
    <2> QED
        BY <2>1, StatementAdds DEF Current, Fingerprint, Rebuild
<1> QED
    BY <1>3, <1>4, <1>5, <1>6 DEF CurrentInv

LEMMA CurrentStep ==
    MigrateInv /\ (overlapped \/ CurrentInv) /\ [Next]_vars => overlapped' \/ CurrentInv'
<1> SUFFICES ASSUME MigrateInv, overlapped \/ CurrentInv, [Next]_vars, ~overlapped'
             PROVE  CurrentInv'
    OBVIOUS
<1>0. TypeOK /\ IdleHasNoPlan /\ ~overlapped /\ overlapped' = overlapped
    BY DEF MigrateInv, TypeOK, Next, Migrate, DescribeTakeaways, DescribeFirings,
           DescribeViolations, DescribeMutations, Execute, Finish, Crash, Use, Open, Close,
           Add, Tune, vars
<1>1. OneRunInv /\ CurrentInv
    BY <1>0 DEF MigrateInv
<1>2. ASSUME NEW m \in Migrators, DescribeTakeaways(m) PROVE CurrentInv'
    <2>1. pc[m] = "idle" /\ todo[m] = {} /\ UNCHANGED store
        BY <1>0, <1>2 DEF DescribeTakeaways, IdleHasNoPlan
    <2>2. CASE End(m, "error")
        BY <1>0, <1>1, <2>1, <2>2, EndCurrent
    <2>3. CASE "takeaways" \in tables /\ Remember(m, TakeawayColumns \ columns, "firings")
        <3>1. pc'[m] = "firings" /\ todo'[m] = Plan(TakeawayColumns \ columns)
            BY <1>0, <2>1, <2>3 DEF Remember, TypeOK
        <3>2. PlannedOrThere(m)'
            BY <2>1, <2>3, <3>1, PlanOf DEF PlannedOrThere, Has, TakeawayColumns, store
        <3>3. HalfDone /\ Fingerprint => TakeawayColumns \ columns = {}
            BY DEF Fingerprint
        <3> QED
            BY <1>0, <1>1, <2>1, <2>3, <3>2, <3>3, DescribeCurrent
    <2> QED
        BY <1>2, <2>2, <2>3 DEF DescribeTakeaways
<1>3. ASSUME NEW m \in Migrators, DescribeFirings(m) PROVE CurrentInv'
    <2> DEFINE missing == {"match_evidence", "relevance_score"} \ columns
    <2>1. pc[m] = "firings" /\ Remember(m, missing, "violations") /\ UNCHANGED store
        BY <1>3 DEF DescribeFirings
    <2>2. /\ pc'[m] = "violations" /\ todo'[m] = todo[m] \cup Plan(missing)
          /\ UNCHANGED <<tables, columns>> /\ PlannedOrThere(m)
        BY <1>0, <1>1, <2>1 DEF Remember, TypeOK, CurrentInv, store
    <2>3. /\ "match_evidence" \in missing <=> "match_evidence" \notin columns
          /\ "relevance_score" \in missing <=> "relevance_score" \notin columns
          /\ HalfDone /\ Fingerprint => missing = {}
        BY DEF HalfDone, Fingerprint
    <2> HIDE DEF missing
    <2>4. PlannedOrThere(m)'
        BY <2>1, <2>2, <2>3, PlanOf DEF PlannedOrThere, Has
    <2> QED
        BY <1>0, <1>1, <2>1, <2>3, <2>4, DescribeCurrent
<1>4. ASSUME NEW m \in Migrators, DescribeViolations(m) PROVE CurrentInv'
    <2> DEFINE missing == {"violations"} \ tables
    <2>1. pc[m] = "violations" /\ Remember(m, missing, "mutations") /\ UNCHANGED store
        BY <1>4 DEF DescribeViolations
    <2>2. /\ pc'[m] = "mutations" /\ todo'[m] = todo[m] \cup Plan(missing)
          /\ UNCHANGED <<tables, columns>> /\ PlannedOrThere(m)
        BY <1>0, <1>1, <2>1 DEF Remember, TypeOK, CurrentInv, store
    <2>3. /\ "violations" \in missing <=> "violations" \notin tables
          /\ "relevance_score" \notin missing
          /\ HalfDone /\ Fingerprint => missing = {}
        BY DEF Fingerprint
    <2> HIDE DEF missing
    <2>4. PlannedOrThere(m)'
        BY <2>1, <2>2, <2>3, PlanOf DEF PlannedOrThere, Has
    <2> QED
        BY <1>0, <1>1, <2>1, <2>3, <2>4, DescribeCurrent
<1>5. ASSUME NEW m \in Migrators, DescribeMutations(m) PROVE CurrentInv'
    <2> DEFINE missing == {"mutations"} \ tables
    <2>1. pc[m] = "mutations" /\ UNCHANGED store
        BY <1>5 DEF DescribeMutations
    <2>2. CASE End(m, "already v9")
        BY <1>0, <1>1, <2>1, <2>2, EndCurrent
    <2>3. CASE Remember(m, missing, "run") /\ todo[m] \cup Plan(missing) # {}
        <3>1. /\ pc'[m] = "run" /\ todo'[m] = todo[m] \cup Plan(missing)
              /\ UNCHANGED <<tables, columns>> /\ PlannedOrThere(m) /\ todo'[m] # {}
            BY <1>0, <1>1, <2>1, <2>3 DEF Remember, TypeOK, CurrentInv, store
        <3>2. /\ "mutations" \in missing <=> "mutations" \notin tables
              /\ "relevance_score" \notin missing
              /\ HalfDone /\ Fingerprint => missing = {}
            BY DEF Fingerprint
        <3> HIDE DEF missing
        <3>3. PlannedOrThere(m)'
            BY <2>1, <3>1, <3>2, PlanOf DEF PlannedOrThere, Has
        <3> QED
            BY <1>0, <1>1, <2>1, <2>3, <3>1, <3>2, <3>3, DescribeCurrent
    <2> QED
        BY <1>5, <2>2, <2>3 DEF DescribeMutations
<1>6. ASSUME NEW m \in Migrators, Execute(m) PROVE CurrentInv'
    <2>0. pc[m] = "run" /\ UNCHANGED <<opened, written, runs, overlapped>>
        BY <1>6 DEF Execute
    <2> PICK i \in Statements :
          /\ IsNext(m, i)
          /\ \/ /\ CanRun(Ladder[i]) /\ Run(Ladder[i])
                /\ todo' = [todo EXCEPT ![m] = todo[m] \ {i}]
                /\ UNCHANGED <<pc, outcome>>
             \/ End(m, "error") /\ UNCHANGED store
        BY <1>6 DEF Execute
    <2>1. CASE End(m, "error") /\ UNCHANGED store
        BY <1>0, <1>1, <2>0, <2>1, EndCurrent
    <2>2. CASE /\ CanRun(Ladder[i]) /\ Run(Ladder[i])
               /\ todo' = [todo EXCEPT ![m] = todo[m] \ {i}]
               /\ UNCHANGED <<pc, outcome>>
        BY <1>0, <1>1, <2>0, <2>2, ExecuteCurrent
    <2> QED
        BY <2>1, <2>2
<1>7. ASSUME NEW m \in Migrators, Finish(m) PROVE CurrentInv'
    <2>1. /\ pc[m] = "run" /\ todo[m] = {} /\ UNCHANGED store
          /\ End(m, IF Fingerprint THEN "migrated" ELSE "error")
        BY <1>7 DEF Finish
    <2>2. Current
        <3>1. Fingerprint /\ "relevance_score" \in columns
            BY <1>1, <2>1 DEF CurrentInv, PlannedOrThere, Has, Fingerprint, TakeawayColumns
        <3>2. "head_version" \in columns
            BY <1>1, <2>1, <3>1 DEF CurrentInv, HalfDoneInv, HalfDone
        <3> QED
            BY <3>1, <3>2 DEF Current, Fingerprint, FiringColumns
    <2> QED
        BY <1>0, <1>1, <2>1, <2>2, EndCurrent
<1>8. ASSUME NEW m \in Migrators, Crash(m) PROVE CurrentInv'
    BY <1>0, <1>1, <1>8, EndCurrent DEF Crash
<1>9. CASE UNCHANGED <<tables, columns, pc, todo, outcome>>
    BY <1>0, <1>1, <1>9
    DEF CurrentInv, PlannedOrThere, Has, HalfDoneInv, HalfDone, MigratedIsCurrent, Current,
        Fingerprint
<1>10. ASSUME NEW s \in Sessions, Use(s)
       PROVE  UNCHANGED <<tables, columns, pc, todo, outcome>>
    BY <1>10 DEF Use, Open, Close, Add, Tune, store
<1> QED
    BY <1>2, <1>3, <1>4, <1>5, <1>6, <1>7, <1>8, <1>9, <1>10 DEF Next, Migrate, vars, store

\* A run that reports "migrated ... to v9" has left every table and column of v9
\* behind, even where earlier runs were killed at any of their statements: a run
\* killed between the two columns of v9 leaves a store that later runs refuse,
\* never one they report migrated.
THEOREM SuccessIsCurrent == Spec => []MigratedIsCurrent
<1>1. Init => overlapped \/ CurrentInv
    BY DEF Init, CurrentInv, PlannedOrThere, Has, HalfDoneInv, HalfDone, MigratedIsCurrent,
           VersionColumns
<1>2. overlapped \/ CurrentInv => MigratedIsCurrent
    BY DEF CurrentInv, MigratedIsCurrent
<1> QED
    BY <1>1, <1>2, InvInit, InvStep, CurrentStep, PTL DEF Spec
=============================================================================
