---------------------------- MODULE MigrateSqlite ----------------------------
(***************************************************************************)
(* `monition migrate` on a SQLite store (init_sync.py, _migrate_sqlite):   *)
(* the ladder from v6 to v9.  A run reads the schema table by table, plans *)
(* the statements whose indicator is missing, and executes them one        *)
(* transaction each; it may be killed between any two, be started again,   *)
(* and share the store with sessions whose reader has let them in.         *)
(***************************************************************************)
EXTENDS Naturals, FiniteSets

CONSTANTS
    Migrators,   \* processes running `monition migrate`
    Sessions,    \* processes that read and write through Store
    Rows,        \* ids of takeaways
    Thresholds,  \* values of sem_threshold
    Absent,      \* no row with this id
    Null,        \* a row whose sem_threshold is NULL or has no such column
    MaxRuns      \* bound: how many times migrate is started

ASSUME MigrateAssumption ==
    /\ Absent # Null
    /\ Absent \notin Thresholds /\ Null \notin Thresholds
    /\ MaxRuns \in Nat

TakeawayColumns == {"violation_signature", "sem_threshold"}
FiringColumns == {"match_evidence", "relevance_score", "head_version"}
Columns == TakeawayColumns \cup FiringColumns
Tables == {"takeaways", "takeaways_v8", "violations", "mutations"}
Cell == {Absent, Null} \cup Thresholds

VARIABLES
    tables,        \* the tables that exist, of those a migration touches
    columns,       \* the columns that exist, of those a migration adds
    takeaways,     \* the sem_threshold of each row of takeaways
    takeaways_v8,  \* the same of the table the rebuild copies into
    pc,            \* where each migrator is
    todo,          \* the statements of the ladder it has planned and not executed
    outcome,       \* how a migrator's last run ended
    opened,        \* sessions the fingerprint check has let in
    (* History *)
    written,       \* every row as a session, or the store's past, last wrote it
    runs,          \* how many times migrate was started
    overlapped     \* two runs have been under way at the same time

store == <<tables, columns, takeaways, takeaways_v8>>
vars == <<store, pc, todo, outcome, opened, written, runs, overlapped>>

-----------------------------------------------------------------------------
(* The ladder. *)

\* Slip: the old table is dropped before its rows are copied.
Ladder_DropFirst == <<"violation_signature", "match_evidence", "violations",
                      "takeaways_v8", "drop", "copy", "rename",
                      "mutations", "relevance_score", "head_version">>

\* The statements in the order a run executes them.
Ladder == <<"violation_signature", "match_evidence", "violations",
            "takeaways_v8", "copy", "drop", "rename",
            "mutations", "relevance_score", "head_version">>

\* The column or table whose absence puts each statement into the plan.
Indicator == <<"violation_signature", "match_evidence", "violations",
               "sem_threshold", "sem_threshold", "sem_threshold", "sem_threshold",
               "mutations", "relevance_score", "relevance_score">>

Statements == 1 .. 10

\* Slip: of the two v9 statements only the first is planned.
Plan_OneV9(missing) == {i \in 1 .. 9 : Indicator[i] \in missing}

Plan(missing) == {i \in Statements : Indicator[i] \in missing}

\* SQLite executes the statement: the table is there, and what it adds is not.
CanRun(s) ==
    CASE s \in Columns  -> /\ s \notin columns
                           /\ s \in TakeawayColumns => "takeaways" \in tables
      [] s \in Tables   -> s \notin tables
      [] s = "copy"     -> /\ {"takeaways", "takeaways_v8"} \subseteq tables
                           /\ "violation_signature" \in columns
                           /\ \A r \in Rows : Absent \in {takeaways[r], takeaways_v8[r]}
      [] s = "drop"     -> "takeaways" \in tables
      [] s = "rename"   -> "takeaways" \notin tables /\ "takeaways_v8" \in tables

AddColumn(c) ==
    /\ columns' = columns \cup {c}
    /\ UNCHANGED <<tables, takeaways, takeaways_v8>>

CreateTable(t) ==
    /\ tables' = tables \cup {t}
    /\ UNCHANGED <<columns, takeaways, takeaways_v8>>

\* The copy names every column but sem_threshold.
Copy ==
    /\ takeaways_v8' = [r \in Rows |-> IF takeaways[r] # Absent THEN Null
                                       ELSE takeaways_v8[r]]
    /\ UNCHANGED <<tables, columns, takeaways>>

\* Slip: the dropped table's columns are still described.
Drop_KeepsColumns ==
    /\ tables' = tables \ {"takeaways"}
    /\ takeaways' = [r \in Rows |-> Absent]
    /\ UNCHANGED <<columns, takeaways_v8>>

Drop ==
    /\ tables' = tables \ {"takeaways"}
    /\ columns' = columns \ TakeawayColumns
    /\ takeaways' = [r \in Rows |-> Absent]
    /\ UNCHANGED takeaways_v8

Rename ==
    /\ tables' = (tables \ {"takeaways_v8"}) \cup {"takeaways"}
    /\ columns' = columns \cup TakeawayColumns
    /\ takeaways' = takeaways_v8
    /\ takeaways_v8' = [r \in Rows |-> Absent]

Run(s) ==
    \/ s \in Columns /\ AddColumn(s)
    \/ s \in Tables /\ CreateTable(s)
    \/ s = "copy" /\ Copy
    \/ s = "drop" /\ Drop
    \/ s = "rename" /\ Rename

\* Slip: the reader's ladder ends at its v7 rung.
Fingerprint_V7 ==
    /\ {"takeaways", "violations"} \subseteq tables
    /\ {"violation_signature", "match_evidence"} \subseteq columns

\* What Store() requires of a store before it lets a process in.  The v9 columns
\* are not among it.
Fingerprint ==
    /\ {"takeaways", "violations", "mutations"} \subseteq tables
    /\ TakeawayColumns \cup {"match_evidence"} \subseteq columns

Current == Fingerprint /\ FiringColumns \subseteq columns

-----------------------------------------------------------------------------
\* The tables and columns of a store of each version, as init or a finished
\* migration leaves it.
VersionTables(v) ==
    {"takeaways"} \cup (IF v >= 7 THEN {"violations"} ELSE {})
                  \cup (IF v >= 8 THEN {"mutations"} ELSE {})

VersionColumns(v) ==
    (IF v >= 7 THEN {"violation_signature", "match_evidence"} ELSE {})
        \cup (IF v >= 8 THEN {"sem_threshold"} ELSE {})
        \cup (IF v >= 9 THEN {"relevance_score", "head_version"} ELSE {})

Init ==
    /\ \E v \in 6 .. 9 :
          /\ tables = VersionTables(v)
          /\ columns = VersionColumns(v)
    /\ takeaways \in [Rows -> {Absent, Null}]
    /\ takeaways_v8 = [r \in Rows |-> Absent]
    /\ pc = [m \in Migrators |-> "idle"]
    /\ todo = [m \in Migrators |-> {}]
    /\ outcome = [m \in Migrators |-> "none"]
    /\ opened = {}
    /\ written = takeaways
    /\ runs = 0
    /\ overlapped = FALSE

End(m, result) ==
    /\ pc' = [pc EXCEPT ![m] = "idle"]
    /\ todo' = [todo EXCEPT ![m] = {}]
    /\ outcome' = [outcome EXCEPT ![m] = result]

Remember(m, missing, next) ==
    /\ pc' = [pc EXCEPT ![m] = next]
    /\ todo' = [todo EXCEPT ![m] = todo[m] \cup Plan(missing)]
    /\ UNCHANGED outcome

\* migrate starts, and describes takeaways.
DescribeTakeaways(m) ==
    /\ pc[m] = "idle"
    /\ runs < MaxRuns
    /\ runs' = runs + 1
    /\ overlapped' = (overlapped \/ \E n \in Migrators : pc[n] # "idle")
    /\ \/ "takeaways" \notin tables /\ End(m, "error")
       \/ "takeaways" \in tables /\ Remember(m, TakeawayColumns \ columns, "firings")
    /\ UNCHANGED <<store, opened, written>>

DescribeFirings(m) ==
    /\ pc[m] = "firings"
    /\ Remember(m, {"match_evidence", "relevance_score"} \ columns, "violations")
    /\ UNCHANGED <<store, opened, written, runs, overlapped>>

DescribeViolations(m) ==
    /\ pc[m] = "violations"
    /\ Remember(m, {"violations"} \ tables, "mutations")
    /\ UNCHANGED <<store, opened, written, runs, overlapped>>

\* The last description; a plan with nothing in it is an error.
DescribeMutations(m) ==
    /\ pc[m] = "mutations"
    /\ \/ todo[m] \cup Plan({"mutations"} \ tables) # {}
          /\ Remember(m, {"mutations"} \ tables, "run")
       \/ todo[m] \cup Plan({"mutations"} \ tables) = {} /\ End(m, "already v9")
    /\ UNCHANGED <<store, opened, written, runs, overlapped>>

IsNext(m, i) == i \in todo[m] /\ \A j \in todo[m] : i <= j

\* One statement, in a transaction of its own; one that SQLite refuses ends the run.
Execute(m) ==
    /\ pc[m] = "run"
    /\ \E i \in Statements :
          /\ IsNext(m, i)
          /\ \/ /\ CanRun(Ladder[i])
                /\ Run(Ladder[i])
                /\ todo' = [todo EXCEPT ![m] = todo[m] \ {i}]
                /\ UNCHANGED <<pc, outcome>>
             \/ ~CanRun(Ladder[i]) /\ End(m, "error") /\ UNCHANGED store
    /\ UNCHANGED <<opened, written, runs, overlapped>>

\* The reader's fingerprint check is the success gate.
Finish(m) ==
    /\ pc[m] = "run" /\ todo[m] = {}
    /\ End(m, IF Fingerprint THEN "migrated" ELSE "error")
    /\ UNCHANGED <<store, opened, written, runs, overlapped>>

Crash(m) ==
    /\ pc[m] # "idle"
    /\ End(m, "killed")
    /\ UNCHANGED <<store, opened, written, runs, overlapped>>

Open(s) ==
    /\ s \notin opened /\ Fingerprint
    /\ opened' = opened \cup {s}
    /\ UNCHANGED <<store, pc, todo, outcome, written, runs, overlapped>>

\* An open session's INSERT of a row; without the table or the columns it names it
\* fails, and the session with it.
Add(s, r) ==
    /\ s \in opened /\ written[r] = Absent
    /\ \/ /\ "takeaways" \in tables /\ "violation_signature" \in columns
          /\ takeaways' = [takeaways EXCEPT ![r] = Null]
          /\ written' = [written EXCEPT ![r] = Null]
          /\ UNCHANGED opened
       \/ /\ ~("takeaways" \in tables /\ "violation_signature" \in columns)
          /\ opened' = opened \ {s}
          /\ UNCHANGED <<takeaways, written>>
    /\ UNCHANGED <<tables, columns, takeaways_v8, pc, todo, outcome, runs, overlapped>>

\* An open session's UPDATE of a row's sem_threshold.
Tune(s, r, value) ==
    /\ s \in opened
    /\ "sem_threshold" \in columns /\ takeaways[r] # Absent
    /\ takeaways' = [takeaways EXCEPT ![r] = value]
    /\ written' = [written EXCEPT ![r] = value]
    /\ UNCHANGED <<tables, columns, takeaways_v8, pc, todo, outcome, opened, runs, overlapped>>

Close(s) ==
    /\ s \in opened
    /\ opened' = opened \ {s}
    /\ UNCHANGED <<store, pc, todo, outcome, written, runs, overlapped>>

Migrate(m) ==
    \/ DescribeTakeaways(m) \/ DescribeFirings(m)
    \/ DescribeViolations(m) \/ DescribeMutations(m)
    \/ Execute(m) \/ Finish(m) \/ Crash(m)

Use(s) ==
    \/ Open(s) \/ Close(s)
    \/ \E r \in Rows : Add(s, r) \/ \E value \in Thresholds : Tune(s, r, value)

Next == (\E m \in Migrators : Migrate(m)) \/ (\E s \in Sessions : Use(s))

Spec == Init /\ [][Next]_vars

-----------------------------------------------------------------------------
(* Properties. *)

\* Every variable has its type, and a table that does not exist has no rows and no
\* columns.
TypeOK ==
    /\ tables \subseteq Tables
    /\ columns \subseteq Columns
    /\ takeaways \in [Rows -> Cell]
    /\ takeaways_v8 \in [Rows -> Cell]
    /\ pc \in [Migrators -> {"idle", "firings", "violations", "mutations", "run"}]
    /\ todo \in [Migrators -> SUBSET Statements]
    /\ outcome \in [Migrators -> {"none", "migrated", "already v9", "error", "killed"}]
    /\ opened \subseteq Sessions
    /\ written \in [Rows -> Cell]
    /\ runs \in 0 .. MaxRuns
    /\ overlapped \in BOOLEAN
    /\ "takeaways" \notin tables =>
          TakeawayColumns \cap columns = {} /\ \A r \in Rows : takeaways[r] = Absent
    /\ "takeaways_v8" \notin tables => \A r \in Rows : takeaways_v8[r] = Absent

\* The rebuild never loses a row or a threshold: at every moment, and wherever a
\* run is killed, takeaways or, once it is dropped, takeaways_v8 holds every row as
\* it was last written, as long as no two runs overlap.
RowsKept ==
    overlapped \/ (IF "takeaways" \in tables THEN takeaways ELSE takeaways_v8) = written

\* As long as no two runs have overlapped, a session that was let in is not cut
\* off: the store keeps passing the check it passed, so that its statements find
\* the tables and columns they name, wherever runs are killed and started again.
\* Of overlapping runs it says nothing: one that planned the rebuild before the
\* other finished it drops the table under the sessions let in between.
OpenedStays == overlapped \/ opened = {} \/ Fingerprint

\* As long as no two runs have overlapped, a run that reports "migrated ... to v9"
\* has left every piece of v9 behind.  A later run's "already v9" is not such a
\* report: it is false of a store whose run died between the two columns of v9.
MigratedIsCurrent ==
    \A m \in Migrators : outcome[m] = "migrated" => overlapped \/ Current
=============================================================================
