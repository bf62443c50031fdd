-------------------------- MODULE MCMigrateSqlite --------------------------
(***************************************************************************)
(* Instances of MigrateSqlite for TLC.  Migrators, sessions, rows and      *)
(* thresholds are only compared, so they may be permuted.                  *)
(***************************************************************************)
EXTENDS MigrateSqlite, TLC

Symmetry ==
    Permutations(Migrators) \cup Permutations(Sessions)
        \cup Permutations(Rows) \cup Permutations(Thresholds)
=============================================================================
