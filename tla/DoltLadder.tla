----------------------------- MODULE DoltLadder -----------------------------
(***************************************************************************)
(* migrate() for a Dolt store (init_sync.py): one read of what the store   *)
(* has, then the missing rungs of the ladder from v1 to v9, each statement *)
(* committed on its own, with the process dying anywhere.  The store is a  *)
(* per-repository one; its rows are 1 .. MaxRows.                          *)
(***************************************************************************)
EXTENDS Naturals, Sequences, FiniteSets

CONSTANTS
    MaxRows,        \* bound: rows the source store may come to hold
    Absent,         \* the state of a row that is not there
    Null,           \* a column without a value
    Repo,           \* the repository the store belongs to
    Versions,       \* the versions a store may start at
    MaxMigrations   \* bound: how often migrate is started

\* What migrate looks for, by the version that brought it.  The v1 dialect is a
\* wider status domain and no mirror column; v6 took the mirror column away.
Since == [mirror |-> 2, decisions |-> 3, provenance |-> 4, situation |-> 5,
          reach |-> 6, repo |-> 6, signature |-> 7, evidence |-> 7,
          violations |-> 7, threshold |-> 8, tool_call |-> 8, mutations |-> 8,
          relevance |-> 9]

Ids == 1 .. MaxRows

V1Status == {"active", "upstream_candidate", "mirrored", "retired"}
V2Status == {"active", "retired"}

ASSUME DoltLadderAssumption ==
    /\ MaxRows \in Nat /\ MaxMigrations \in Nat
    /\ Absent # Null /\ Repo # Null
    /\ Versions \subseteq 1 .. 9
    /\ Absent \notin V1Status

VARIABLES
    has,        \* the columns and tables of the source, as keys of Since
    domain,     \* the status column's domain: "v1" or "v2"
    status,     \* the rows' status, Absent where there is no row
    mirror,     \* the rows' mirror column
    origin,     \* the rows' origin_repo
    plan,       \* the statements a migration has still to run, by their place in Ladder
    migrations, \* how often migrate was started
    (* History *)
    was,        \* the rows' status before any migration
    unfilled    \* a migration died between adding origin_repo and filling it

ladderVars == <<has, domain, status, mirror, origin, plan, migrations, was, unfilled>>

Init ==
    /\ \E v \in Versions :
         /\ has = {i \in DOMAIN Since : Since[i] <= v /\ (i = "mirror" => v < 6)}
         /\ domain = IF v = 1 THEN "v1" ELSE "v2"
         /\ status \in [Ids -> {Absent} \cup (IF v = 1 THEN V1Status ELSE V2Status)]
         /\ origin = [i \in Ids |-> IF v >= 6 /\ status[i] # Absent THEN Repo ELSE Null]
    /\ \A i \in Ids : i > 1 /\ status[i] # Absent => status[i - 1] # Absent
    /\ mirror = [i \in Ids |-> "none"]
    /\ plan = {}
    /\ migrations = 0
    /\ was = status
    /\ unfilled = FALSE

\* The statements in the order of the code: those that rewrite the v1 dialect, then
\* everything additive.
Ladder == <<"mirror", "candidates", "mirrored", "activate", "narrow",
            "decisions", "provenance", "situation", "reach", "fill origin", "repo",
            "drop mirror", "signature", "evidence", "violations", "threshold",
            "tool_call", "mutations", "relevance">>

Statements == 1 .. 19
StatusStatements == 1 .. 5

\* The thing whose absence puts an additive statement into the plan.
Indicator(s) == IF s = "fill origin" THEN "reach" ELSE s

Missing(s) == IF s = "drop mirror" THEN domain = "v1" \/ "mirror" \in has
              ELSE Indicator(s) \notin has

Plan == {i \in StatusStatements : domain = "v1" /\ (Ladder[i] = "mirror" => "mirror" \notin has)}
        \cup {i \in Statements \ StatusStatements : Missing(Ladder[i])}

\* A store with nothing missing but, perhaps, a left-over mirror is refused.
StartMigrate ==
    /\ plan = {}
    /\ migrations < MaxMigrations
    /\ migrations' = migrations + 1
    /\ plan' = IF \A i \in DOMAIN Since \ {"mirror"} : i \in has THEN {} ELSE Plan
    /\ UNCHANGED <<has, domain, status, mirror, origin, was, unfilled>>

\* The statement a migration is at.
IsNext(i) == i \in plan /\ \A j \in plan : i <= j

\* Slip: statuses are narrowed before the mirror column has recorded them.
Effect_StatusFirst(s) ==
    /\ status' = IF s = "candidates"
                 THEN [i \in Ids |-> IF status[i] \in {"upstream_candidate", "mirrored"}
                                     THEN "active" ELSE status[i]]
                 ELSE status
    /\ mirror' = [i \in Ids |-> CASE s = "activate" /\ status[i] = "upstream_candidate" -> "candidate"
                                  [] s = "mirrored" /\ status[i] = "mirrored" -> "mirrored"
                                  [] OTHER -> mirror[i]]
    /\ origin' = IF s = "fill origin" THEN [i \in Ids |-> IF status[i] = Absent THEN Null ELSE Repo]
                 ELSE origin

\* What a statement does to the rows.
Effect(s) ==
    /\ status' = IF s = "activate"
                 THEN [i \in Ids |-> IF status[i] \in {"upstream_candidate", "mirrored"}
                                     THEN "active" ELSE status[i]]
                 ELSE status
    /\ mirror' = [i \in Ids |-> CASE s = "candidates" /\ status[i] = "upstream_candidate" -> "candidate"
                                  [] s = "mirrored" /\ status[i] = "mirrored" -> "mirrored"
                                  [] OTHER -> mirror[i]]
    /\ origin' = IF s = "fill origin" THEN [i \in Ids |-> IF status[i] = Absent THEN Null ELSE Repo]
                 ELSE origin

Execute ==
    \E i \in Statements : LET s == Ladder[i] IN
        /\ IsNext(i)
        /\ Effect(s)
        /\ domain' = IF s = "narrow" THEN "v2" ELSE domain
        /\ has' = IF s = "drop mirror" THEN has \ {"mirror"} ELSE has \cup ({s} \cap DOMAIN Since)
        /\ plan' = plan \ {i}
        /\ UNCHANGED <<migrations, was, unfilled>>

Die ==
    /\ plan # {}
    /\ plan' = {}
    /\ unfilled' = (unfilled \/ \E i \in plan : IsNext(i) /\ Ladder[i] = "fill origin")
    /\ UNCHANGED <<has, domain, status, mirror, origin, migrations, was>>

Migrate == StartMigrate \/ Execute \/ Die

\* The reader's fingerprint (v8: what v9 added is not asked for).
Fingerprint == domain = "v2" /\ \A i \in DOMAIN Since : Since[i] <= 8 /\ i # "mirror" => i \in has

-----------------------------------------------------------------------------
(* Properties *)

\* The values the source's schema, its rows and a plan can take.
LadderTypeOK ==
    /\ has \subseteq DOMAIN Since
    /\ domain \in {"v1", "v2"}
    /\ status \in [Ids -> {Absent} \cup V1Status]
    /\ was \in [Ids -> {Absent} \cup V1Status]
    /\ mirror \in [Ids -> {"none", "candidate", "mirrored"}]
    /\ origin \in [Ids -> {Null, Repo}]
    /\ plan \subseteq Statements
    /\ migrations \in 0 .. MaxMigrations
    /\ unfilled \in BOOLEAN

\* What a v1 status becomes: the retired stay retired, all others are active and
\* the mirror axis keeps what they were.
Mapped(s) == IF s \in {"upstream_candidate", "mirrored"} THEN "active" ELSE s
MirrorOf(s) == CASE s = "upstream_candidate" -> "candidate"
                 [] s = "mirrored"           -> "mirrored"
                 [] OTHER                    -> "none"

\* However often a migration dies and is run again, a row's old status can be told
\* from its status and mirror until the mirror column is dropped, and no row is
\* retired or revived on the way.
StatusSurvives ==
    \A i \in Ids :
        /\ was[i] # Absent => Mapped(status[i]) = Mapped(was[i])
        /\ domain = "v1" \/ "mirror" \in has =>
             \/ status[i] = was[i]
             \/ was[i] # Absent /\ MirrorOf(was[i]) = mirror[i]
             \/ was[i] = Absent
=============================================================================
