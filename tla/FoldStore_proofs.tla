------------------------- MODULE FoldStore_proofs -------------------------
(***************************************************************************)
(* A migration loses no row's status, and a fold loses no row's parent and *)
(* folds no source twice: proved for any rows, versions, folders and child *)
(* tables, with migrations and folds that die anywhere.                    *)
(***************************************************************************)
EXTENDS FoldStore, TLAPS, WellFoundedInduction, FiniteSetTheorems, SequenceTheorems

T == "takeaways"
Kids == ToSet(Children)

-----------------------------------------------------------------------------
(* The ladder.  A row of the source changes its status by the statements of *)
(* a migration only, and a new one comes by the sessions' SourceAdd.        *)

\* A row is as it was, or its old status moved to the mirror column.
Survives ==
    \A i \in Ids :
        \/ was[i] = Absent
        \/ status[i] = was[i]
        \/ /\ was[i] \in {"upstream_candidate", "mirrored"}
           /\ status[i] = "active"
           /\ mirror[i] = MirrorOf(was[i])

\* Statuses are narrowed (statement 4) only when the mirror column has recorded
\* them (2 and 3).
RecordedFirst ==
    4 \in plan => \A i \in Ids :
        /\ status[i] = "upstream_candidate" => 2 \in plan \/ mirror[i] = "candidate"
        /\ status[i] = "mirrored" => 3 \in plan \/ mirror[i] = "mirrored"

\* Origins are filled (statement 10) right after their column is added (9), by a
\* migration that does not die in between.
OriginFilled ==
    /\ 9 \in plan => 10 \in plan /\ "reach" \notin has
    /\ "reach" \in has /\ 10 \in plan => \A j \in plan : j >= 10
    /\ "reach" \in has /\ ~unfilled =>
         10 \in plan \/ \A i \in Ids : status[i] # Absent => origin[i] = Repo

LadderInv == LadderTypeOK /\ Survives /\ RecordedFirst /\ OriginFilled

LadderNext == Migrate \/ (\E i \in Ids : SourceAdd(i)) \/ UNCHANGED ladderVars

LEMMA SinceDomain ==
    /\ {"mirror", "reach"} \subseteq DOMAIN Since
    /\ Since["reach"] = 6
BY DEF Since

LEMMA LadderInit == Init => LadderInv
<1> SUFFICES ASSUME Init PROVE LadderInv
    OBVIOUS
<1>1. PICK v \in Versions :
         /\ has = {i \in DOMAIN Since : Since[i] <= v /\ (i = "mirror" => v < 6)}
         /\ domain = IF v = 1 THEN "v1" ELSE "v2"
         /\ status \in [Ids -> {Absent} \cup (IF v = 1 THEN V1Status ELSE V2Status)]
         /\ origin = [i \in Ids |-> IF v >= 6 /\ status[i] # Absent THEN Repo ELSE Null]
    BY DEF Init
<1>2. v \in 1 .. 9
    BY DoltLadderAssumption
<1>3. status \in [Ids -> {Absent} \cup V1Status]
    BY <1>1 DEF V1Status, V2Status
<1>4. LadderTypeOK
    <2>1. has \subseteq DOMAIN Since /\ domain \in {"v1", "v2"}
        BY <1>1
    <2>2. origin \in [Ids -> {Null, Repo}]
        BY <1>1
    <2>3. mirror \in [Ids -> {"none", "candidate", "mirrored"}]
        BY DEF Init
    <2>4. /\ plan \subseteq Statements /\ unfilled \in BOOLEAN /\ was = status
          /\ migrations \in 0 .. MaxMigrations
        <3>1. plan = {} /\ unfilled = FALSE /\ was = status /\ migrations = 0
            BY DEF Init
        <3>2. unfilled \in BOOLEAN
            BY <3>1
        <3>3. migrations \in 0 .. MaxMigrations
            BY <3>1, DoltLadderAssumption
        <3> QED
            BY <3>1, <3>2, <3>3
    <2> QED
        BY <1>3, <2>1, <2>2, <2>3, <2>4 DEF LadderTypeOK
<1>5. Survives
    BY DEF Init, Survives
<1>6. RecordedFirst
    BY DEF Init, RecordedFirst
<1>7. OriginFilled
    <2>1. plan = {}
        BY DEF Init
    <2>2. "reach" \in has => v >= 6
        BY <1>1, SinceDomain
    <2> QED
        BY <1>1, <2>1, <2>2 DEF OriginFilled
<1> QED
    BY <1>4, <1>5, <1>6, <1>7 DEF LadderInv

\* What a planned statement is, by its place.
LEMMA LadderPlaces ==
    /\ Ladder[2] = "candidates" /\ Ladder[3] = "mirrored" /\ Ladder[4] = "activate"
    /\ Ladder[9] = "reach" /\ Ladder[10] = "fill origin"
    /\ \A i \in Statements :
         /\ Ladder[i] = "candidates" => i = 2
         /\ Ladder[i] = "mirrored" => i = 3
         /\ Ladder[i] = "activate" => i = 4
         /\ Ladder[i] = "reach" => i = 9
         /\ Ladder[i] = "fill origin" => i = 10
<1>1. /\ Ladder[1] = "mirror" /\ Ladder[2] = "candidates" /\ Ladder[3] = "mirrored"
      /\ Ladder[4] = "activate" /\ Ladder[5] = "narrow" /\ Ladder[6] = "decisions"
      /\ Ladder[7] = "provenance" /\ Ladder[8] = "situation" /\ Ladder[9] = "reach"
      /\ Ladder[10] = "fill origin"
    BY DEF Ladder
<1>2. /\ Ladder[11] = "repo" /\ Ladder[12] = "drop mirror" /\ Ladder[13] = "signature"
      /\ Ladder[14] = "evidence" /\ Ladder[15] = "violations" /\ Ladder[16] = "threshold"
      /\ Ladder[17] = "tool_call" /\ Ladder[18] = "mutations" /\ Ladder[19] = "relevance"
    BY DEF Ladder
<1>3. ASSUME NEW i \in Statements
      PROVE  /\ Ladder[i] = "candidates" => i = 2
             /\ Ladder[i] = "mirrored" => i = 3
             /\ Ladder[i] = "activate" => i = 4
             /\ Ladder[i] = "reach" => i = 9
             /\ Ladder[i] = "fill origin" => i = 10
    <2>1. CASE i <= 10
        <3>1. \/ i = 1 \/ i = 2 \/ i = 3 \/ i = 4 \/ i = 5
              \/ i = 6 \/ i = 7 \/ i = 8 \/ i = 9 \/ i = 10
            BY <2>1 DEF Statements
        <3> QED
            BY <1>1, <3>1
    <2>2. CASE i > 10
        <3>1. \/ i = 11 \/ i = 12 \/ i = 13 \/ i = 14 \/ i = 15
              \/ i = 16 \/ i = 17 \/ i = 18 \/ i = 19
            BY <2>2 DEF Statements
        <3> QED
            BY <1>2, <3>1
    <2>3. i <= 10 \/ i > 10
        BY DEF Statements
    <2> QED
        BY <2>1, <2>2, <2>3
<1> QED
    BY <1>1, <1>3

\* What the plan has when it has a statement that depends on an earlier one.
LEMMA PlanFacts ==
    /\ Plan \subseteq Statements
    /\ 4 \in Plan => 2 \in Plan /\ 3 \in Plan
    /\ 9 \in Plan <=> "reach" \notin has
    /\ 10 \in Plan <=> "reach" \notin has
<1>1. Plan \subseteq Statements
    BY DEF Plan, Statements, StatusStatements
<1>2. 4 \in Plan => domain = "v1"
    BY DEF Plan, StatusStatements
<1>3. domain = "v1" => 2 \in Plan /\ 3 \in Plan
    <2>1. Ladder[2] # "mirror" /\ Ladder[3] # "mirror"
        BY LadderPlaces
    <2> QED
        BY <2>1 DEF Plan, StatusStatements
<1>4. \A i \in {9, 10} : i \in Plan <=> Missing(Ladder[i])
    BY DEF Plan, Statements, StatusStatements
<1>5. Missing("reach") <=> "reach" \notin has
    BY DEF Missing, Indicator
<1>6. Missing("fill origin") <=> "reach" \notin has
    BY DEF Missing, Indicator
<1> QED
    BY <1>1, <1>2, <1>3, <1>4, <1>5, <1>6, LadderPlaces

LEMMA MigrationStarts == LadderInv /\ StartMigrate => LadderInv'
<1> SUFFICES ASSUME LadderInv, StartMigrate PROVE LadderInv'
    OBVIOUS
<1>1. plan' = {} \/ plan' = Plan
    BY DEF StartMigrate
<1>2. UNCHANGED <<has, domain, status, mirror, origin, was, unfilled>> /\ plan = {}
    BY DEF StartMigrate
<1>3. LadderTypeOK'
    BY <1>1, <1>2, PlanFacts, DoltLadderAssumption DEF LadderInv, LadderTypeOK, StartMigrate
<1>4. Survives' /\ RecordedFirst'
    BY <1>1, <1>2, PlanFacts DEF LadderInv, Survives, RecordedFirst
<1>5. OriginFilled'
    BY <1>1, <1>2, PlanFacts DEF LadderInv, OriginFilled
<1> QED
    BY <1>3, <1>4, <1>5 DEF LadderInv

LEMMA StatementRuns == LadderInv /\ Execute => LadderInv'
<1> SUFFICES ASSUME LadderInv, Execute PROVE LadderInv'
    OBVIOUS
<1>1. PICK i \in Statements :
        /\ IsNext(i)
        /\ Effect(Ladder[i])
        /\ domain' = IF Ladder[i] = "narrow" THEN "v2" ELSE domain
        /\ has' = IF Ladder[i] = "drop mirror" THEN has \ {"mirror"}
                  ELSE has \cup ({Ladder[i]} \cap DOMAIN Since)
        /\ plan' = plan \ {i}
        /\ UNCHANGED <<migrations, was, unfilled>>
    BY DEF Execute
<1>2. LadderTypeOK /\ plan' = plan \ {i}
    BY <1>1 DEF LadderInv
<1>3. status' = IF i = 4 THEN [r \in Ids |-> IF status[r] \in {"upstream_candidate", "mirrored"}
                                             THEN "active" ELSE status[r]]
                ELSE status
    BY <1>1, LadderPlaces DEF Effect
<1>4. mirror' = [r \in Ids |-> CASE i = 2 /\ status[r] = "upstream_candidate" -> "candidate"
                                 [] i = 3 /\ status[r] = "mirrored" -> "mirrored"
                                 [] OTHER -> mirror[r]]
    BY <1>1, LadderPlaces DEF Effect
<1>5. origin' = IF i = 10 THEN [r \in Ids |-> IF status[r] = Absent THEN Null ELSE Repo]
                ELSE origin
    BY <1>1, LadderPlaces DEF Effect
<1>6. "reach" \in has' <=> i = 9 \/ "reach" \in has
    BY <1>1, LadderPlaces, SinceDomain
<1>7. i \in plan /\ \A j \in plan : i <= j
    BY <1>1 DEF IsNext
<1>8. LadderTypeOK'
    <2>1. has' \subseteq DOMAIN Since /\ domain' \in {"v1", "v2"} /\ plan' \subseteq Statements
        BY <1>1, <1>2 DEF LadderTypeOK
    <2>2. status' \in [Ids -> {Absent} \cup V1Status]
        BY <1>2, <1>3 DEF LadderTypeOK, V1Status
    <2>3. mirror' \in [Ids -> {"none", "candidate", "mirrored"}]
        BY <1>2, <1>4 DEF LadderTypeOK
    <2>4. origin' \in [Ids -> {Null, Repo}]
        BY <1>2, <1>5 DEF LadderTypeOK
    <2> QED
        BY <1>1, <1>2, <2>1, <2>2, <2>3, <2>4 DEF LadderTypeOK
<1>9. ASSUME NEW r \in Ids
      PROVE  \/ was'[r] = Absent
             \/ status'[r] = was'[r]
             \/ /\ was'[r] \in {"upstream_candidate", "mirrored"}
                /\ status'[r] = "active"
                /\ mirror'[r] = MirrorOf(was'[r])
    <2>1. was'[r] = was[r]
        BY <1>1
    <2>2. \/ was[r] = Absent
          \/ status[r] = was[r]
          \/ /\ was[r] \in {"upstream_candidate", "mirrored"}
             /\ status[r] = "active"
             /\ mirror[r] = MirrorOf(was[r])
        BY DEF LadderInv, Survives
    <2>3. status[r] = "active" => status'[r] = "active" /\ mirror'[r] = mirror[r]
        BY <1>3, <1>4
    <2>4. i # 4 => status'[r] = status[r]
        BY <1>3
    <2>5. ASSUME i = 4, status[r] \in {"upstream_candidate", "mirrored"}
          PROVE  status'[r] = "active" /\ mirror'[r] = MirrorOf(status[r])
        <3>1. 4 \in plan /\ 2 \notin plan /\ 3 \notin plan
            BY <1>7, <2>5
        <3>2. mirror[r] = MirrorOf(status[r])
            BY <2>5, <3>1 DEF LadderInv, RecordedFirst, MirrorOf
        <3> QED
            BY <1>3, <1>4, <2>5, <3>2
    <2>6. i = 4 /\ status[r] \notin {"upstream_candidate", "mirrored"} => status'[r] = status[r]
        BY <1>2, <1>3 DEF LadderTypeOK
    <2> QED
        BY <2>1, <2>2, <2>3, <2>4, <2>5, <2>6
<1>10. RecordedFirst'
    <2> SUFFICES ASSUME 4 \in plan', NEW r \in Ids
                 PROVE  /\ status'[r] = "upstream_candidate" => 2 \in plan' \/ mirror'[r] = "candidate"
                        /\ status'[r] = "mirrored" => 3 \in plan' \/ mirror'[r] = "mirrored"
        BY DEF RecordedFirst
    <2>1. i # 4 /\ 4 \in plan
        BY <1>1
    <2>2. status' = status
        BY <1>3, <2>1
    <2>3. /\ status[r] = "upstream_candidate" => 2 \in plan \/ mirror[r] = "candidate"
          /\ status[r] = "mirrored" => 3 \in plan \/ mirror[r] = "mirrored"
        BY <2>1 DEF LadderInv, RecordedFirst
    <2> QED
        BY <1>1, <1>4, <2>2, <2>3
<1>11. OriginFilled'
    <2>1. 9 \in plan' => 10 \in plan' /\ "reach" \notin has'
        <3>1. 9 \in plan' => 9 \in plan /\ i # 9 /\ i # 10
            BY <1>2, <1>7
        <3>2. 9 \in plan => 10 \in plan /\ "reach" \notin has
            BY DEF LadderInv, OriginFilled
        <3> QED
            BY <1>1, <1>6, <3>1, <3>2
    <2>2. "reach" \in has' /\ 10 \in plan' => \A j \in plan' : j >= 10
        <3>0. plan \subseteq 1 .. 19
            BY <1>2 DEF LadderTypeOK, Statements
        <3>1. i = 9 => \A j \in plan' : j >= 10
            BY <1>2, <1>7, <3>0
        <3> QED
            BY <1>1, <1>6, <3>1 DEF LadderInv, OriginFilled
    <2>3. ASSUME "reach" \in has', ~unfilled', 10 \notin plan', NEW r \in Ids, status'[r] # Absent
          PROVE  origin'[r] = Repo
        <3>1. status[r] # Absent
            BY <1>3, <2>3, DoltLadderAssumption DEF V1Status
        <3>2. i = 10 => origin'[r] = Repo
            BY <1>5, <3>1
        <3>3. ASSUME i # 10
              PROVE  origin[r] = Repo
            <4>1. 10 \notin plan
                BY <1>1, <2>3, <3>3
            <4>2. i # 9
                BY <1>7, <4>1 DEF LadderInv, OriginFilled
            <4> QED
                BY <1>1, <1>6, <2>3, <3>1, <4>1, <4>2 DEF LadderInv, OriginFilled
        <3> QED
            BY <1>5, <3>2, <3>3
    <2> QED
        BY <2>1, <2>2, <2>3 DEF OriginFilled
<1> QED
    BY <1>8, <1>9, <1>10, <1>11 DEF LadderInv, Survives

LEMMA MigrationDies == LadderInv /\ Die => LadderInv'
<1> SUFFICES ASSUME LadderInv, Die PROVE LadderInv'
    OBVIOUS
<1>1. /\ plan # {} /\ plan' = {}
      /\ unfilled' = (unfilled \/ \E i \in plan : IsNext(i) /\ Ladder[i] = "fill origin")
      /\ UNCHANGED <<has, domain, status, mirror, origin, migrations, was>>
    BY DEF Die
<1>2. LadderTypeOK'
    BY <1>1 DEF LadderInv, LadderTypeOK
<1>3. Survives' /\ RecordedFirst'
    BY <1>1 DEF LadderInv, Survives, RecordedFirst
<1>4. OriginFilled'
    <2>1. "reach" \in has /\ 10 \in plan => IsNext(10)
        BY DEF LadderInv, LadderTypeOK, Statements, OriginFilled, IsNext
    <2>2. "reach" \in has /\ 10 \in plan => unfilled'
        BY <1>1, <2>1, LadderPlaces
    <2> QED
        BY <1>1, <2>2 DEF LadderInv, OriginFilled
<1> QED
    BY <1>2, <1>3, <1>4 DEF LadderInv

LEMMA RowAdded == ASSUME NEW i \in Ids PROVE LadderInv /\ SourceAdd(i) => LadderInv'
<1> SUFFICES ASSUME LadderInv, SourceAdd(i) PROVE LadderInv'
    OBVIOUS
<1>1. /\ plan = {} /\ status[i] = Absent
      /\ status' = [status EXCEPT ![i] = "active"]
      /\ origin' = [origin EXCEPT ![i] = Repo]
      /\ UNCHANGED <<has, domain, mirror, plan, migrations, was, unfilled>>
    BY DEF SourceAdd, SourceInUse
<1>2. LadderTypeOK'
    BY <1>1 DEF LadderInv, LadderTypeOK, V1Status
<1>3. was[i] = Absent
    BY <1>1, DoltLadderAssumption DEF LadderInv, Survives, V1Status
<1>4. Survives'
    BY <1>1, <1>3 DEF LadderInv, LadderTypeOK, Survives
<1>5. RecordedFirst' /\ OriginFilled'
    BY <1>1 DEF LadderInv, LadderTypeOK, RecordedFirst, OriginFilled
<1> QED
    BY <1>2, <1>4, <1>5 DEF LadderInv

LEMMA LadderMoves == LadderInv /\ LadderNext => LadderInv'
<1>1. LadderInv /\ UNCHANGED ladderVars => LadderInv'
    BY DEF ladderVars, LadderInv, LadderTypeOK, Survives, RecordedFirst, OriginFilled
<1> QED
    BY <1>1, MigrationStarts, StatementRuns, MigrationDies, RowAdded DEF LadderNext, Migrate

-----------------------------------------------------------------------------
(* Tables and ids. *)

LEMMA TableFacts ==
    /\ N \in Nat /\ N >= 1
    /\ Tables[1] = T
    /\ \A k \in 1 .. N : Tables[k] \in Names
    /\ \A k \in 1 .. N : k > 1 => Tables[k] \in Kids
    /\ Names = {T} \cup Kids
    /\ T \notin Kids
<1>1. Children \in Seq(Kids) /\ T \notin Kids
    BY FoldStoreAssumption DEF T, Kids
<1>2. N = 1 + Len(Children) /\ Len(Children) \in Nat
    BY <1>1 DEF N, Tables
<1>3. Tables \in Seq({T} \cup Kids) /\ DOMAIN Tables = 1 .. N
    <2>1. <<T>> \in Seq({T} \cup Kids)
        OBVIOUS
    <2>2. Children \in Seq({T} \cup Kids)
        BY <1>1
    <2>3. Tables \in Seq({T} \cup Kids)
        BY <2>1, <2>2, ConcatProperties DEF Tables, T
    <2> QED
        BY <2>3, LenProperties DEF N
<1>4. Tables[1] = T
    BY <1>1 DEF Tables, T
<1>5. \A k \in 1 .. N : k > 1 => Tables[k] = Children[k - 1] /\ k - 1 \in DOMAIN Children
    BY <1>1, <1>2 DEF Tables
<1>6. \A k \in DOMAIN Children : k + 1 \in 1 .. N /\ Tables[k + 1] = Children[k]
    BY <1>1, <1>2 DEF Tables
<1>7. \A k \in 1 .. N : Tables[k] \in Names
    BY <1>3 DEF Names, ToSet
<1>8. \A k \in 1 .. N : k > 1 => Tables[k] \in Kids
    BY <1>5 DEF Kids, ToSet
<1>9. Names \subseteq {T} \cup Kids
    <2> SUFFICES ASSUME NEW k \in 1 .. N PROVE Tables[k] \in {T} \cup Kids
        BY <1>3 DEF Names, ToSet
    <2>1. k = 1 \/ k > 1
        BY <1>2
    <2> QED
        BY <1>4, <1>8, <2>1
<1>10. {T} \cup Kids \subseteq Names
    <2>1. T \in Names
        BY <1>2, <1>4, <1>7
    <2>2. ASSUME NEW k \in DOMAIN Children PROVE Children[k] \in Names
        BY <1>6, <1>7
    <2> QED
        BY <2>1, <2>2 DEF Kids, ToSet
<1> QED
    BY <1>1, <1>2, <1>4, <1>7, <1>8, <1>9, <1>10

Bounded(rows) == \E b \in Nat : \A r \in rows : r.id <= b

\* Of ids that have a bound MAX(id) is one, and none is above it.
LEMMA MaxIdFacts ==
    ASSUME NEW rows, \A r \in rows : r.id \in Nat, Bounded(rows)
    PROVE  MaxId(rows) \in Nat /\ \A r \in rows : r.id <= MaxId(rows)
<1> DEFINE S == {0} \cup {r.id : r \in rows}
           U == {b \in Nat : \A x \in S : x <= b}
<1>1. S \subseteq Nat /\ U \subseteq Nat /\ 0 \in S
    OBVIOUS
<1>2. U # {}
    <2>1. PICK b \in Nat : \A r \in rows : r.id <= b
        BY DEF Bounded
    <2>2. \A x \in S : x <= b
        BY <2>1
    <2>3. b \in U
        BY <2>2
    <2> QED
        BY <2>3
<1>3. \E b \in U : \A c \in U : ~ (<<c, b>> \in OpToRel(<, Nat))
    BY <1>1, <1>2, NatLessThanWellFounded, WFMin
<1>4. PICK b \in U : \A c \in U : ~ (<<c, b>> \in OpToRel(<, Nat))
    BY <1>3
<1>5. \A c \in U : ~ (c < b)
    BY <1>1, <1>4, Zenon DEF OpToRel
<1>6. b \in Nat /\ \A x \in S : x <= b
    OBVIOUS
<1> HIDE DEF U
<1>7. b \in S
    <2> SUFFICES ASSUME b \notin S PROVE FALSE
        OBVIOUS
    <2>1. \A x \in S : x <= b - 1
        BY <1>1, <1>6
    <2>2. b - 1 \in Nat
        BY <1>1, <1>6
    <2>3. b - 1 \in U
        BY <2>1, <2>2 DEF U
    <2> QED
        BY <1>5, <1>6, <2>3
<1>8. MaxId(rows) = CHOOSE x \in S : \A y \in S : x >= y
    BY DEF MaxId, Max
<1> HIDE DEF S
<1>9. MaxId(rows) \in S /\ \A y \in S : MaxId(rows) >= y
    BY <1>1, <1>6, <1>7, <1>8
<1> QED
    BY <1>1, <1>9 DEF S

LEMMA BoundedGrows ==
    ASSUME NEW rows, NEW r, \A q \in rows : q.id \in Nat, r.id \in Nat, Bounded(rows)
    PROVE  Bounded(rows \cup {r})
<1>1. PICK b \in Nat : \A q \in rows : q.id <= b
    BY DEF Bounded
<1>2. \A q \in rows \cup {r} : q.id <= b + r.id
    BY <1>1
<1> QED
    BY <1>2 DEF Bounded

-----------------------------------------------------------------------------
(* Types. *)

TypeInv ==
    /\ LadderInv
    /\ TypeOK
    /\ \A t \in Names : Bounded(hub[t]) /\ IsFiniteSet(hub[t])
    /\ \A t \in Kids : Bounded(kids[t])
    /\ \A f \in Folders : fold[f].pc = "idle" => fold[f] = Idle

\* The progress st of a fold that goes on to the next table, or to the next phase.
On(f, st, next) ==
    \/ fold[f].k < N /\ st.k = fold[f].k + 1 /\ st.pc = fold[f].pc
    \/ fold[f].k = N /\ st.k = 1 /\ st.pc = next

LEMMA IdleFits == Idle \in Progress
<1>1. None \in [Names -> SUBSET Row]
    BY DEF None, Names
<1> QED
    BY <1>1, TableFacts DEF Idle, Progress, Names

LEMMA AdvanceFits ==
    ASSUME TypeOK, NEW f \in Folders,
           NEW next \in {"max", "count", "insert", "after"}
    PROVE  /\ Advance(f, next) \in Progress
           /\ \A st : st = Advance(f, next) =>
                /\ st.read = fold[f].read /\ st.todo = fold[f].todo
                /\ st.base = fold[f].base /\ st.before = fold[f].before
                /\ On(f, st, next)
<1>1. fold[f] \in Progress
    BY DEF TypeOK
<1>2. CASE fold[f].k < N
    <2> DEFINE st == [fold[f] EXCEPT !.k = @ + 1]
    <2>1. Advance(f, next) = st
        BY <1>2 DEF Advance
    <2>2. fold[f].k + 1 \in 1 .. N
        BY <1>1, <1>2, TableFacts DEF Progress
    <2>3. st \in Progress
        BY <1>1, <2>2 DEF Progress
    <2>4. /\ st.read = fold[f].read /\ st.todo = fold[f].todo
          /\ st.base = fold[f].base /\ st.before = fold[f].before
          /\ st.k = fold[f].k + 1 /\ st.pc = fold[f].pc
        BY <1>1 DEF Progress
    <2> QED
        BY <1>2, <2>1, <2>3, <2>4 DEF On
<1>3. CASE ~(fold[f].k < N)
    <2> DEFINE st == [fold[f] EXCEPT !.k = 1, !.pc = next]
    <2>1. Advance(f, next) = st
        BY <1>3 DEF Advance
    <2>2. fold[f].k = N /\ 1 \in 1 .. N
        BY <1>1, <1>3, TableFacts DEF Progress
    <2>3. st \in Progress
        BY <1>1, <2>2 DEF Progress
    <2>4. /\ st.read = fold[f].read /\ st.todo = fold[f].todo
          /\ st.base = fold[f].base /\ st.before = fold[f].before
          /\ st.k = 1 /\ st.pc = next
        BY <1>1 DEF Progress
    <2> QED
        BY <2>1, <2>2, <2>3, <2>4 DEF On
<1> QED
    BY <1>2, <1>3

LEMMA FoldMoves ==
    ASSUME TypeInv, NEW f \in Folders, NEW st \in Progress,
           st.pc # "idle" \/ st = Idle,
           fold' = [fold EXCEPT ![f] = st]
    PROVE  /\ fold' \in [Folders -> Progress]
           /\ fold'[f] = st /\ \A g \in Folders \ {f} : fold'[g] = fold[g]
           /\ \A g \in Folders : fold'[g].pc = "idle" => fold'[g] = Idle
BY DEF TypeInv, TypeOK

\* The sources of a fold's rows are the source's, under their own ids.
LEMMA SourceFits ==
    ASSUME TypeOK, NEW t \in Names
    PROVE  Source(t) \subseteq Row
<1>1. CASE t = T
    <2> SUFFICES ASSUME NEW i \in Ids
                 PROVE  [id |-> i, row |-> i, origin |-> origin[i], about |-> <<"source", i>>] \in Row
        BY <1>1 DEF Source, T
    <2>1. origin \in [Ids -> {Null, Repo}]
        BY DEF TypeOK, LadderTypeOK
    <2>2. i \in Nat
        BY DoltLadderAssumption DEF Ids
    <2> QED
        BY <2>1, <2>2 DEF Row
<1>2. CASE t \in Kids
    <2>1. t # T
        BY <1>2, TableFacts
    <2> SUFFICES ASSUME NEW c \in kids[t]
                 PROVE  [id |-> c.id, row |-> c.row, origin |-> Null,
                         about |-> <<"source", c.row>>] \in Row
        BY <2>1 DEF Source, T
    <2>2. c \in [id : Nat, row : Ids]
        BY <1>2 DEF TypeOK, Kids
    <2>3. c.id \in Nat /\ c.row \in Nat
        BY <2>2 DEF Ids
    <2> QED
        BY <2>3 DEF Row
<1> QED
    BY <1>1, <1>2, TableFacts

\* What each step of a fold makes of its progress.
Goes(f, st) == st \in Progress /\ fold' = [fold EXCEPT ![f] = st]

Ends(f) == Goes(f, Idle)

Starts(f, st) ==
    /\ Goes(f, st)
    /\ fold[f] = Idle /\ st.pc = "read" /\ st.k = 1 /\ st.read = None

Table(f) == Tables[fold[f].k]

Reads(f, st) ==
    /\ Goes(f, st) /\ On(f, st, "max")
    /\ st.read = [fold[f].read EXCEPT ![Table(f)] = Source(Table(f))]

Bases(f, st) ==
    /\ Goes(f, st) /\ On(f, st, "count")
    /\ st.read = fold[f].read
    /\ st.base = [fold[f].base EXCEPT ![Table(f)] = MaxId(hub[Table(f)])]

Counts(f, st) ==
    /\ Goes(f, st) /\ On(f, st, "insert")
    /\ st.read = fold[f].read /\ st.base = fold[f].base /\ st.todo = fold[f].read

Turns(f, st, next) ==
    /\ Goes(f, st) /\ On(f, st, next)
    /\ st.read = fold[f].read /\ st.base = fold[f].base /\ st.todo = fold[f].todo

Inserts(f, st, r) ==
    /\ Goes(f, st)
    /\ st.pc = fold[f].pc /\ st.k = fold[f].k
    /\ st.read = fold[f].read /\ st.base = fold[f].base
    /\ st.todo = [fold[f].todo EXCEPT ![Table(f)] = @ \ {r}]

Outcomes == {"none", "already", "not v7", "error", "not conserved", "folded", "killed"}

LEMMA EndMoves ==
    ASSUME TypeOK, NEW f \in Folders, NEW result \in Outcomes, End(f, result)
    PROVE  Ends(f) /\ outcome' \in [Folders -> Outcomes]
BY IdleFits DEF TypeOK, End, Ends, Goes, Outcomes

LEMMA GuardMoves ==
    ASSUME TypeInv, NEW f \in Folders, Guard(f)
    PROVE  /\ plan = {} /\ kids' = kids /\ hub' = hub
           /\ outcome' \in [Folders -> Outcomes] /\ muddled' \in BOOLEAN
           /\ \/ Ends(f) /\ muddled' = muddled
              \/ /\ \E st : Starts(f, st)
                 /\ "reach" \in has
                 /\ \A r \in hub[T] : r.origin # Repo
                 /\ muddled' = (muddled \/ Busy \/ unfilled)
<1>1. /\ fold[f] = Idle /\ plan = {} /\ kids' = kids /\ hub' = hub
      /\ fold[f] \in Progress
    BY DEF TypeInv, TypeOK, Guard
<1>2. muddled' \in BOOLEAN
    BY Zenon DEF TypeInv, TypeOK, Guard
<1>3. CASE \E result \in Outcomes : End(f, result) /\ muddled' = muddled
    BY <1>1, <1>2, <1>3, EndMoves DEF TypeInv
<1>4. CASE /\ "reach" \in has
           /\ \A r \in hub[T] : r.origin # Repo
           /\ fold' = [fold EXCEPT ![f].pc = "read"]
           /\ muddled' = (muddled \/ Busy \/ unfilled)
           /\ outcome' = outcome
    <2> DEFINE st == [Idle EXCEPT !.pc = "read"]
    <2>1. fold' = [fold EXCEPT ![f] = st]
        BY <1>1, <1>4
    <2>2. st \in Progress /\ st.pc = "read" /\ st.k = 1 /\ st.read = None
        BY <1>1 DEF Progress, Idle
    <2> HIDE DEF st
    <2>3. Starts(f, st)
        BY <1>1, <2>1, <2>2 DEF Starts, Goes
    <2>4. outcome' \in [Folders -> Outcomes]
        BY <1>4 DEF TypeInv, TypeOK, Outcomes
    <2> QED
        BY <1>1, <1>2, <1>4, <2>3, <2>4
<1> QED
    BY <1>3, <1>4 DEF Guard, Outcomes, T

LEMMA ReadMoves ==
    ASSUME TypeInv, NEW f \in Folders, Read(f)
    PROVE  /\ fold[f].pc = "read" /\ kids' = kids /\ hub' = hub /\ muddled' = muddled
           /\ outcome' \in [Folders -> Outcomes]
           /\ Ends(f) \/ \E st : Reads(f, st)
<1> DEFINE t == Table(f)
           next == Advance(f, "max")
           st == [next EXCEPT !.read[t] = Source(t)]
<1>1. /\ TypeOK /\ fold[f] \in Progress
      /\ fold[f].pc = "read" /\ kids' = kids /\ hub' = hub /\ muddled' = muddled
    BY DEF TypeInv, TypeOK, Read
<1>2. End(f, "error") \/ (fold' = [fold EXCEPT ![f] = st] /\ outcome' = outcome)
    BY DEF Read, Table
<1>3. t \in Names
    BY <1>1, TableFacts DEF Table, Progress
<1>4. Source(t) \in SUBSET Row
    BY <1>1, <1>3, SourceFits
<1>5. next \in Progress /\ next.read = fold[f].read /\ On(f, next, "max")
    BY <1>1, AdvanceFits
<1> HIDE DEF t, next
<1>6. /\ st \in Progress /\ st.read = [fold[f].read EXCEPT ![t] = Source(t)]
      /\ st.k = next.k /\ st.pc = next.pc
    BY <1>3, <1>4, <1>5 DEF Progress
<1> HIDE DEF st
<1>7. On(f, st, "max")
    BY <1>5, <1>6 DEF On
<1>8. fold' = [fold EXCEPT ![f] = st] => Reads(f, st)
    BY <1>6, <1>7 DEF Reads, Goes, t
<1> QED
    BY <1>1, <1>2, <1>8, EndMoves DEF Outcomes, TypeOK

LEMMA ReadMaxMoves ==
    ASSUME TypeInv, NEW f \in Folders, ReadMax(f)
    PROVE  /\ fold[f].pc = "max" /\ kids' = kids /\ hub' = hub
           /\ outcome' = outcome /\ muddled' = muddled
           /\ \E st : Bases(f, st)
<1> DEFINE t == Table(f)
           next == Advance(f, "count")
           st == [next EXCEPT !.base[t] = MaxId(hub[t])]
<1>1. /\ TypeOK /\ fold[f] \in Progress
      /\ fold[f].pc = "max" /\ kids' = kids /\ hub' = hub
      /\ outcome' = outcome /\ muddled' = muddled
      /\ fold' = [fold EXCEPT ![f] = st]
    BY DEF TypeInv, TypeOK, ReadMax, Table
<1>3. t \in Names
    BY <1>1, TableFacts DEF Table, Progress
<1>4. MaxId(hub[t]) \in Nat
    <2>1. Bounded(hub[t])
        BY <1>3 DEF TypeInv
    <2>2. hub[t] \subseteq Row
        BY <1>1, <1>3 DEF TypeOK
    <2> QED
        BY <2>1, <2>2, MaxIdFacts DEF Row
<1>5. next \in Progress /\ next.read = fold[f].read /\ next.base = fold[f].base /\ On(f, next, "count")
    BY <1>1, AdvanceFits
<1> HIDE DEF t, next
<1>6. /\ st \in Progress /\ st.base = [fold[f].base EXCEPT ![t] = MaxId(hub[t])]
      /\ st.k = next.k /\ st.pc = next.pc /\ st.read = fold[f].read
    BY <1>3, <1>4, <1>5 DEF Progress
<1> HIDE DEF st
<1>7. On(f, st, "count")
    BY <1>5, <1>6 DEF On
<1>8. Bases(f, st)
    BY <1>1, <1>6, <1>7 DEF Bases, Goes, t
<1> QED
    BY <1>1, <1>8

LEMMA CountMoves ==
    ASSUME TypeInv, NEW f \in Folders, Count(f)
    PROVE  /\ fold[f].pc = "count" /\ kids' = kids /\ hub' = hub
           /\ outcome' = outcome /\ muddled' = muddled
           /\ \E st : Counts(f, st)
<1> DEFINE t == Table(f)
           next == Advance(f, "insert")
           st == [next EXCEPT !.before[t] = Cardinality(hub[t]), !.todo = fold[f].read]
<1>1. /\ TypeOK /\ fold[f] \in Progress
      /\ fold[f].pc = "count" /\ kids' = kids /\ hub' = hub
      /\ outcome' = outcome /\ muddled' = muddled
      /\ fold' = [fold EXCEPT ![f] = st]
    BY DEF TypeInv, TypeOK, Count, Table
<1>3. t \in Names
    BY <1>1, TableFacts DEF Table, Progress
<1>4. Cardinality(hub[t]) \in Nat
    BY <1>3, FS_CardinalityType DEF TypeInv
<1>5. next \in Progress /\ next.read = fold[f].read /\ next.base = fold[f].base /\ On(f, next, "insert")
    BY <1>1, AdvanceFits
<1> HIDE DEF t, next
<1>6. /\ st \in Progress /\ st.todo = fold[f].read /\ st.base = fold[f].base
      /\ st.k = next.k /\ st.pc = next.pc /\ st.read = fold[f].read
    BY <1>1, <1>3, <1>4, <1>5 DEF Progress
<1> HIDE DEF st
<1>7. On(f, st, "insert")
    BY <1>5, <1>6 DEF On
<1>8. Counts(f, st)
    BY <1>1, <1>6, <1>7 DEF Counts, Goes, t
<1> QED
    BY <1>1, <1>8

\* Renumbering moves ids and references by what the hub held, and nothing else.
LEMMA RenumberedFacts ==
    ASSUME TypeOK, NEW f \in Folders, NEW t \in Names, NEW r \in Row
    PROVE  /\ Renumbered(f, t, r) \in Row
           /\ \A new : new = Renumbered(f, t, r) =>
                /\ new.id = r.id + fold[f].base[t]
                /\ new.row = r.row + fold[f].base[T]
                /\ new.about = r.about /\ new.origin = r.origin
<1> DEFINE a == fold[f].base[t]
           b == fold[f].base[T]
           new == [r EXCEPT !.id = @ + a, !.row = @ + b]
<1>1. a \in Nat /\ b \in Nat
    <2>1. fold[f] \in Progress /\ T \in Names
        BY TableFacts DEF TypeOK
    <2>2. fold[f].base \in [Names -> Nat]
        BY <2>1 DEF Progress
    <2> QED
        BY <2>1, <2>2
<1>2. Renumbered(f, t, r) = new
    BY DEF Renumbered, T
<1> HIDE DEF a, b
<1>3. new \in Row
    <2>1. PICK O, A : Row = [id : Nat, row : Nat, origin : O, about : A]
        BY DEF Row
    <2>2. r \in [id : Nat, row : Nat, origin : O, about : A]
        BY <2>1
    <2>3. r.id + a \in Nat /\ r.row + b \in Nat
        BY <1>1, <2>2
    <2>4. new \in [id : Nat, row : Nat, origin : O, about : A]
        BY <2>2, <2>3
    <2> QED
        BY <2>1, <2>4
<1>4. new.id = r.id + a /\ new.row = r.row + b /\ new.about = r.about /\ new.origin = r.origin
    BY DEF Row
<1> QED
    BY <1>2, <1>3, <1>4 DEF a, b

LEMMA InsertMoves ==
    ASSUME TypeInv, NEW f \in Folders, Insert(f)
    PROVE  /\ fold[f].pc = "insert" /\ kids' = kids /\ Table(f) \in Names
           /\ outcome' \in [Folders -> Outcomes] /\ muddled' \in BOOLEAN
           /\ \/ /\ hub' = hub /\ muddled' = muddled
                 /\ fold[f].todo[Table(f)] = {}
                 /\ \E st : Turns(f, st, "after")
              \/ hub' = hub /\ muddled' = TRUE /\ Ends(f)
              \/ \E r \in fold[f].todo[Table(f)], new \in Row : \E st :
                    /\ Inserts(f, st, r) /\ new = Renumbered(f, Table(f), r)
                    /\ \A q \in hub[Table(f)] : q.id # new.id
                    /\ hub' = [hub EXCEPT ![Table(f)] = @ \cup {new}]
                    /\ muddled' = muddled
<1> DEFINE t == Table(f)
           left == fold[f].todo[t]
<1>1. /\ TypeOK /\ fold[f] \in Progress /\ muddled \in BOOLEAN
      /\ fold[f].pc = "insert" /\ kids' = kids
    BY DEF TypeInv, TypeOK, Insert
<1>2. outcome \in [Folders -> Outcomes]
    BY <1>1 DEF TypeOK, Outcomes
<1>3. t \in Names /\ t = Current(f)
    BY <1>1, TableFacts DEF Table, Progress, Current
<1>4. left \in SUBSET Row
    BY <1>1, <1>3 DEF Progress
<1>5. CASE /\ left = {} /\ fold' = [fold EXCEPT ![f] = Advance(f, "after")]
           /\ UNCHANGED <<hub, outcome, muddled>>
    <2> DEFINE st == Advance(f, "after")
    <2>1. /\ st \in Progress /\ On(f, st, "after") /\ st.read = fold[f].read
          /\ st.base = fold[f].base /\ st.todo = fold[f].todo
        BY <1>1, AdvanceFits
    <2> HIDE DEF st
    <2>2. Turns(f, st, "after")
        BY <1>5, <2>1 DEF Turns, Goes, st
    <2> QED
        BY <1>1, <1>2, <1>3, <1>5, <2>2
<1>6. CASE \E r \in left : LET new == Renumbered(f, t, r) IN
             IF \E q \in hub[t] : q.id = new.id
             THEN /\ End(f, "error")
                  /\ muddled' = TRUE
                  /\ UNCHANGED hub
             ELSE /\ hub' = [hub EXCEPT ![t] = @ \cup {new}]
                  /\ fold' = [fold EXCEPT ![f].todo[t] = @ \ {r}]
                  /\ UNCHANGED <<outcome, muddled>>
    <2> DEFINE new(r) == Renumbered(f, t, r)
    <2>1. PICK r \in left :
             IF \E q \in hub[t] : q.id = new(r).id
             THEN /\ End(f, "error")
                  /\ muddled' = TRUE
                  /\ UNCHANGED hub
             ELSE /\ hub' = [hub EXCEPT ![t] = @ \cup {new(r)}]
                  /\ fold' = [fold EXCEPT ![f].todo[t] = @ \ {r}]
                  /\ UNCHANGED <<outcome, muddled>>
        BY <1>6
    <2>2. new(r) \in Row
        BY <1>1, <1>3, <1>4, RenumberedFacts
    <2>3. CASE /\ End(f, "error") /\ muddled' = TRUE /\ UNCHANGED hub
        BY <1>1, <1>3, <2>3, EndMoves DEF Outcomes
    <2>4. CASE /\ \A q \in hub[t] : q.id # new(r).id
               /\ hub' = [hub EXCEPT ![t] = @ \cup {new(r)}]
               /\ fold' = [fold EXCEPT ![f].todo[t] = @ \ {r}]
               /\ UNCHANGED <<outcome, muddled>>
        <3> DEFINE st == [fold[f] EXCEPT !.todo[t] = @ \ {r}]
        <3>1. st \in Progress
            BY <1>1, <1>3, <1>4 DEF Progress
        <3>2. /\ st.pc = fold[f].pc /\ st.k = fold[f].k
              /\ st.read = fold[f].read /\ st.base = fold[f].base
              /\ st.todo = [fold[f].todo EXCEPT ![t] = @ \ {r}]
            BY <1>1 DEF Progress
        <3>3. fold' = [fold EXCEPT ![f] = st]
            BY <2>4
        <3> HIDE DEF st
        <3>4. Inserts(f, st, r)
            BY <3>1, <3>2, <3>3 DEF Inserts, Goes
        <3> QED
            BY <1>1, <1>2, <1>3, <2>2, <2>4, <3>4
    <2> QED
        BY <2>1, <2>3, <2>4
<1> QED
    BY <1>3, <1>5, <1>6 DEF Insert

LEMMA CountAfterMoves ==
    ASSUME TypeInv, NEW f \in Folders, CountAfter(f)
    PROVE  /\ fold[f].pc = "after" /\ kids' = kids /\ hub' = hub /\ muddled' = muddled
           /\ outcome' \in [Folders -> Outcomes]
           /\ Ends(f) \/ \E st : Turns(f, st, "after")
<1>1. /\ TypeOK /\ fold[f] \in Progress
      /\ fold[f].pc = "after" /\ kids' = kids /\ hub' = hub /\ muddled' = muddled
      /\ outcome \in [Folders -> Outcomes]
    BY DEF TypeInv, TypeOK, CountAfter, Outcomes
<1>2. CASE \E result \in Outcomes : End(f, result)
    BY <1>1, <1>2, EndMoves
<1>3. CASE /\ fold[f].k < N
           /\ fold' = [fold EXCEPT ![f].k = @ + 1] /\ UNCHANGED outcome
    <2> DEFINE st == [fold[f] EXCEPT !.k = @ + 1]
    <2>1. fold[f].k + 1 \in 1 .. N
        BY <1>1, <1>3, TableFacts DEF Progress
    <2>2. st \in Progress
        BY <1>1, <2>1 DEF Progress
    <2>3. /\ st.k = fold[f].k + 1 /\ st.pc = fold[f].pc /\ st.read = fold[f].read
          /\ st.base = fold[f].base /\ st.todo = fold[f].todo
        BY <1>1 DEF Progress
    <2>4. fold' = [fold EXCEPT ![f] = st]
        BY <1>3
    <2> HIDE DEF st
    <2>5. Turns(f, st, "after")
        BY <1>3, <2>2, <2>3, <2>4 DEF Turns, Goes, On
    <2> QED
        BY <1>1, <1>3, <2>5
<1> QED
    BY <1>2, <1>3 DEF CountAfter, Outcomes

LEMMA HubAddMoves ==
    ASSUME TypeInv, NEW o \in {Null, Repo}, HubAdd(o)
    PROVE  /\ ladderVars' = ladderVars /\ kids' = kids /\ fold' = fold
           /\ outcome' = outcome /\ muddled' = muddled
           /\ \E new \in Row :
                /\ hub' = [hub EXCEPT ![T] = @ \cup {new}]
                /\ new.about = <<"hub", new.id>>
                /\ \A r \in hub[T] : r.id # new.id
<1> DEFINE id == MaxId(hub[T]) + 1
           new == [id |-> id, row |-> id, origin |-> o, about |-> <<"hub", id>>]
<1>1. /\ ladderVars' = ladderVars /\ kids' = kids /\ fold' = fold
      /\ outcome' = outcome /\ muddled' = muddled
      /\ hub' = [hub EXCEPT ![T] = @ \cup {new}]
    BY DEF HubAdd, T, ladderVars
<1>2. Bounded(hub[T]) /\ hub[T] \subseteq Row
    BY TableFacts DEF TypeInv, TypeOK
<1>3. MaxId(hub[T]) \in Nat /\ \A r \in hub[T] : r.id \in Nat /\ r.id <= MaxId(hub[T])
    BY <1>2, MaxIdFacts DEF Row
<1>4. id \in Nat /\ \A r \in hub[T] : r.id # id
    BY <1>3
<1> HIDE DEF id
<1>5. new \in Row
    BY <1>4 DEF Row
<1> QED
    BY <1>1, <1>4, <1>5

LEMMA HubFireMoves ==
    ASSUME TypeInv, NEW t \in Kids, NEW r \in hub[T], HubFire(t, r)
    PROVE  /\ ladderVars' = ladderVars /\ kids' = kids /\ fold' = fold
           /\ outcome' = outcome /\ muddled' = muddled
           /\ \E new \in Row :
                /\ hub' = [hub EXCEPT ![t] = @ \cup {new}]
                /\ new.row = r.id /\ new.about = r.about
<1> DEFINE id == MaxId(hub[t]) + 1
           new == [id |-> id, row |-> r.id, origin |-> Null, about |-> r.about]
<1>1. /\ ladderVars' = ladderVars /\ kids' = kids /\ fold' = fold
      /\ outcome' = outcome /\ muddled' = muddled
      /\ hub' = [hub EXCEPT ![t] = @ \cup {[id |-> MaxId(@) + 1, row |-> r.id,
                                            origin |-> Null, about |-> r.about]}]
    BY DEF HubFire, ladderVars
<1>2. t \in Names /\ T \in Names
    BY TableFacts
<1>3. Bounded(hub[t]) /\ hub[t] \subseteq Row /\ r \in Row
    BY <1>2 DEF TypeInv, TypeOK
<1>4. id \in Nat
    BY <1>3, MaxIdFacts DEF Row
<1>5. hub' = [hub EXCEPT ![t] = @ \cup {new}]
    BY <1>1, <1>2 DEF TypeInv, TypeOK
<1> HIDE DEF id
<1>6. new \in Row
    BY <1>3, <1>4 DEF Row
<1> QED
    BY <1>1, <1>5, <1>6

LEMMA SourceFireMoves ==
    ASSUME TypeInv, NEW t \in Kids, NEW i \in Ids, SourceFire(t, i)
    PROVE  /\ ladderVars' = ladderVars /\ hub' = hub /\ fold' = fold
           /\ outcome' = outcome /\ muddled' = muddled
           /\ status[i] # Absent /\ (LiveSource \/ ~Busy)
           /\ \E new \in [id : Nat, row : Ids] :
                kids' = [kids EXCEPT ![t] = @ \cup {new}] /\ new.row = i
<1> DEFINE id == MaxId(kids[t]) + 1
           new == [id |-> id, row |-> i]
<1>1. /\ ladderVars' = ladderVars /\ hub' = hub /\ fold' = fold
      /\ outcome' = outcome /\ muddled' = muddled
      /\ status[i] # Absent /\ (LiveSource \/ ~Busy)
      /\ kids' = [kids EXCEPT ![t] = @ \cup {new}]
    BY DEF SourceFire, SourceInUse, ladderVars
<1>2. Bounded(kids[t]) /\ kids[t] \subseteq [id : Nat, row : Ids]
    BY DEF TypeInv, TypeOK, Kids
<1>3. id \in Nat
    BY <1>2, MaxIdFacts
<1> HIDE DEF id
<1>4. new \in [id : Nat, row : Ids] /\ new.row = i
    BY <1>3
<1> HIDE DEF new
<1> QED
    BY <1>1, <1>4

LEMMA LadderOfNext == Next => LadderNext
<1> SUFFICES ASSUME Next PROVE LadderNext
    OBVIOUS
<1>1. CASE Migrate
    BY <1>1 DEF LadderNext
<1>2. CASE \E f \in Folders : FoldStep(f) /\ UNCHANGED ladderVars
    BY <1>2 DEF LadderNext
<1>3. CASE \E o \in {Null, Repo} : HubAdd(o)
    BY <1>3 DEF LadderNext, HubAdd
<1>4. CASE \E t \in ToSet(Children), r \in hub["takeaways"] : HubFire(t, r)
    BY <1>4 DEF LadderNext, HubFire
<1>5. CASE \E i \in Ids : SourceAdd(i)
    BY <1>5 DEF LadderNext
<1>6. CASE \E t \in ToSet(Children), i \in Ids : SourceFire(t, i)
    BY <1>6 DEF LadderNext, SourceFire
<1> QED
    BY <1>1, <1>2, <1>3, <1>4, <1>5, <1>6 DEF Next

LEMMA InitFacts ==
    ASSUME InitFold
    PROVE  /\ LadderInv
           /\ hub = None /\ \A t \in Names : hub[t] = {}
           /\ kids \in [Kids -> SUBSET [id : Nat, row : Ids]]
           /\ \A t \in Kids : \A c \in kids[t] : status[c.row] # Absent /\ c.id = 1
           /\ fold = [f \in Folders |-> Idle]
           /\ muddled = FALSE
<1>1. LadderInv
    BY LadderInit DEF InitFold
<1>2. hub = None /\ fold = [f \in Folders |-> Idle] /\ muddled = FALSE
    BY DEF InitFold
<1>3. \A t \in Names : None[t] = {}
    BY DEF None, Names
<1> DEFINE C == {{}} \cup {{[id |-> 1, row |-> i]} : i \in {i \in Ids : status[i] # Absent}}
<1>4. kids \in [Kids -> C]
    BY DEF InitFold, Kids
<1>5. ASSUME NEW x \in C
      PROVE  /\ x \subseteq [id : Nat, row : Ids]
             /\ \A c \in x : status[c.row] # Absent /\ c.id = 1
    OBVIOUS
<1> HIDE DEF C
<1> QED
    BY <1>1, <1>2, <1>3, <1>4, <1>5

LEMMA InitTyped == InitFold => TypeInv
<1> SUFFICES ASSUME InitFold PROVE TypeInv
    OBVIOUS
<1>1. /\ LadderInv
      /\ hub = None /\ \A t \in Names : hub[t] = {}
      /\ kids \in [Kids -> SUBSET [id : Nat, row : Ids]]
      /\ \A t \in Kids : \A c \in kids[t] : status[c.row] # Absent /\ c.id = 1
      /\ fold = [f \in Folders |-> Idle]
      /\ muddled = FALSE
    BY InitFacts
<1>2. hub \in [Names -> SUBSET Row]
    BY <1>1 DEF None, Names
<1>3. outcome \in [Folders -> {"none", "already", "not v7", "error", "not conserved",
                              "folded", "killed"}]
    BY DEF InitFold
<1>4. muddled \in BOOLEAN
    BY <1>1
<1>5. TypeOK
    BY <1>1, <1>2, <1>3, <1>4, IdleFits DEF TypeOK, LadderInv, Kids
<1>6. \A t \in Names : Bounded(hub[t]) /\ IsFiniteSet(hub[t])
    BY <1>1, FS_EmptySet DEF Bounded
<1>7. \A t \in Kids : Bounded(kids[t])
    BY <1>1 DEF Bounded
<1>8. \A f \in Folders : fold[f].pc = "idle" => fold[f] = Idle
    BY <1>1
<1> QED
    BY <1>1, <1>5, <1>6, <1>7, <1>8 DEF TypeInv

\* A fold's step leaves the tables typed when it leaves each typed.
LEMMA FoldKeeps ==
    ASSUME TypeInv, LadderInv', kids' = kids,
           hub' \in [Names -> SUBSET Row],
           \A t \in Names : Bounded(hub'[t]) /\ IsFiniteSet(hub'[t]),
           outcome' \in [Folders -> Outcomes], muddled' \in BOOLEAN,
           fold' \in [Folders -> Progress],
           \A f \in Folders : fold'[f].pc = "idle" => fold'[f] = Idle
    PROVE  TypeInv'
<1>1. LadderTypeOK'
    BY DEF LadderInv
<1>2. kids' \in [ToSet(Children) -> SUBSET [id : Nat, row : Ids]]
    BY DEF TypeInv, TypeOK
<1>3. TypeOK'
    BY <1>1, <1>2 DEF TypeOK, Outcomes
<1>4. \A t \in Kids : Bounded(kids'[t])
    BY DEF TypeInv
<1> QED
    BY <1>3, <1>4 DEF TypeInv, Bounded

LEMMA HubGrows ==
    ASSUME TypeInv, NEW t \in Names, NEW new \in Row,
           hub' = [hub EXCEPT ![t] = @ \cup {new}]
    PROVE  /\ hub' \in [Names -> SUBSET Row]
           /\ \A u \in Names : Bounded(hub'[u]) /\ IsFiniteSet(hub'[u])
<1>1. hub \in [Names -> SUBSET Row]
    BY DEF TypeInv, TypeOK
<1>2. \A u \in Names : Bounded(hub[u]) /\ IsFiniteSet(hub[u])
    BY DEF TypeInv
<1>3. \A q \in Row : q.id \in Nat
    BY DEF Row
<1>4. Bounded(hub[t] \cup {new}) /\ IsFiniteSet(hub[t] \cup {new})
    BY <1>1, <1>2, <1>3, BoundedGrows, FS_AddElement
<1>5. \A u \in Names : hub'[u] = IF u = t THEN hub[t] \cup {new} ELSE hub[u]
    BY <1>1
<1> QED
    BY <1>1, <1>2, <1>4, <1>5

\* The rows of a store that a fold's step leaves alone, and its own progress.
LEMMA StepTyped ==
    ASSUME TypeInv, LadderInv', NEW f \in Folders, FoldStep(f)
    PROVE  TypeInv'
<1>1. hub \in [Names -> SUBSET Row] /\ \A t \in Names : Bounded(hub[t]) /\ IsFiniteSet(hub[t])
    BY DEF TypeInv, TypeOK
<1>2. outcome \in [Folders -> Outcomes] /\ muddled \in BOOLEAN
    BY DEF TypeInv, TypeOK, Outcomes
<1>3. ASSUME NEW st, Goes(f, st), st.pc # "idle" \/ st = Idle
      PROVE  /\ fold' \in [Folders -> Progress]
             /\ \A g \in Folders : fold'[g].pc = "idle" => fold'[g] = Idle
    BY <1>3, FoldMoves DEF Goes
<1>4. Ends(f) => /\ fold' \in [Folders -> Progress]
                 /\ \A g \in Folders : fold'[g].pc = "idle" => fold'[g] = Idle
    BY <1>3 DEF Ends
<1>5. CASE Guard(f)
    BY <1>1, <1>3, <1>4, <1>5, GuardMoves, FoldKeeps DEF Starts
<1>6. CASE Read(f)
    BY <1>1, <1>2, <1>3, <1>4, <1>6, ReadMoves, FoldKeeps DEF Reads, On
<1>7. CASE ReadMax(f)
    BY <1>1, <1>2, <1>3, <1>7, ReadMaxMoves, FoldKeeps DEF Bases, On
<1>8. CASE Count(f)
    BY <1>1, <1>2, <1>3, <1>8, CountMoves, FoldKeeps DEF Counts, On
<1>9. CASE Insert(f)
    <2>1. \A st : Turns(f, st, "after") /\ fold[f].pc = "insert" => Goes(f, st) /\ st.pc # "idle"
        BY DEF Turns, On
    <2>2. \A st, r : Inserts(f, st, r) /\ fold[f].pc = "insert" => Goes(f, st) /\ st.pc # "idle"
        BY DEF Inserts
    <2>3. /\ fold[f].pc = "insert" /\ kids' = kids /\ Table(f) \in Names
          /\ outcome' \in [Folders -> Outcomes] /\ muddled' \in BOOLEAN
        BY <1>9, InsertMoves
    <2>4. CASE hub' = hub /\ Ends(f)
        BY <1>1, <1>4, <2>3, <2>4, FoldKeeps
    <2>5. CASE hub' = hub /\ \E st : Turns(f, st, "after")
        BY <1>1, <1>3, <2>1, <2>3, <2>5, FoldKeeps
    <2>6. CASE \E r, new \in Row : \E st :
                  Inserts(f, st, r) /\ hub' = [hub EXCEPT ![Table(f)] = @ \cup {new}]
        <3>1. /\ hub' \in [Names -> SUBSET Row]
              /\ \A u \in Names : Bounded(hub'[u]) /\ IsFiniteSet(hub'[u])
            BY <2>3, <2>6, HubGrows
        <3> QED
            BY <1>3, <2>2, <2>3, <2>6, <3>1, FoldKeeps
    <2>7. fold[f].todo[Table(f)] \subseteq Row
        BY <2>3 DEF TypeInv, TypeOK, Progress
    <2> QED
        BY <1>9, <2>4, <2>5, <2>6, <2>7, InsertMoves
<1>10. CASE CountAfter(f)
    BY <1>1, <1>2, <1>3, <1>4, <1>10, CountAfterMoves, FoldKeeps DEF Turns, On
<1>11. CASE FoldDies(f)
    BY <1>1, <1>4, <1>11, EndMoves, FoldKeeps DEF FoldDies, TypeInv, Outcomes
<1>12. CASE Again(f)
    <2>1. outcome' \in [Folders -> Outcomes]
        BY <1>2, <1>12 DEF Again, Outcomes
    <2>2. fold \in [Folders -> Progress] /\ \A g \in Folders : fold[g].pc = "idle" => fold[g] = Idle
        BY DEF TypeInv, TypeOK
    <2> QED
        BY <1>1, <1>2, <1>12, <2>1, <2>2, FoldKeeps DEF Again
<1> QED
    BY <1>5, <1>6, <1>7, <1>8, <1>9, <1>10, <1>11, <1>12 DEF FoldStep

LEMMA NextTyped == TypeInv /\ [Next]_vars => TypeInv'
<1> SUFFICES ASSUME TypeInv, [Next]_vars PROVE TypeInv'
    OBVIOUS
<1>1. hub \in [Names -> SUBSET Row] /\ \A t \in Names : Bounded(hub[t]) /\ IsFiniteSet(hub[t])
    BY DEF TypeInv, TypeOK
<1>2. outcome \in [Folders -> Outcomes] /\ muddled \in BOOLEAN
    BY DEF TypeInv, TypeOK, Outcomes
<1>3. fold \in [Folders -> Progress] /\ \A g \in Folders : fold[g].pc = "idle" => fold[g] = Idle
    BY DEF TypeInv, TypeOK
<1>4. LadderInv'
    BY LadderOfNext, LadderMoves DEF TypeInv, vars, LadderNext
<1>5. CASE UNCHANGED foldVars
    BY <1>1, <1>2, <1>3, <1>4, <1>5, FoldKeeps DEF foldVars
<1>6. CASE \E f \in Folders : FoldStep(f)
    BY <1>4, <1>6, StepTyped
<1>7. ASSUME NEW o \in {Null, Repo}, HubAdd(o)
      PROVE  TypeInv'
    <2>1. T \in Names
        BY TableFacts
    <2> QED
        BY <1>2, <1>3, <1>4, <1>7, <2>1, HubAddMoves, HubGrows, FoldKeeps
<1>8. ASSUME NEW t \in Kids, NEW r \in hub[T], HubFire(t, r)
      PROVE  TypeInv'
    <2>1. t \in Names
        BY TableFacts
    <2> QED
        BY <1>2, <1>3, <1>4, <1>8, <2>1, HubFireMoves, HubGrows, FoldKeeps
<1>9. ASSUME NEW t \in Kids, NEW i \in Ids, SourceFire(t, i)
      PROVE  TypeInv'
    <2>1. PICK new \in [id : Nat, row : Ids] : kids' = [kids EXCEPT ![t] = @ \cup {new}]
        BY <1>9, SourceFireMoves
    <2>2. /\ hub' = hub /\ fold' = fold /\ outcome' = outcome /\ muddled' = muddled
        BY <1>9, SourceFireMoves
    <2>3. kids \in [Kids -> SUBSET [id : Nat, row : Ids]] /\ \A u \in Kids : Bounded(kids[u])
        BY DEF TypeInv, TypeOK, Kids
    <2>4. kids' \in [Kids -> SUBSET [id : Nat, row : Ids]]
        BY <2>1, <2>3
    <2>5. Bounded(kids[t] \cup {new})
        BY <2>3, BoundedGrows
    <2>6. \A u \in Kids : Bounded(kids'[u])
        BY <2>1, <2>3, <2>5
    <2>7. LadderTypeOK'
        BY <1>4 DEF LadderInv
    <2>8. TypeOK'
        BY <1>1, <1>2, <1>3, <2>2, <2>4, <2>7 DEF TypeOK, Outcomes, Kids
    <2> QED
        BY <1>1, <1>3, <1>4, <2>2, <2>6, <2>8 DEF TypeInv, Bounded
<1> QED
    BY <1>5, <1>6, <1>7, <1>8, <1>9 DEF Next, vars, SourceAdd, Kids, T

\* The source and the hub hold rows of their schemas, and a fold's progress is
\* one the code can be at, whatever the folders and the sessions do.
THEOREM TypeCorrect == Spec => []TypeOK
<1>1. TypeInv => TypeOK
    BY DEF TypeInv
<1> QED
    BY <1>1, InitTyped, NextTyped, PTL DEF Spec

\* However often a migration dies and is run again, a row's old status can be told
\* from its status and mirror, and no row is retired or revived on the way
\* (the statements of migrate in the order of init_sync.py).
THEOREM StatusKept == Spec => []StatusSurvives
<1>1. TypeInv => StatusSurvives
    <2> SUFFICES ASSUME TypeInv, NEW i \in Ids
                 PROVE  /\ was[i] # Absent => Mapped(status[i]) = Mapped(was[i])
                        /\ domain = "v1" \/ "mirror" \in has =>
                             \/ status[i] = was[i]
                             \/ was[i] # Absent /\ MirrorOf(was[i]) = mirror[i]
                             \/ was[i] = Absent
        BY DEF StatusSurvives
    <2>1. \/ was[i] = Absent
          \/ status[i] = was[i]
          \/ /\ was[i] \in {"upstream_candidate", "mirrored"}
             /\ status[i] = "active"
             /\ mirror[i] = MirrorOf(was[i])
        BY DEF TypeInv, LadderInv, Survives
    <2> QED
        BY <2>1 DEF Mapped
<1> QED
    BY <1>1, InitTyped, NextTyped, PTL DEF Spec

-----------------------------------------------------------------------------
(* No child row loses its parent, if the source is at rest while folded. *)

UniqueIds == \A r, q \in hub[T] : r.id = q.id => r = q

HasParent(row, about) == \E r \in hub[T] : r.id = row /\ r.about = about

HubKids == \A t \in Kids : \A c \in hub[t] : HasParent(c.row, c.about)

SourceKids == \A t \in Kids : \A c \in kids[t] : status[c.row] # Absent

\* Once the takeaways are read, what was read is what the source holds.
ReadInv(f) ==
    fold[f].pc # "idle" =>
        /\ fold[f].pc # "read" \/ fold[f].k > 1 => fold[f].read[T] = Source(T)
        /\ \A t \in Kids : fold[f].read[t] \subseteq Source(t)

\* The takeaways are all in the hub before the first child row is, each under the
\* id its child rows are going to refer to.
InsertInv(f) ==
    fold[f].pc = "insert" =>
        /\ \A t \in Names : fold[f].todo[t] \subseteq fold[f].read[t]
        /\ fold[f].k > 1 => fold[f].todo[T] = {}
        /\ \A q \in fold[f].read[T] \ fold[f].todo[T] :
             HasParent(q.id + fold[f].base[T], q.about)

ParentInv ==
    /\ UniqueIds /\ HubKids /\ SourceKids
    /\ \A f \in Folders : ReadInv(f) /\ InsertInv(f)

LEMMA PresentStays ==
    ASSUME LadderInv, LadderNext
    PROVE  \A i \in Ids : status[i] # Absent => status'[i] # Absent
<1> SUFFICES ASSUME NEW i \in Ids, status[i] # Absent PROVE status'[i] # Absent
    OBVIOUS
<1>1. status \in [Ids -> {Absent} \cup V1Status] /\ Absent # "active"
    BY DoltLadderAssumption DEF LadderInv, LadderTypeOK, V1Status
<1>2. CASE status' = status
    BY <1>2
<1>3. CASE Execute
    BY <1>1, <1>3 DEF Execute, Effect
<1>4. ASSUME NEW j \in Ids, SourceAdd(j)
      PROVE  status'[i] # Absent
    BY <1>1, <1>4 DEF SourceAdd
<1> QED
    BY <1>2, <1>3, <1>4 DEF LadderNext, Migrate, StartMigrate, Die, ladderVars

LEMMA AtRest ==
    ASSUME ~LiveSource, Busy, [Next]_vars
    PROVE  kids' = kids /\ status' = status /\ origin' = origin
<1>1. ~BeforeFold
    BY DEF Busy, BeforeFold
<1>2. CASE \E f \in Folders : FoldStep(f) /\ UNCHANGED ladderVars
    <2>1. PICK f \in Folders : FoldStep(f) /\ UNCHANGED ladderVars
        BY <1>2
    <2>2. kids' = kids
        BY <2>1 DEF FoldStep, Guard, Read, ReadMax, Count, Insert, CountAfter, FoldDies, Again
    <2> QED
        BY <2>1, <2>2 DEF ladderVars
<1>3. CASE \E o \in {Null, Repo} : HubAdd(o)
    BY <1>3 DEF HubAdd, ladderVars
<1>4. CASE \E t \in ToSet(Children), r \in hub["takeaways"] : HubFire(t, r)
    BY <1>4 DEF HubFire, ladderVars
<1>5. \A i \in Ids : ~SourceAdd(i)
    BY DEF SourceAdd, SourceInUse
<1>6. \A t \in ToSet(Children), i \in Ids : ~SourceFire(t, i)
    BY DEF SourceFire, SourceInUse
<1> QED
    BY <1>1, <1>2, <1>3, <1>4, <1>5, <1>6 DEF Next, vars, ladderVars, foldVars

LEMMA SourceStays ==
    ASSUME kids' = kids, status' = status, origin' = origin
    PROVE  \A t \in Names : Source(t)' = Source(t)
BY DEF Source

\* What a fold knows of the source and the hub stays true while it makes no step.
LEMMA OtherFold ==
    ASSUME NEW f \in Folders, ReadInv(f), InsertInv(f), fold'[f] = fold[f],
           fold[f].pc # "idle" => \A t \in Names : Source(t)' = Source(t),
           hub[T] \subseteq hub'[T]
    PROVE  ReadInv(f)' /\ InsertInv(f)'
<1>1. ReadInv(f)'
    BY TableFacts DEF ReadInv
<1>2. InsertInv(f)'
    BY DEF InsertInv, HasParent
<1> QED
    BY <1>1, <1>2

LEMMA HubSteady ==
    ASSUME ParentInv, hub' = hub
    PROVE  UniqueIds' /\ HubKids'
BY DEF ParentInv, UniqueIds, HubKids, HasParent

LEMMA ParentInit == InitFold => ParentInv
<1> SUFFICES ASSUME InitFold PROVE ParentInv
    OBVIOUS
<1>1. /\ hub = None /\ \A t \in Names : hub[t] = {}
      /\ \A t \in Kids : \A c \in kids[t] : status[c.row] # Absent
      /\ fold = [f \in Folders |-> Idle]
    BY InitFacts
<1>2. \A f \in Folders : fold[f].pc = "idle"
    BY <1>1 DEF Idle
<1> QED
    BY <1>1, <1>2, TableFacts DEF ParentInv, UniqueIds, HubKids, SourceKids, ReadInv, InsertInv

\* A fold's step leaves what it knows true.
LEMMA OwnStep ==
    ASSUME TypeInv, ParentInv, NEW f \in Folders, FoldStep(f),
           \A t \in Names : Source(t)' = Source(t)
    PROVE  UniqueIds' /\ HubKids' /\ ReadInv(f)' /\ InsertInv(f)' /\ hub[T] \subseteq hub'[T]
<1>1. /\ ReadInv(f) /\ InsertInv(f) /\ fold[f] \in Progress /\ TypeOK
      /\ T \in Names /\ \A t \in Kids : t \in Names /\ t # T
    BY TableFacts DEF ParentInv, TypeInv, TypeOK
<1>2. fold[f].k \in 1 .. N /\ fold[f].read \in [Names -> SUBSET Row] /\ fold[f].todo \in [Names -> SUBSET Row]
    BY <1>1 DEF Progress
<1>3. /\ Table(f) \in Names
      /\ fold[f].k = 1 => Table(f) = T
      /\ fold[f].k > 1 => Table(f) \in Kids
    BY <1>2, TableFacts DEF Table
<1>4. \A st : Goes(f, st) => fold'[f] = st
    BY DEF Goes, TypeInv, TypeOK
<1>5. ASSUME Ends(f) PROVE ReadInv(f)' /\ InsertInv(f)'
    <2>1. fold'[f].pc = "idle"
        BY <1>4, <1>5 DEF Ends, Idle
    <2> QED
        BY <2>1 DEF ReadInv, InsertInv
<1>6. CASE Guard(f)
    <2>1. hub' = hub
        BY <1>6, GuardMoves
    <2>2. ASSUME NEW st, Starts(f, st) PROVE ReadInv(f)' /\ InsertInv(f)'
        <3>1. fold'[f] = st /\ st.pc = "read" /\ st.k = 1 /\ st.read = None
            BY <1>4, <2>2 DEF Starts
        <3>2. \A t \in Kids : None[t] = {}
            BY <1>1 DEF None, Names
        <3> QED
            BY <3>1, <3>2 DEF ReadInv, InsertInv
    <2> QED
        BY <1>5, <1>6, <2>1, <2>2, GuardMoves, HubSteady
<1>7. CASE Read(f)
    <2>1. hub' = hub /\ fold[f].pc = "read"
        BY <1>7, ReadMoves
    <2>2. ASSUME NEW st, Reads(f, st) PROVE ReadInv(f)' /\ InsertInv(f)'
        <3>1. /\ fold'[f] = st /\ st.pc \in {"read", "max"}
              /\ st.read = [fold[f].read EXCEPT ![Table(f)] = Source(Table(f))]
            BY <1>4, <2>1, <2>2 DEF Reads, On
        <3>2. fold[f].k = 1 \/ fold[f].k > 1
            BY <1>2
        <3>3. st.read[T] = Source(T)
            BY <1>1, <1>2, <1>3, <2>1, <3>1, <3>2 DEF ReadInv
        <3>4. \A t \in Kids : st.read[t] \subseteq Source(t)
            BY <1>1, <1>2, <2>1, <3>1 DEF ReadInv
        <3> QED
            BY <1>1, <3>1, <3>3, <3>4 DEF ReadInv, InsertInv
    <2> QED
        BY <1>5, <1>7, <2>1, <2>2, ReadMoves, HubSteady
<1>8. CASE ReadMax(f)
    <2>1. hub' = hub /\ fold[f].pc = "max"
        BY <1>8, ReadMaxMoves
    <2>2. PICK st : Bases(f, st)
        BY <1>8, ReadMaxMoves
    <2>3. fold'[f] = st /\ st.pc \in {"max", "count"} /\ st.read = fold[f].read
        BY <1>4, <2>1, <2>2 DEF Bases, On
    <2>4. ReadInv(f)' /\ InsertInv(f)'
        BY <1>1, <2>1, <2>3 DEF ReadInv, InsertInv
    <2> QED
        BY <2>1, <2>4, HubSteady
<1>9. CASE Count(f)
    <2>1. hub' = hub /\ fold[f].pc = "count"
        BY <1>9, CountMoves
    <2>2. PICK st : Counts(f, st)
        BY <1>9, CountMoves
    <2>3. /\ fold'[f] = st /\ st.pc \in {"count", "insert"}
          /\ st.read = fold[f].read /\ st.todo = fold[f].read
          /\ st.pc = "insert" => st.k = 1
        BY <1>4, <2>1, <2>2 DEF Counts, On
    <2>4. ReadInv(f)'
        BY <1>1, <2>1, <2>3 DEF ReadInv
    <2>5. InsertInv(f)'
        BY <2>3 DEF InsertInv
    <2> QED
        BY <2>1, <2>4, <2>5, HubSteady
<1>10. CASE Insert(f)
    <2>1. fold[f].pc = "insert"
        BY <1>10, InsertMoves
    <2>2. /\ fold[f].read[T] = Source(T)
          /\ \A t \in Kids : fold[f].read[t] \subseteq Source(t)
          /\ \A t \in Names : fold[f].todo[t] \subseteq fold[f].read[t]
          /\ fold[f].k > 1 => fold[f].todo[T] = {}
          /\ \A q \in fold[f].read[T] \ fold[f].todo[T] :
                HasParent(q.id + fold[f].base[T], q.about)
        BY <1>1, <2>1 DEF ReadInv, InsertInv
    <2>3. CASE hub' = hub /\ Ends(f)
        BY <1>5, <2>3, HubSteady
    <2>4. ASSUME hub' = hub, fold[f].todo[Table(f)] = {}, NEW st, Turns(f, st, "after")
          PROVE  ReadInv(f)' /\ InsertInv(f)'
        <3>1. /\ fold'[f] = st /\ st.pc \in {"insert", "after"}
              /\ st.read = fold[f].read /\ st.todo = fold[f].todo /\ st.base = fold[f].base
            BY <1>4, <2>1, <2>4 DEF Turns, On
        <3>2. fold[f].todo[T] = {}
            BY <1>2, <1>3, <2>2, <2>4
        <3>3. ReadInv(f)'
            BY <1>1, <2>2, <3>1 DEF ReadInv
        <3>4. InsertInv(f)'
            BY <2>2, <2>4, <3>1, <3>2 DEF InsertInv, HasParent
        <3> QED
            BY <3>3, <3>4
    <2>5. ASSUME NEW r \in fold[f].todo[Table(f)], NEW new \in Row, NEW st,
                 Inserts(f, st, r), new = Renumbered(f, Table(f), r),
                 \A q \in hub[Table(f)] : q.id # new.id,
                 hub' = [hub EXCEPT ![Table(f)] = @ \cup {new}]
          PROVE  UniqueIds' /\ HubKids' /\ ReadInv(f)' /\ InsertInv(f)' /\ hub[T] \subseteq hub'[T]
        <3>1. /\ fold'[f] = st /\ st.pc = "insert" /\ st.k = fold[f].k
              /\ st.read = fold[f].read /\ st.base = fold[f].base
              /\ st.todo = [fold[f].todo EXCEPT ![Table(f)] = @ \ {r}]
            BY <1>4, <2>1, <2>5 DEF Inserts
        <3>2. /\ new.id = r.id + fold[f].base[Table(f)]
              /\ new.row = r.row + fold[f].base[T] /\ new.about = r.about
            <4>1. r \in Row
                BY <1>2, <1>3
            <4> QED
                BY <1>1, <1>3, <2>5, <4>1, RenumberedFacts
        <3>3. \A t \in Names : hub'[t] = IF t = Table(f) THEN hub[t] \cup {new} ELSE hub[t]
            BY <1>1, <2>5 DEF TypeOK
        <3>4. hub[T] \subseteq hub'[T]
            BY <1>1, <3>3
        <3>5. UniqueIds'
            BY <1>1, <2>5, <3>3 DEF ParentInv, UniqueIds
        <3>6. ReadInv(f)'
            BY <1>1, <2>1, <3>1 DEF ReadInv
        <3>7. InsertInv(f)'
            <4>1. \A t \in Names : st.todo[t] \subseteq fold[f].todo[t]
                BY <1>2, <3>1
            <4>2. \A q \in fold[f].read[T] \ fold[f].todo[T] :
                        HasParent(q.id + fold[f].base[T], q.about)'
                BY <2>2, <3>1, <3>4 DEF HasParent
            <4>3. ASSUME NEW q \in fold[f].todo[T] \ st.todo[T]
                  PROVE  \E h \in hub'[T] : h.id = q.id + fold[f].base[T] /\ h.about = q.about
                <5>1. Table(f) = T /\ q = r
                    BY <1>1, <1>2, <3>1
                <5> QED
                    BY <1>1, <3>2, <3>3, <5>1
            <4>4. \A q \in fold[f].read[T] \ st.todo[T] :
                     \E h \in hub'[T] : h.id = q.id + st.base[T] /\ h.about = q.about
                BY <2>2, <3>1, <3>4, <4>3 DEF HasParent
            <4>5. st.k > 1 => st.todo[T] = {}
                BY <1>1, <2>2, <3>1, <4>1
            <4>6. \A t \in Names : st.todo[t] \subseteq st.read[t]
                BY <2>2, <3>1, <4>1
            <4> QED
                BY <3>1, <4>4, <4>5, <4>6 DEF InsertInv, HasParent
        <3>8. ASSUME NEW t \in Kids, NEW c \in hub'[t]
              PROVE  \E h \in hub'[T] : h.id = c.row /\ h.about = c.about
            <4>1. CASE c \in hub[t]
                BY <3>4, <4>1 DEF ParentInv, HubKids, HasParent
            <4>2. CASE c \notin hub[t]
                <5>1. t = Table(f) /\ c = new /\ t # T
                    BY <1>1, <3>3, <4>2
                <5>2. fold[f].todo[T] = {} /\ r \in Source(t)
                    BY <1>1, <1>2, <1>3, <2>2, <5>1
                <5>3. PICK d \in kids[t] : r = [id |-> d.id, row |-> d.row, origin |-> Null,
                                               about |-> <<"source", d.row>>]
                    BY <5>1, <5>2 DEF Source, T
                <5>4. status[d.row] # Absent /\ d.row \in Ids
                    <6>1. kids \in [Kids -> SUBSET [id : Nat, row : Ids]]
                        BY <1>1 DEF TypeOK, Kids
                    <6> QED
                        BY <6>1 DEF ParentInv, SourceKids
                <5> DEFINE q == [id |-> d.row, row |-> d.row, origin |-> origin[d.row],
                                 about |-> <<"source", d.row>>]
                <5>5. q \in Source(T)
                    BY <5>4 DEF Source, T
                <5>6. q.id = r.row /\ q.about = r.about
                    BY <5>3
                <5> HIDE DEF q
                <5>7. HasParent(q.id + fold[f].base[T], q.about)
                    BY <2>2, <5>2, <5>5
                <5> QED
                    BY <3>2, <3>4, <5>1, <5>6, <5>7 DEF HasParent
            <4> QED
                BY <4>1, <4>2
        <3> QED
            BY <3>4, <3>5, <3>6, <3>7, <3>8 DEF HubKids, HasParent
    <2> QED
        BY <1>10, <2>3, <2>4, <2>5, InsertMoves, HubSteady
<1>11. CASE CountAfter(f)
    <2>1. hub' = hub /\ fold[f].pc = "after"
        BY <1>11, CountAfterMoves
    <2>2. ASSUME NEW st, Turns(f, st, "after") PROVE ReadInv(f)' /\ InsertInv(f)'
        <3>1. fold'[f] = st /\ st.pc = "after" /\ st.read = fold[f].read
            BY <1>4, <2>1, <2>2 DEF Turns, On
        <3> QED
            BY <1>1, <2>1, <3>1 DEF ReadInv, InsertInv
    <2> QED
        BY <1>5, <1>11, <2>1, <2>2, CountAfterMoves, HubSteady
<1>12. CASE FoldDies(f)
    <2>1. hub' = hub /\ Ends(f)
        BY <1>1, <1>12, EndMoves DEF FoldDies, Outcomes
    <2> QED
        BY <1>5, <2>1, HubSteady
<1>13. CASE Again(f)
    <2>1. hub' = hub /\ fold' = fold
        BY <1>13 DEF Again
    <2> QED
        BY <1>1, <2>1, HubSteady, OtherFold
<1> QED
    BY <1>6, <1>7, <1>8, <1>9, <1>10, <1>11, <1>12, <1>13 DEF FoldStep

LEMMA OthersStay ==
    ASSUME TypeInv, NEW f \in Folders, FoldStep(f)
    PROVE  \A g \in Folders \ {f} : fold'[g] = fold[g]
<1>1. fold \in [Folders -> Progress]
    BY DEF TypeInv, TypeOK
<1>2. ASSUME NEW st, Goes(f, st)
      PROVE  \A g \in Folders \ {f} : fold'[g] = fold[g]
    BY <1>1, <1>2 DEF Goes
<1>3. Ends(f) => \A g \in Folders \ {f} : fold'[g] = fold[g]
    BY <1>2 DEF Ends
<1>4. CASE Guard(f)
    BY <1>2, <1>3, <1>4, GuardMoves DEF Starts
<1>5. CASE Read(f)
    BY <1>2, <1>3, <1>5, ReadMoves DEF Reads
<1>6. CASE ReadMax(f)
    BY <1>2, <1>6, ReadMaxMoves DEF Bases
<1>7. CASE Count(f)
    BY <1>2, <1>7, CountMoves DEF Counts
<1>8. CASE Insert(f)
    BY <1>2, <1>3, <1>8, InsertMoves DEF Turns, Inserts
<1>9. CASE CountAfter(f)
    BY <1>2, <1>3, <1>9, CountAfterMoves DEF Turns
<1>10. CASE FoldDies(f)
    BY <1>1, <1>10 DEF FoldDies, End
<1>11. CASE Again(f)
    BY <1>11 DEF Again
<1> QED
    BY <1>4, <1>5, <1>6, <1>7, <1>8, <1>9, <1>10, <1>11 DEF FoldStep

LEMMA ParentStep ==
    ASSUME ~LiveSource
    PROVE  TypeInv /\ ParentInv /\ [Next]_vars => ParentInv'
<1> SUFFICES ASSUME TypeInv, ParentInv, [Next]_vars PROVE ParentInv'
    OBVIOUS
<1>1. \A i \in Ids : status[i] # Absent => status'[i] # Absent
    BY LadderOfNext, PresentStays DEF TypeInv, vars, LadderNext
<1>2. kids \in [Kids -> SUBSET [id : Nat, row : Ids]]
    BY DEF TypeInv, TypeOK, Kids
<1>3. kids' = kids => SourceKids'
    BY <1>1, <1>2 DEF ParentInv, SourceKids
<1>4. \A f \in Folders : ReadInv(f) /\ InsertInv(f)
    BY DEF ParentInv
<1>5. \A f \in Folders : fold[f].pc # "idle" => \A t \in Names : Source(t)' = Source(t)
    BY AtRest, SourceStays DEF Busy
<1>6. hub \in [Names -> SUBSET Row] /\ T \in Names /\ \A t \in Kids : t \in Names /\ t # T
    BY TableFacts DEF TypeInv, TypeOK
<1>7. CASE UNCHANGED <<kids, hub, fold>>
    BY <1>3, <1>4, <1>5, <1>7, HubSteady, OtherFold DEF ParentInv
<1>8. ASSUME NEW f \in Folders, FoldStep(f), UNCHANGED ladderVars
      PROVE  ParentInv'
    <2>1. kids' = kids
        BY <1>8 DEF FoldStep, Guard, Read, ReadMax, Count, Insert, CountAfter, FoldDies, Again
    <2>2. \A t \in Names : Source(t)' = Source(t)
        BY <1>8, <2>1, SourceStays DEF ladderVars
    <2>3. UniqueIds' /\ HubKids' /\ ReadInv(f)' /\ InsertInv(f)' /\ hub[T] \subseteq hub'[T]
        BY <1>8, <2>2, OwnStep
    <2>4. \A g \in Folders \ {f} : ReadInv(g)' /\ InsertInv(g)'
        BY <1>4, <1>8, <2>2, <2>3, OthersStay, OtherFold
    <2> QED
        BY <1>3, <2>1, <2>3, <2>4 DEF ParentInv
<1>9. ASSUME NEW o \in {Null, Repo}, HubAdd(o)
      PROVE  ParentInv'
    <2>1. kids' = kids /\ fold' = fold
        BY <1>9, HubAddMoves
    <2>2. PICK new \in Row :
             /\ hub' = [hub EXCEPT ![T] = @ \cup {new}]
             /\ \A r \in hub[T] : r.id # new.id
        BY <1>9, HubAddMoves
    <2>3. hub'[T] = hub[T] \cup {new} /\ \A t \in Kids : hub'[t] = hub[t]
        BY <1>6, <2>2
    <2>4. UniqueIds'
        BY <2>2, <2>3 DEF ParentInv, UniqueIds
    <2>5. HubKids'
        BY <2>3 DEF ParentInv, HubKids, HasParent
    <2> QED
        BY <1>3, <1>4, <1>5, <2>1, <2>3, <2>4, <2>5, OtherFold DEF ParentInv
<1>10. ASSUME NEW t \in Kids, NEW r \in hub[T], HubFire(t, r)
       PROVE  ParentInv'
    <2>1. kids' = kids /\ fold' = fold
        BY <1>10, HubFireMoves
    <2>2. PICK new \in Row :
             /\ hub' = [hub EXCEPT ![t] = @ \cup {new}]
             /\ new.row = r.id /\ new.about = r.about
        BY <1>10, HubFireMoves
    <2>3. /\ hub'[T] = hub[T] /\ hub'[t] = hub[t] \cup {new}
          /\ \A u \in Kids \ {t} : hub'[u] = hub[u]
        BY <1>6, <2>2
    <2>4. UniqueIds'
        BY <2>3 DEF ParentInv, UniqueIds
    <2>5. HubKids'
        <3>1. ASSUME NEW u \in Kids, NEW c \in hub'[u]
              PROVE  \E h \in hub'[T] : h.id = c.row /\ h.about = c.about
            <4>1. c \in hub[u] \/ (u = t /\ c = new)
                BY <2>3
            <4> QED
                BY <2>2, <2>3, <4>1 DEF ParentInv, HubKids, HasParent
        <3> QED
            BY <3>1 DEF HubKids, HasParent
    <2> QED
        BY <1>3, <1>4, <1>5, <2>1, <2>3, <2>4, <2>5, OtherFold DEF ParentInv
<1>11. ASSUME NEW t \in Kids, NEW i \in Ids, SourceFire(t, i)
       PROVE  ParentInv'
    <2>1. hub' = hub /\ fold' = fold /\ status[i] # Absent
        BY <1>11, SourceFireMoves
    <2>2. PICK new \in [id : Nat, row : Ids] :
             kids' = [kids EXCEPT ![t] = @ \cup {new}] /\ new.row = i
        BY <1>11, SourceFireMoves
    <2>3. \A u \in Kids : kids'[u] \subseteq kids[u] \cup {new}
        BY <1>2, <2>2
    <2>4. SourceKids'
        <3>1. ASSUME NEW u \in Kids, NEW c \in kids'[u] PROVE status'[c.row] # Absent
            <4>1. c \in kids[u] \/ c = new
                BY <2>3
            <4>2. CASE c \in kids[u]
                BY <1>1, <1>2, <4>2 DEF ParentInv, SourceKids
            <4>3. CASE c = new
                BY <1>1, <2>1, <2>2, <4>3
            <4> QED
                BY <4>1, <4>2, <4>3
        <3> QED
            BY <3>1 DEF SourceKids
    <2> QED
        BY <1>4, <1>5, <2>1, <2>4, HubSteady, OtherFold DEF ParentInv
<1> QED
    BY <1>7, <1>8, <1>9, <1>10, <1>11 DEF Next, vars, foldVars, SourceAdd, Kids, T

\* If no session uses the source while it is folded, every child row of the hub
\* refers to a takeaway, at every moment of any number of folds and after folds
\* that died (fold_store inserts the takeaways first).
THEOREM NoOrphan ==
    ASSUME ~LiveSource
    PROVE  Spec => []NoOrphans
<1>1. TypeInv /\ ParentInv => NoOrphans
    BY DEF ParentInv, HubKids, HasParent, NoOrphans, Orphans, Kids, T
<1> QED
    BY <1>1, InitTyped, NextTyped, ParentInit, ParentStep, PTL DEF Spec

\* And the takeaway a child row refers to is the one it was written about, whatever
\* ids the sessions and the other folds took while this one was reading,
\* when no session writes to the source between the reads.
THEOREM ParentRight ==
    ASSUME ~LiveSource
    PROVE  Spec => []RightParent
<1>1. ParentInv => RightParent
    BY DEF ParentInv, UniqueIds, HubKids, HasParent, RightParent, Kids, T
<1> QED
    BY <1>1, InitTyped, NextTyped, ParentInit, ParentStep, PTL DEF Spec

-----------------------------------------------------------------------------
(* No source row is in the hub twice. *)

\* Every row of the hub's own sessions is about itself.
HubAbouts == \A h \in hub[T] : h.about[1] = "hub" => h.about = <<"hub", h.id>>

\* What a fold carries is about rows of the source.
Carried(f) == \A r \in fold[f].read[T] \cup fold[f].todo[T] : r.about[1] = "source"

OneEach == \A r, q \in hub[T] : r.about = q.about => r = q

OneFold == \A f, g \in Folders : fold[f].pc # "idle" /\ fold[g].pc # "idle" => f = g

\* So that the next fold's guard finds them.
OriginsKept == \A h \in hub[T] : h.about[1] = "source" => h.origin = Repo

\* A fold that is under way: the source's origins are filled, so what it read has
\* them; the hub has nothing of the source before it inserts, and of what it has
\* still to insert, nothing.
FoldClean(f) ==
    fold[f].pc # "idle" =>
        /\ ~unfilled /\ "reach" \in has /\ plan = {}
        /\ \A r \in fold[f].read[T] : r.origin = Repo
        /\ \A r, q \in fold[f].read[T] : r.about = q.about => r = q
        /\ fold[f].pc \in {"read", "max", "count"} => \A h \in hub[T] : h.about[1] # "source"
        /\ fold[f].pc = "insert" =>
             /\ fold[f].todo[T] \subseteq fold[f].read[T]
             /\ \A h \in hub[T], q \in fold[f].todo[T] : h.about # q.about

Clean == OneEach /\ OneFold /\ OriginsKept /\ \A f \in Folders : FoldClean(f)

OnceInv ==
    /\ HubAbouts
    /\ \A f \in Folders : Carried(f)
    /\ ~muddled => Clean

LEMMA OnceInit == InitFold => OnceInv
<1> SUFFICES ASSUME InitFold PROVE OnceInv
    OBVIOUS
<1>1. hub[T] = {} /\ \A f \in Folders : fold[f] = Idle
    BY InitFacts, TableFacts
<1>2. Idle.pc = "idle" /\ Idle.read[T] = {} /\ Idle.todo[T] = {}
    BY TableFacts DEF Idle, None, Names
<1> QED
    BY <1>1, <1>2 DEF OnceInv, HubAbouts, Carried, Clean, OneEach, OneFold, OriginsKept, FoldClean

LEMMA SourceRows ==
    ASSUME TypeInv
    PROVE  /\ \A r \in Source(T) : r.about[1] = "source"
           /\ \A r, q \in Source(T) : r.about = q.about => r = q
           /\ plan = {} /\ "reach" \in has /\ ~unfilled => \A r \in Source(T) : r.origin = Repo
<1> DEFINE row(i) == [id |-> i, row |-> i, origin |-> origin[i], about |-> <<"source", i>>]
<1>1. Source(T) = {row(i) : i \in {i \in Ids : status[i] # Absent}}
    BY DEF Source, T
<1>2. plan = {} /\ "reach" \in has /\ ~unfilled =>
        \A i \in Ids : status[i] # Absent => origin[i] = Repo
    BY DEF TypeInv, LadderInv, OriginFilled
<1> QED
    BY <1>1, <1>2

\* A fold's step that leaves the hub's takeaways and the ladder alone.
LEMMA OnceMoves ==
    ASSUME OnceInv, NEW f \in Folders,
           hub'[T] = hub[T], UNCHANGED ladderVars,
           \A g \in Folders \ {f} : fold'[g] = fold[g],
           ~muddled' => ~muddled,
           Carried(f)',
           ~muddled' => FoldClean(f)',
           ~muddled' => \/ fold'[f].pc = "idle" \/ fold[f].pc # "idle"
                        \/ \A g \in Folders : fold[g].pc = "idle"
    PROVE  OnceInv'
<1>1. HubAbouts'
    BY DEF OnceInv, HubAbouts
<1>2. \A g \in Folders : Carried(g)'
    BY DEF OnceInv, Carried
<1>3. ASSUME ~muddled'
      PROVE  Clean'
    <2>1. Clean
        BY <1>3 DEF OnceInv
    <2>2. OneEach' /\ OriginsKept'
        BY <2>1 DEF Clean, OneEach, OriginsKept
    <2>3. OneFold'
        BY <1>3, <2>1 DEF Clean, OneFold
    <2>4. ASSUME NEW g \in Folders \ {f} PROVE FoldClean(g)'
        BY <2>1 DEF Clean, FoldClean, ladderVars
    <2> QED
        BY <1>3, <2>2, <2>3, <2>4 DEF Clean
<1> QED
    BY <1>1, <1>2, <1>3 DEF OnceInv

LEMMA OnceFold ==
    ASSUME TypeInv, OnceInv, NEW f \in Folders, FoldStep(f), UNCHANGED ladderVars
    PROVE  OnceInv'
<1>1. /\ fold[f] \in Progress /\ TypeOK /\ T \in Names /\ Carried(f)
      /\ \A t \in Kids : t \in Names /\ t # T
    BY TableFacts DEF OnceInv, TypeInv, TypeOK
<1>2. fold[f].k \in 1 .. N /\ fold[f].read \in [Names -> SUBSET Row] /\ fold[f].todo \in [Names -> SUBSET Row]
    BY <1>1 DEF Progress
<1>3. /\ Table(f) \in Names
      /\ fold[f].k = 1 => Table(f) = T
      /\ fold[f].k > 1 => Table(f) \in Kids
    BY <1>2, TableFacts DEF Table
<1>4. \A st : Goes(f, st) => fold'[f] = st
    BY DEF Goes, TypeInv, TypeOK
<1>5. \A g \in Folders \ {f} : fold'[g] = fold[g]
    BY OthersStay
<1>6. UNCHANGED <<has, plan, unfilled>>
    BY DEF ladderVars
<1>7. ~muddled => FoldClean(f)
    BY DEF OnceInv, Clean
<1>8. ASSUME Ends(f), hub' = hub, ~muddled' => ~muddled PROVE OnceInv'
    <2>1. fold'[f] = Idle
        BY <1>4, <1>8 DEF Ends
    <2>2. Idle.pc = "idle" /\ Idle.read[T] = {} /\ Idle.todo[T] = {}
        BY TableFacts DEF Idle, None, Names
    <2>3. Carried(f)' /\ FoldClean(f)'
        BY <2>1, <2>2 DEF Carried, FoldClean
    <2> QED
        BY <1>5, <1>8, <2>1, <2>2, <2>3, OnceMoves
<1>9. CASE Guard(f)
    <2>1. ASSUME NEW st, Starts(f, st), "reach" \in has, \A r \in hub[T] : r.origin # Repo,
                 muddled' = (muddled \/ Busy \/ unfilled), hub' = hub, plan = {}
          PROVE  OnceInv'
        <3>1. ~muddled' => ~muddled /\ ~Busy /\ ~unfilled
            BY <2>1
        <3>2. fold'[f] = st /\ fold[f] = Idle /\ st.pc = "read" /\ st.read = None
            BY <1>4, <2>1 DEF Starts
        <3>3. None[T] = {}
            BY <1>1 DEF None, Names
        <3>4. ~muddled' => \A h \in hub[T] : h.about[1] # "source"
            BY <2>1, <3>1 DEF OnceInv, Clean, OriginsKept
        <3>5. st.todo[T] = {}
            <4>1. fold' = [fold EXCEPT ![f].pc = "read"] \/ Ends(f)
                BY <1>1, <1>9, EndMoves DEF Guard, Outcomes
            <4>2. ~Ends(f)
                BY <1>4, <3>2 DEF Ends, Idle
            <4>3. fold'[f].todo = fold[f].todo
                BY <1>1, <4>1, <4>2 DEF TypeOK, Progress
            <4> QED
                BY <1>1, <3>2, <3>3, <4>3 DEF Idle
        <3>6. Carried(f)'
            BY <3>2, <3>3, <3>5 DEF Carried
        <3>7. ~muddled' => FoldClean(f)'
            BY <1>6, <2>1, <3>1, <3>2, <3>3, <3>4 DEF FoldClean
        <3>8. ~muddled' => \A g \in Folders : fold[g].pc = "idle"
            BY <3>1 DEF Busy
        <3> QED
            BY <1>5, <2>1, <3>1, <3>6, <3>7, <3>8, OnceMoves
    <2> QED
        BY <1>8, <1>9, <2>1, GuardMoves
<1>10. CASE Read(f)
    <2>1. hub' = hub /\ muddled' = muddled /\ fold[f].pc = "read"
        BY <1>10, ReadMoves
    <2>2. ASSUME NEW st, Reads(f, st)
          PROVE  OnceInv'
        <3>1. /\ fold'[f] = st /\ st.pc \in {"read", "max"}
              /\ st.read = [fold[f].read EXCEPT ![Table(f)] = Source(Table(f))]
            BY <1>4, <2>1, <2>2 DEF Reads, On
        <3>2. st.read[T] = Source(T) \/ st.read[T] = fold[f].read[T]
            BY <1>1, <1>2, <3>1
        <3>3. st.todo = fold[f].todo
            <4>1. fold' = [fold EXCEPT ![f] = [Advance(f, "max") EXCEPT !.read[Table(f)] = Source(Table(f))]]
                  \/ Ends(f)
                BY <1>1, <1>10, EndMoves DEF Read, Table, Outcomes
            <4>2. ~Ends(f)
                BY <1>4, <3>1 DEF Ends, Idle
            <4>3. fold'[f] = [Advance(f, "max") EXCEPT !.read[Table(f)] = Source(Table(f))]
                BY <1>1, <4>1, <4>2 DEF TypeOK
            <4>4. Advance(f, "max") \in Progress /\ Advance(f, "max").todo = fold[f].todo
                BY <1>1, AdvanceFits
            <4> QED
                BY <3>1, <4>3, <4>4 DEF Progress
        <3>4. Carried(f)'
            BY <1>1, <3>1, <3>2, <3>3, SourceRows DEF Carried
        <3>5. ~muddled' => FoldClean(f)'
            BY <1>6, <1>7, <2>1, <3>1, <3>2, SourceRows DEF FoldClean
        <3> QED
            BY <1>5, <2>1, <3>4, <3>5, OnceMoves
    <2> QED
        BY <1>8, <1>10, <2>1, <2>2, ReadMoves
<1>11. CASE ReadMax(f)
    <2>1. hub' = hub /\ muddled' = muddled /\ fold[f].pc = "max"
        BY <1>11, ReadMaxMoves
    <2>2. PICK st : Bases(f, st)
        BY <1>11, ReadMaxMoves
    <2>3. fold'[f] = st /\ st.pc \in {"max", "count"} /\ st.read = fold[f].read
        BY <1>4, <2>1, <2>2 DEF Bases, On
    <2>4. st.todo = fold[f].todo
        <3>1. fold'[f] = [Advance(f, "count") EXCEPT !.base[Table(f)] = MaxId(hub[Table(f)])]
            BY <1>1, <1>11 DEF ReadMax, Table, TypeOK
        <3>2. Advance(f, "count") \in Progress /\ Advance(f, "count").todo = fold[f].todo
            BY <1>1, AdvanceFits
        <3> QED
            BY <2>3, <3>1, <3>2 DEF Progress
    <2>5. Carried(f)'
        BY <1>1, <2>3, <2>4 DEF Carried
    <2>6. ~muddled' => FoldClean(f)'
        BY <1>6, <1>7, <2>1, <2>3 DEF FoldClean
    <2> QED
        BY <1>5, <2>1, <2>5, <2>6, OnceMoves
<1>12. CASE Count(f)
    <2>1. hub' = hub /\ muddled' = muddled /\ fold[f].pc = "count"
        BY <1>12, CountMoves
    <2>2. PICK st : Counts(f, st)
        BY <1>12, CountMoves
    <2>3. /\ fold'[f] = st /\ st.pc \in {"count", "insert"}
          /\ st.read = fold[f].read /\ st.todo = fold[f].read
        BY <1>4, <2>1, <2>2 DEF Counts, On
    <2>4. Carried(f)'
        BY <1>1, <2>3 DEF Carried
    <2>5. ~muddled' => FoldClean(f)'
        <3>1. \A q \in fold[f].read[T] : q.about[1] = "source"
            BY <1>1 DEF Carried
        <3> QED
            BY <1>6, <1>7, <2>1, <2>3, <3>1 DEF FoldClean
    <2> QED
        BY <1>5, <2>1, <2>4, <2>5, OnceMoves
<1>13. CASE Insert(f)
    <2>1. fold[f].pc = "insert"
        BY <1>13, InsertMoves
    <2>2. CASE hub' = hub /\ muddled' = TRUE /\ Ends(f)
        BY <1>8, <2>2
    <2>3. ASSUME hub' = hub, muddled' = muddled, NEW st, Turns(f, st, "after")
          PROVE  OnceInv'
        <3>1. /\ fold'[f] = st /\ st.pc \in {"insert", "after"}
              /\ st.read = fold[f].read /\ st.todo = fold[f].todo
            BY <1>4, <2>1, <2>3 DEF Turns, On
        <3>2. Carried(f)'
            BY <1>1, <3>1 DEF Carried
        <3>3. ~muddled' => FoldClean(f)'
            BY <1>6, <1>7, <2>1, <2>3, <3>1 DEF FoldClean
        <3> QED
            BY <1>5, <2>1, <2>3, <3>2, <3>3, OnceMoves
    <2>4. ASSUME NEW r \in fold[f].todo[Table(f)], NEW new \in Row, NEW st,
                 Inserts(f, st, r), new = Renumbered(f, Table(f), r),
                 hub' = [hub EXCEPT ![Table(f)] = @ \cup {new}],
                 muddled' = muddled
          PROVE  OnceInv'
        <3>1. /\ fold'[f] = st /\ st.pc = "insert" /\ st.read = fold[f].read
              /\ st.todo = [fold[f].todo EXCEPT ![Table(f)] = @ \ {r}]
            BY <1>4, <2>1, <2>4 DEF Inserts
        <3>2. new.about = r.about /\ new.origin = r.origin
            <4>1. r \in Row
                BY <1>2, <1>3
            <4> QED
                BY <1>1, <1>3, <2>4, <4>1, RenumberedFacts
        <3>3. st.todo[T] \subseteq fold[f].todo[T]
            BY <1>1, <1>2, <3>1
        <3>4. Carried(f)'
            BY <1>1, <3>1, <3>3 DEF Carried
        <3>5. CASE Table(f) # T
            <4>1. hub'[T] = hub[T]
                BY <1>1, <1>3, <2>4, <3>5 DEF TypeOK
            <4>2. ~muddled' => FoldClean(f)'
                BY <1>6, <1>7, <2>1, <2>4, <3>1, <3>3, <4>1 DEF FoldClean
            <4> QED
                BY <1>5, <2>1, <2>4, <3>4, <4>1, <4>2, OnceMoves
        <3>6. CASE Table(f) = T
            <4>1. hub'[T] = hub[T] \cup {new} /\ r \in fold[f].todo[T] /\ r \notin st.todo[T]
                BY <1>1, <1>2, <2>4, <3>1, <3>6 DEF TypeOK
            <4>2. new.about[1] = "source"
                BY <1>1, <3>2, <4>1 DEF Carried
            <4>3. HubAbouts'
                BY <4>1, <4>2 DEF OnceInv, HubAbouts
            <4>4. \A g \in Folders : Carried(g)'
                BY <1>5, <3>4 DEF OnceInv, Carried
            <4>5. ASSUME ~muddled'
                  PROVE  Clean'
                <5>1. Clean /\ FoldClean(f) /\ ~muddled
                    BY <2>4, <4>5 DEF OnceInv, Clean
                <5>2. /\ fold[f].todo[T] \subseteq fold[f].read[T]
                      /\ \A h \in hub[T], q \in fold[f].todo[T] : h.about # q.about
                      /\ \A q \in fold[f].read[T] : q.origin = Repo
                      /\ \A p, q \in fold[f].read[T] : p.about = q.about => p = q
                    BY <2>1, <5>1 DEF FoldClean
                <5>3. OneEach'
                    BY <3>2, <4>1, <5>1, <5>2 DEF Clean, OneEach
                <5>4. OriginsKept'
                    BY <3>2, <4>1, <5>1, <5>2 DEF Clean, OriginsKept
                <5>5. OneFold'
                    BY <1>5, <2>1, <3>1, <5>1 DEF Clean, OneFold
                <5>6. \A h \in hub'[T], q \in st.todo[T] : h.about # q.about
                    BY <3>2, <3>3, <4>1, <5>2
                <5>7. FoldClean(f)'
                    BY <1>6, <2>1, <3>1, <3>3, <5>1, <5>2, <5>6 DEF FoldClean
                <5>8. ASSUME NEW g \in Folders \ {f} PROVE FoldClean(g)'
                    <6>1. fold'[g].pc = "idle"
                        BY <1>5, <2>1, <5>1 DEF Clean, OneFold
                    <6> QED
                        BY <6>1 DEF FoldClean
                <5> QED
                    BY <5>3, <5>4, <5>5, <5>7, <5>8 DEF Clean
            <4> QED
                BY <4>3, <4>4, <4>5 DEF OnceInv
        <3> QED
            BY <3>5, <3>6
    <2> QED
        BY <1>13, <2>2, <2>3, <2>4, InsertMoves
<1>14. CASE CountAfter(f)
    <2>1. hub' = hub /\ muddled' = muddled /\ fold[f].pc = "after"
        BY <1>14, CountAfterMoves
    <2>2. ASSUME NEW st, Turns(f, st, "after") PROVE OnceInv'
        <3>1. /\ fold'[f] = st /\ st.pc = "after"
              /\ st.read = fold[f].read /\ st.todo = fold[f].todo
            BY <1>4, <2>1, <2>2 DEF Turns, On
        <3>2. Carried(f)'
            BY <1>1, <3>1 DEF Carried
        <3>3. ~muddled' => FoldClean(f)'
            BY <1>6, <1>7, <2>1, <3>1 DEF FoldClean
        <3> QED
            BY <1>5, <2>1, <3>2, <3>3, OnceMoves
    <2> QED
        BY <1>8, <1>14, <2>1, <2>2, CountAfterMoves
<1>15. CASE FoldDies(f)
    <2>1. hub' = hub /\ muddled' = TRUE /\ Ends(f)
        BY <1>1, <1>15, EndMoves DEF FoldDies, Outcomes
    <2> QED
        BY <1>8, <2>1
<1>16. CASE Again(f)
    <2>1. hub' = hub /\ fold' = fold /\ muddled' = muddled
        BY <1>16 DEF Again
    <2>2. Carried(f)' /\ (~muddled' => FoldClean(f)')
        BY <1>1, <1>6, <1>7, <2>1 DEF Carried, FoldClean
    <2> QED
        BY <1>5, <2>1, <2>2, OnceMoves
<1> QED
    BY <1>9, <1>10, <1>11, <1>12, <1>13, <1>14, <1>15, <1>16 DEF FoldStep

LEMMA OnceStep == TypeInv /\ OnceInv /\ [Next]_vars => OnceInv'
<1> SUFFICES ASSUME TypeInv, OnceInv, [Next]_vars PROVE OnceInv'
    OBVIOUS
<1>1. hub \in [Names -> SUBSET Row] /\ T \in Names /\ \A t \in Kids : t \in Names /\ t # T
    BY TableFacts DEF TypeInv, TypeOK
<1>2. ASSUME hub'[T] = hub[T], fold' = fold, muddled' = muddled,
             UNCHANGED <<has, plan, unfilled>> \/ \A f \in Folders : fold[f].pc = "idle"
      PROVE  OnceInv'
    BY <1>2 DEF OnceInv, HubAbouts, Carried, Clean, OneEach, OneFold, OriginsKept, FoldClean
<1>3. CASE Migrate /\ BeforeFold /\ UNCHANGED foldVars
    BY <1>2, <1>3 DEF BeforeFold, foldVars
<1>4. CASE \E f \in Folders : FoldStep(f) /\ UNCHANGED ladderVars
    BY <1>4, OnceFold
<1>5. ASSUME NEW o \in {Null, Repo}, HubAdd(o)
      PROVE  OnceInv'
    <2>1. fold' = fold /\ muddled' = muddled /\ UNCHANGED <<has, plan, unfilled>>
        BY <1>5, HubAddMoves DEF ladderVars
    <2>2. PICK new \in Row :
             /\ hub' = [hub EXCEPT ![T] = @ \cup {new}]
             /\ new.about = <<"hub", new.id>>
             /\ \A r \in hub[T] : r.id # new.id
        BY <1>5, HubAddMoves
    <2>3. hub'[T] = hub[T] \cup {new} /\ new.about[1] = "hub"
        BY <1>1, <2>2
    <2>4. \A r \in hub[T] : r.about # new.about
        <3>1. ASSUME NEW r \in hub[T], r.about = new.about
              PROVE  FALSE
            <4>1. r.about = <<"hub", r.id>>
                BY <2>3, <3>1 DEF OnceInv, HubAbouts
            <4> QED
                BY <2>2, <3>1, <4>1
        <3> QED
            BY <3>1
    <2>5. HubAbouts'
        BY <2>2, <2>3 DEF OnceInv, HubAbouts
    <2>6. \A f \in Folders : Carried(f)'
        BY <2>1 DEF OnceInv, Carried
    <2>7. ASSUME ~muddled'
          PROVE  Clean'
        <3>1. Clean
            BY <2>1, <2>7 DEF OnceInv
        <3>2. OneEach' /\ OriginsKept' /\ OneFold'
            BY <2>1, <2>3, <2>4, <3>1 DEF Clean, OneEach, OriginsKept, OneFold
        <3>3. ASSUME NEW f \in Folders PROVE FoldClean(f)'
            <4>1. FoldClean(f) /\ Carried(f)
                BY <3>1 DEF Clean, OnceInv
            <4>2. \A q \in fold[f].todo[T] : new.about # q.about
                BY <2>3, <4>1 DEF Carried
            <4>3. \A h \in hub'[T] : h \in hub[T] \/ h = new
                BY <2>3
            <4> QED
                BY <2>1, <2>3, <4>1, <4>2, <4>3 DEF FoldClean
        <3> QED
            BY <3>2, <3>3 DEF Clean
    <2> QED
        BY <2>5, <2>6, <2>7 DEF OnceInv
<1>6. ASSUME NEW t \in Kids, NEW r \in hub[T], HubFire(t, r)
      PROVE  OnceInv'
    <2>1. hub'[T] = hub[T]
        BY <1>1, <1>6, HubFireMoves
    <2> QED
        BY <1>2, <1>6, <2>1, HubFireMoves DEF ladderVars
<1>7. ASSUME NEW i \in Ids, SourceAdd(i)
      PROVE  OnceInv'
    BY <1>2, <1>7 DEF SourceAdd, foldVars
<1>8. ASSUME NEW t \in Kids, NEW i \in Ids, SourceFire(t, i)
      PROVE  OnceInv'
    BY <1>2, <1>8, SourceFireMoves DEF ladderVars
<1>9. CASE UNCHANGED vars
    BY <1>2, <1>9 DEF vars, ladderVars, foldVars
<1> QED
    BY <1>3, <1>4, <1>5, <1>6, <1>7, <1>8, <1>9 DEF Next, Kids, T

\* However often folds are started, no source row is in the hub twice, unless folds
\* overlapped, one broke off, or the source's origins were never filled (the guard
\* of fold_store asks the hub for the origin, which every folded row keeps).
THEOREM OnceFolded == Spec => []FoldedOnce
<1>1. OnceInv => FoldedOnce
    BY DEF OnceInv, Clean, OneEach, FoldedOnce, T
<1> QED
    BY <1>1, InitTyped, NextTyped, OnceInit, OnceStep, PTL DEF Spec
=============================================================================
