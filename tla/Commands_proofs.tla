-------------------------- MODULE Commands_proofs --------------------------
(***************************************************************************)
(* Theorems about the commands people run beside the hooks, for every      *)
(* value of their constants: replay (Replay), propose and calibrate        *)
(* (Tuning), and init, instrument and sync (Instrument).                   *)
(***************************************************************************)
EXTENDS Replay, Tuning, Instrument, WellFoundedInduction, SequenceTheorems,
        FiniteSetTheorems, TLAPS

-----------------------------------------------------------------------------
(* Lists *)

\* The least of some natural numbers.
LEMMA Least ==
    ASSUME NEW S \in SUBSET Nat, S # {}
    PROVE  \E x \in S : \A y \in S : x <= y
<1>1. PICK x \in S : \A y \in S : ~ (<<y, x>> \in OpToRel(<, Nat))
    BY NatLessThanWellFounded, WFMin
<1>2. ASSUME NEW y \in S
      PROVE  x <= y
    <2>1. ~ (y < x)
        BY <1>1, Zenon DEF OpToRel
    <2> QED
        BY <2>1
<1> QED
    BY <1>2

\* What Only keeps of longer and longer prefixes.
Keeps(s, S, f, m) ==
    f = [n \in 0 .. m |->
           IF n = 0 THEN <<>> ELSE IF s[n] \in S THEN Append(f[n - 1], s[n]) ELSE f[n - 1]]

LEMMA KeepsExists ==
    ASSUME NEW s, NEW S, NEW m \in Nat
    PROVE  \E f : Keeps(s, S, f, m)
<1> DEFINE Bad == {n \in Nat : ~ \E f : Keeps(s, S, f, n)}
<1> SUFFICES ASSUME Bad # {}
             PROVE  FALSE
    OBVIOUS
<1>1. PICK n \in Bad : \A k \in Bad : n <= k
    BY Least
<1>2. n # 0
    <2> DEFINE f == [i \in 0 .. 0 |-> <<>>]
    <2>1. Keeps(s, S, f, 0)
        BY DEF Keeps
    <2> QED
        BY <2>1
<1>3. PICK f : Keeps(s, S, f, n - 1)
    BY <1>1, <1>2
<1> DEFINE g == [i \in 0 .. n |->
                   IF i = n THEN IF s[n] \in S THEN Append(f[n - 1], s[n]) ELSE f[n - 1] ELSE f[i]]
<1>4. ASSUME NEW i \in 0 .. n
      PROVE  g[i] = IF i = 0 THEN <<>>
                    ELSE IF s[i] \in S THEN Append(g[i - 1], s[i]) ELSE g[i - 1]
    <2>1. \A j \in 0 .. n - 1 : f[j] =
            IF j = 0 THEN <<>> ELSE IF s[j] \in S THEN Append(f[j - 1], s[j]) ELSE f[j - 1]
        BY <1>3 DEF Keeps
    <2>2. \A j \in 0 .. n - 1 : g[j] = f[j]
        BY <1>1
    <2>3. CASE i = n
        <3>1. g[n - 1] = f[n - 1]
            BY <2>2, <1>1, <1>2
        <3>2. g[n] = IF s[n] \in S THEN Append(f[n - 1], s[n]) ELSE f[n - 1]
            BY <1>1
        <3> HIDE DEF g
        <3> QED
            BY <2>3, <3>1, <3>2, <1>2
    <2>4. CASE i # n
        <3>1. i \in 0 .. n - 1 /\ (i # 0 => i - 1 \in 0 .. n - 1)
            BY <2>4, <1>1
        <3> HIDE DEF g
        <3> QED
            BY <3>1, <2>1, <2>2
    <2> QED
        BY <2>3, <2>4
<1>5. Keeps(s, S, g, n)
    BY <1>4 DEF Keeps
<1> QED
    BY <1>5, <1>1

\* OnlyUpTo is the function its recursion describes.
LEMMA OnlySteps ==
    ASSUME NEW s, NEW S, Len(s) \in Nat
    PROVE  /\ OnlyUpTo(s, S)[0] = <<>>
           /\ \A n \in 1 .. Len(s) :
                OnlyUpTo(s, S)[n] = IF s[n] \in S THEN Append(OnlyUpTo(s, S)[n - 1], s[n])
                                    ELSE OnlyUpTo(s, S)[n - 1]
<1>1. OnlyUpTo(s, S) = CHOOSE f : Keeps(s, S, f, Len(s))
    BY DEF OnlyUpTo, Keeps
<1>2. Keeps(s, S, OnlyUpTo(s, S), Len(s))
    BY <1>1, KeepsExists, Zenon
<1>3. PICK f : f = OnlyUpTo(s, S)
    OBVIOUS
<1>4. Keeps(s, S, f, Len(s))
    BY <1>2, <1>3
<1>5. \A n \in 0 .. Len(s) : f[n] =
        IF n = 0 THEN <<>> ELSE IF s[n] \in S THEN Append(f[n - 1], s[n]) ELSE f[n - 1]
    BY <1>4 DEF Keeps
<1>6. f[0] = <<>>
    BY <1>5
<1>7. \A n \in 1 .. Len(s) :
        f[n] = IF s[n] \in S THEN Append(f[n - 1], s[n]) ELSE f[n - 1]
    BY <1>5
<1> QED
    BY <1>3, <1>6, <1>7

\* What Only keeps is a list of elements of s in S, and it keeps all of them.
LEMMA OnlyKeeps ==
    ASSUME NEW T, NEW s \in Seq(T), NEW S
    PROVE  /\ Only(s, S) \in Seq(T)
           /\ ToSet(Only(s, S)) = ToSet(s) \cap S
<1> DEFINE Kept(n) == /\ OnlyUpTo(s, S)[n] \in Seq(T)
                      /\ ToSet(OnlyUpTo(s, S)[n]) = {s[i] : i \in 1 .. n} \cap S
           Bad == {n \in 0 .. Len(s) : ~ Kept(n)}
<1>1. Len(s) \in Nat
    OBVIOUS
<1>2. ASSUME Bad # {}
      PROVE  FALSE
    <2>0. Bad \in SUBSET Nat
        BY <1>1
    <2>1. PICK n \in Bad : \A k \in Bad : n <= k
        <3> HIDE DEF Bad
        <3> QED
            BY <2>0, <1>2, Least
    <2>2. n # 0
        <3>1. OnlyUpTo(s, S)[0] = <<>>
            BY <1>1, OnlySteps
        <3>2. Kept(0)
            BY <3>1 DEF ToSet
        <3> QED
            BY <3>2, <2>1
    <2>3. Kept(n - 1)
        <3>1. n \in Nat /\ n - 1 \in 0 .. Len(s) /\ ~ (n <= n - 1)
            BY <2>0, <2>1, <2>2
        <3>2. n - 1 \notin Bad
            BY <3>1, <2>1
        <3> HIDE DEF Kept
        <3> QED
            BY <3>1, <3>2
    <2>4. PICK before : before = OnlyUpTo(s, S)[n - 1]
        OBVIOUS
    <2>5. PICK after : after = OnlyUpTo(s, S)[n]
        OBVIOUS
    <2>6. after = IF s[n] \in S THEN Append(before, s[n]) ELSE before
        BY <2>1, <2>2, <2>4, <2>5, <1>1, OnlySteps
    <2>7. before \in Seq(T) /\ ToSet(before) = {s[i] : i \in 1 .. n - 1} \cap S
        BY <2>3, <2>4
    <2>8. s[n] \in T
        BY <2>1, <2>2
    <2>9. after \in Seq(T)
        BY <2>6, <2>7, <2>8
    <2>10. ToSet(after) = IF s[n] \in S THEN ToSet(before) \cup {s[n]} ELSE ToSet(before)
        BY <2>6, <2>7, <2>8 DEF ToSet
    <2>11. {s[i] : i \in 1 .. n} = {s[i] : i \in 1 .. n - 1} \cup {s[n]}
        BY <2>1, <2>2
    <2>12. ToSet(after) = {s[i] : i \in 1 .. n} \cap S
        BY <2>7, <2>10, <2>11
    <2> QED
        BY <2>1, <2>5, <2>9, <2>12
<1>3. Kept(Len(s))
    <2>1. Len(s) \in 0 .. Len(s)
        BY <1>1
    <2> HIDE DEF Kept
    <2> QED
        BY <2>1, <1>2
<1> QED
    BY <1>3 DEF Only, ToSet

-----------------------------------------------------------------------------

-----------------------------------------------------------------------------
(* Replay: any number of runs and conditions, in one second or many,         *)
(* signalled at any step.                                                    *)

Steps == {"queued", "adding", "inject", "spawn", "poll", "harvest", "teardown", "cleanup", "done"}
Modes == {"running", "rmtree", "prune", "branches", "over", "dead"}
Commits == {"snapshot", "frozen", "agent"}

\* Every variable has its type (that of the locks no argument needs).
ReplayType ==
    /\ id \in [Runs -> RunIds]
    /\ out \in [Runs -> {"own", "reused"}]
    /\ mode \in [Runs -> Modes]
    /\ pc \in [All -> Steps]
    /\ dirs \subseteq All /\ table \subseteq All /\ raced \subseteq All
    /\ branch \subseteq (RunIds \X Conditions) \X Runs
    /\ session \in [Conditions -> Runs \cup {NoRun}]
    /\ head \in [All -> Commits] /\ base \in [All -> Commits]
    /\ report \in [Places -> Runs \cup {Before, NoRun}]
    /\ record \in [All -> {"none", "branch", "report", "timeout", "error"}]

\* The session of a condition's name belongs to a run that is at its agent.
SessionInv ==
    \A x \in All : session[x[2]] = x[1] => pc[x] \in {"poll", "harvest", "teardown"}

\* From the freeze to the harvest only the agent moves the branch from the base.
BaseInv ==
    \A x \in All : pc[x] \in {"spawn", "poll"} => head[x] \in {base[x], "agent"}

\* In a directory of its own a run finds reports of runs of its own second alone.
ReportInv ==
    \A p \in RunIds \X Conditions :
        report[p] # NoRun => report[p] \in Runs /\ id[report[p]] = p[1]

\* What HarvestIsOwn allows a report to be.
OwnReport(x) ==
    \/ report[Place(x)] = x[1]
    \/ out[x[1]] = "reused"
    \/ \E q \in Runs \ {x[1]} : id[q] = id[x[1]]

\* A worktree that is gone differs from its base too; it stays gone, and the harvest
\* then fails.
RecordInv ==
    \A x \in All :
        /\ record[x] = "branch" =>
             /\ pc[x] \in {"harvest", "teardown", "cleanup", "done"}
             /\ head[x] = "agent" \/ (pc[x] = "harvest" /\ x \notin dirs)
        /\ record[x] = "report" => OwnReport(x)

HarvestInv == ReplayType /\ SessionInv /\ BaseInv /\ ReportInv /\ RecordInv

LEMMA Pairs ==
    \A x \in All : /\ x[1] \in Runs /\ x[2] \in Conditions
                  /\ x = <<x[1], x[2]>>
BY DEF All

LEMMA NamePlace ==
    ASSUME ReplayType, NEW x \in All
    PROVE  /\ Name(x) \in RunIds \X Conditions /\ Name(x)[1] = id[x[1]]
           /\ Place(x) \in Places
           /\ out[x[1]] = "own" => Place(x) = Name(x)
           /\ out[x[1]] = "reused" => Place(x) = x
BY Pairs DEF ReplayType, Name, Place, Places, All

LEMMA InitType == Init => ReplayType
<1> SUFFICES ASSUME Init
             PROVE  ReplayType
    OBVIOUS
<1> PICK p \in Plans :
      /\ id = p.id
      /\ mode \in [Runs -> {"running", "over"}]
      /\ pc = [x \in All |-> IF mode[x[1]] = "running" /\ x[2] \in ToSet(p.manifest[x[1]])
                             THEN "queued" ELSE "done"]
    BY DEF Init
<1>1. id \in [Runs -> RunIds]
    BY ReplayAssumption
<1>2. mode \in [Runs -> Modes] /\ pc \in [All -> Steps]
    BY DEF Modes, Steps
<1>3. out \in [Runs -> {"own", "reused"}]
    BY ReplayAssumption DEF Init
<1> QED
    BY <1>1, <1>2, <1>3 DEF Init, ReplayType, Commits

\* A run that gives up touches only the conditions it has not begun.
LEMMA Dropped ==
    ASSUME ReplayType, NEW r \in Runs, GiveUp(r)
    PROVE  /\ pc' \in [All -> Steps]
           /\ \A x \in All : pc'[x] = pc[x] \/ (pc[x] = "queued" /\ pc'[x] = "done")
           /\ UNCHANGED <<id, out, raced, mode, dirs, table, branch, session>>
           /\ UNCHANGED <<head, base, report, record>>
<1> DEFINE queued == {x \in {r} \X Conditions : pc[x] = "queued"}
<1>1. pc' = [x \in All |-> IF x \in queued THEN "done" ELSE pc[x]]
    BY DEF GiveUp
<1>2. \A x \in queued : pc[x] = "queued"
    OBVIOUS
<1>3. UNCHANGED <<mode, lock, gitVars, session, specVars, still>>
    BY DEF GiveUp
<1> HIDE DEF queued
<1> QED
    BY <1>1, <1>2, <1>3 DEF ReplayType, Steps, gitVars, specVars, still

LEMMA StepType == ReplayType /\ [Next]_vars => ReplayType'
<1> SUFFICES ASSUME ReplayType, [Next]_vars
             PROVE  ReplayType'
    OBVIOUS
<1> USE DEF ReplayType, Goto, Fail, gitVars, specVars, still
<1>1. ASSUME NEW x \in All, StartAdd(x) PROVE ReplayType'
    BY <1>1 DEF StartAdd, Steps
<1>2. ASSUME NEW x \in All, EndAdd(x) PROVE ReplayType'
    <2>1. <<Name(x), x[1]>> \in (RunIds \X Conditions) \X Runs
        BY NamePlace, Pairs
    <2>2. branch' \subseteq (RunIds \X Conditions) \X Runs
        BY <1>2, <2>1 DEF EndAdd
    <2> QED
        BY <1>2, <2>2 DEF EndAdd, Steps
<1>3. ASSUME NEW x \in All, Inject(x) PROVE ReplayType'
    BY <1>3 DEF Inject, Freeze, Steps, Commits
<1>4. ASSUME NEW x \in All, Spawn(x) PROVE ReplayType'
    BY <1>4, Pairs DEF Spawn, Steps
<1>5. ASSUME NEW x \in All, Poll(x) PROVE ReplayType'
    BY <1>5 DEF Poll, DoneBy, Steps
<1>6. ASSUME NEW x \in All, Deadline(x) PROVE ReplayType'
    BY <1>6 DEF Deadline, Steps
<1>7. ASSUME NEW x \in All, Harvest(x) PROVE ReplayType'
    BY <1>7 DEF Harvest, Steps
<1>8. ASSUME NEW x \in All, Teardown(x) PROVE ReplayType'
    BY <1>8, Pairs DEF Teardown, Steps
<1>9. ASSUME NEW x \in All, Cleanup(x) PROVE ReplayType'
    BY <1>9 DEF Cleanup, Without, Steps
<1>10. ASSUME NEW x \in All, AgentCommits(x) PROVE ReplayType'
    BY <1>10 DEF AgentCommits, Commits
<1>11. ASSUME NEW x \in All, AgentReports(x) PROVE ReplayType'
    BY <1>11, NamePlace, Pairs DEF AgentReports
<1>12. ASSUME NEW r \in Runs, EndRun(r) PROVE ReplayType'
    BY <1>12 DEF EndRun, Modes
<1>13. ASSUME NEW r \in Runs, Signal(r) PROVE ReplayType'
    BY <1>13 DEF Signal, Modes
<1>14. ASSUME NEW r \in Runs, Sweep(r) PROVE ReplayType'
    BY <1>14 DEF Sweep, SweepDirs, SweepTable, SweepBranches, Without, Modes
<1>15. CASE UNCHANGED vars
    BY <1>15 DEF vars
<1>16. ASSUME NEW r \in Runs, GiveUp(r) PROVE ReplayType'
    BY <1>16, Dropped
<1> QED
    BY <1>1, <1>2, <1>3, <1>4, <1>5, <1>6, <1>7, <1>8, <1>9, <1>10, <1>11, <1>12, <1>13,
       <1>14, <1>15, <1>16 DEF Next, Step

\* Only a condition's own spawn gives its run the session, and only its teardown, or
\* another run's of that name, takes it away.
LEMMA SessionStep == ReplayType /\ SessionInv /\ [Next]_vars => SessionInv'
<1> SUFFICES ASSUME ReplayType, SessionInv, [Next]_vars
             PROVE  SessionInv'
    OBVIOUS
<1> USE Pairs, ReplayAssumption DEF ReplayType, SessionInv, Goto, Fail, still
<1>1. ASSUME NEW x \in All, Step(x) PROVE SessionInv'
    <2>1. CASE StartAdd(x) \/ EndAdd(x)
        BY <2>1 DEF StartAdd, EndAdd, At
    <2>2. CASE Inject(x)
        BY <2>2 DEF Inject, At
    <2>3. CASE Spawn(x)
        BY <2>3 DEF Spawn, At
    <2>4. CASE Poll(x) \/ Deadline(x) \/ Harvest(x)
        BY <2>4 DEF Poll, Deadline, Harvest, At
    <2>5. CASE Teardown(x)
        BY <2>5 DEF Teardown, At
    <2>6. CASE Cleanup(x)
        BY <2>6 DEF Cleanup, At
    <2> QED
        BY <1>1, <2>1, <2>2, <2>3, <2>4, <2>5, <2>6 DEF Step
<1>2. CASE UNCHANGED <<session, pc>>
    BY <1>2
<1>3. ASSUME NEW r \in Runs, GiveUp(r) PROVE SessionInv'
    BY <1>3, Dropped
<1> QED
    BY <1>1, <1>2, <1>3
    DEF Next, vars, AgentCommits, AgentReports, EndRun, Signal, Sweep, SweepDirs, SweepTable,
        SweepBranches

LEMMA BaseStep == ReplayType /\ BaseInv /\ [Next]_vars => BaseInv'
<1> SUFFICES ASSUME ReplayType, BaseInv, [Next]_vars
             PROVE  BaseInv'
    OBVIOUS
<1> USE DEF ReplayType, BaseInv, Goto, Fail, still, specVars
<1>1. ASSUME NEW x \in All, Step(x) PROVE BaseInv'
    <2>1. CASE StartAdd(x) \/ EndAdd(x) \/ Spawn(x)
        BY <2>1 DEF StartAdd, EndAdd, Spawn, At
    <2>2. CASE Inject(x)
        BY <2>2 DEF Inject, Freeze, At
    <2>3. CASE Poll(x) \/ Deadline(x) \/ Harvest(x) \/ Teardown(x) \/ Cleanup(x)
        BY <2>3 DEF Poll, Deadline, Harvest, Teardown, Cleanup, At
    <2> QED
        BY <1>1, <2>1, <2>2, <2>3 DEF Step
<1>2. ASSUME NEW x \in All, AgentCommits(x) PROVE BaseInv'
    BY <1>2 DEF AgentCommits
<1>3. CASE UNCHANGED <<head, base, pc>>
    BY <1>3
<1>4. ASSUME NEW r \in Runs, GiveUp(r) PROVE BaseInv'
    BY <1>4, Dropped
<1> QED
    BY <1>1, <1>2, <1>3, <1>4
    DEF Next, vars, AgentReports, EndRun, Signal, Sweep, SweepDirs, SweepTable, SweepBranches

LEMMA ReportStep ==
    ASSUME ReplayType, ReportInv, [Next]_vars
    PROVE  /\ ReportInv'
           /\ \A x \in All : OwnReport(x) => OwnReport(x)'
<1>1. UNCHANGED <<id, out>>
    BY DEF Next, Step, StartAdd, EndAdd, Inject, Spawn, Poll, Deadline, Harvest, Teardown,
           Cleanup, AgentCommits, AgentReports, GiveUp, EndRun, Signal, Sweep, SweepDirs,
           SweepTable, SweepBranches, vars, still
<1>2. \A x \in All : Place(x)' = Place(x)
    BY <1>1 DEF Place, Name
<1>3. CASE UNCHANGED report
    BY <1>1, <1>2, <1>3 DEF ReportInv, OwnReport
<1>4. ASSUME NEW y \in All, AgentReports(y)
      PROVE  /\ ReportInv'
             /\ \A x \in All : OwnReport(x) => OwnReport(x)'
    <2>1. /\ \A p \in Places : report'[p] = IF p = Place(y) THEN y[1] ELSE report[p]
          /\ y[1] \in Runs /\ Place(y) \in Places
        BY <1>4, Pairs, NamePlace DEF AgentReports, ReplayType
    <2>2. ASSUME out[y[1]] = "reused"
          PROVE  Place(y) \notin RunIds \X Conditions
        BY <2>1, <2>2, NamePlace, Pairs, ReplayAssumption
    <2>3. ASSUME out[y[1]] = "own"
          PROVE  Place(y)[1] = id[y[1]]
        BY <2>3, NamePlace
    <2>4. out[y[1]] \in {"own", "reused"}
        BY <2>1 DEF ReplayType
    <2>5. ReportInv'
        BY <1>1, <2>1, <2>2, <2>3, <2>4 DEF ReportInv, Places
    <2>6. ASSUME NEW x \in All, OwnReport(x), out[x[1]] # "reused", Place(x) = Place(y), x[1] # y[1]
          PROVE  \E q \in Runs \ {x[1]} : id[q] = id[x[1]]
        <3>1. x[1] \in Runs /\ out[x[1]] = "own"
            BY <2>6, Pairs DEF ReplayType
        <3>2. Place(x) \in RunIds \X Conditions /\ Place(x)[1] = id[x[1]]
            BY <3>1, NamePlace
        <3> QED
            BY <2>1, <2>2, <2>3, <2>4, <2>6, <3>2
    <2> QED
        BY <1>1, <1>2, <2>1, <2>5, <2>6, NamePlace DEF OwnReport
<1> QED
    BY <1>3, <1>4
    DEF Next, Step, StartAdd, EndAdd, Inject, Spawn, Poll, Deadline, Harvest, Teardown,
        Cleanup, AgentCommits, GiveUp, EndRun, Signal, Sweep, SweepDirs, SweepTable,
        SweepBranches, vars, specVars

LEMMA RecordStep ==
    ASSUME HarvestInv, [Next]_vars
    PROVE  RecordInv'
<1>1. \A x \in All : OwnReport(x) => OwnReport(x)'
    BY ReportStep DEF HarvestInv
<1> USE Pairs DEF HarvestInv, ReplayType, RecordInv, Goto, Fail, still, specVars, gitVars
<1>2. ASSUME NEW x \in All, Step(x) PROVE RecordInv'
    <2>1. CASE StartAdd(x)
        BY <1>1, <2>1 DEF StartAdd, At
    <2>2. CASE EndAdd(x)
        <3>1. pc[x] = "adding" /\ dirs' \subseteq dirs \cup {x} /\ UNCHANGED head
            BY <2>2 DEF EndAdd
        <3> QED
            BY <1>1, <2>2, <3>1 DEF EndAdd
    <2>3. CASE Inject(x)
        BY <1>1, <2>3 DEF Inject, Freeze, At
    <2>4. CASE Spawn(x)
        BY <1>1, <2>4 DEF Spawn, At
    <2>5. CASE Poll(x)
        <3>1. /\ pc[x] = "poll" /\ pc'[x] = "harvest" /\ record'[x] = DoneBy(x)
              /\ \A y \in All \ {x} : pc'[y] = pc[y] /\ record'[y] = record[y]
              /\ UNCHANGED <<dirs, head, id, report, out>>
            BY <2>5 DEF Poll, At
        <3>2. DoneBy(x) = "branch" => head[x] = "agent" \/ x \notin dirs
            BY <3>1 DEF DoneBy, BaseInv
        <3>3. ASSUME DoneBy(x) = "report"
              PROVE  OwnReport(x)
            <4>1. report[Place(x)] # NoRun
                BY <3>3 DEF DoneBy
            <4>2. CASE out[x[1]] = "own"
                <5>1. Place(x) \in RunIds \X Conditions /\ Place(x)[1] = id[x[1]]
                    BY <4>2, NamePlace
                <5>2. report[Place(x)] \in Runs /\ id[report[Place(x)]] = id[x[1]]
                    BY <4>1, <5>1 DEF ReportInv
                <5> QED
                    BY <5>2 DEF OwnReport
            <4> QED
                BY <4>2 DEF OwnReport
        <3> QED
            BY <1>1, <3>1, <3>2, <3>3
    <2>6. CASE Deadline(x)
        BY <1>1, <2>6 DEF Deadline, At
    <2>7. CASE Harvest(x)
        BY <1>1, <2>7 DEF Harvest, At
    <2>8. CASE Teardown(x)
        BY <1>1, <2>8 DEF Teardown, At
    <2>9. CASE Cleanup(x)
        BY <1>1, <2>9 DEF Cleanup, At
    <2> QED
        BY <1>2, <2>1, <2>2, <2>3, <2>4, <2>5, <2>6, <2>7, <2>8, <2>9 DEF Step
<1>3. ASSUME NEW x \in All, AgentCommits(x) PROVE RecordInv'
    BY <1>1, <1>3 DEF AgentCommits
<1>4. CASE UNCHANGED <<head, record, pc>> /\ dirs' \subseteq dirs
    BY <1>1, <1>4
<1>5. ASSUME NEW r \in Runs, GiveUp(r) PROVE RecordInv'
    BY <1>1, <1>5, Dropped
<1> QED
    BY <1>2, <1>3, <1>4, <1>5
    DEF Next, vars, AgentReports, EndRun, Signal, Sweep, SweepDirs, SweepTable, SweepBranches

\* A condition recorded as completed by a commit is so by its own agent's: neither the
\* commit that froze what was injected, nor a worktree that another step removed under
\* it, nor another run's session of the same name passes for one.  One completed by a
\* report is so by its own agent's, if its output directory was not used before and no
\* other run has its run id (the second it began in).
THEOREM HarvestedIsOwn == Spec => []HarvestIsOwn
<1>1. Init => HarvestInv
    <2> SUFFICES ASSUME Init
                 PROVE  HarvestInv
        OBVIOUS
    <2>1. /\ \A x \in All : pc[x] \in {"queued", "done"} /\ record[x] = "none"
          /\ \A c \in Conditions : session[c] \notin Runs
          /\ \A p \in RunIds \X Conditions : report[p] = NoRun
        BY ReplayAssumption DEF Init, Places
    <2> QED
        BY <2>1, InitType, Pairs DEF HarvestInv, SessionInv, BaseInv, ReportInv, RecordInv
<1>2. HarvestInv /\ [Next]_vars => HarvestInv'
    BY StepType, SessionStep, BaseStep, ReportStep, RecordStep DEF HarvestInv
<1>3. HarvestInv => HarvestIsOwn
    BY DEF HarvestInv, RecordInv, HarvestIsOwn, OwnReport
<1> QED
    BY <1>1, <1>2, <1>3, PTL DEF Spec

-----------------------------------------------------------------------------
(* What a run leaves behind *)

\* A condition has a worktree or a branch only between its add and its cleanup.
Holding(x) == x \in table \/ <<Name(x), x[1]>> \in branch

\* A sweep works through directories, worktrees and branches; what was not being
\* added meanwhile does not come back behind it.
SweptInv ==
    \A x \in All :
        /\ Holding(x) => pc[x] \notin {"queued", "adding", "done"}
        /\ mode[x[1]] = "over" => pc[x] = "done"
        /\ x \notin raced =>
             /\ mode[x[1]] \notin {"running", "over"} => pc[x] # "adding"
             /\ mode[x[1]] \in {"prune", "branches", "dead"} => x \notin dirs
             /\ mode[x[1]] \in {"branches", "dead"} => x \notin table
             /\ mode[x[1]] = "dead" => <<Name(x), x[1]>> \notin branch

LeftInv == ReplayType /\ SessionInv /\ SweptInv

LEMMA SweptInit == Init => SweptInv
<1> SUFFICES ASSUME Init
             PROVE  SweptInv
    OBVIOUS
<1>1. /\ table = {} /\ branch = {}
      /\ \A r \in Runs : mode[r] \in {"running", "over"}
      /\ \A x \in All : pc[x] \in {"queued", "done"} /\ (mode[x[1]] = "over" => pc[x] = "done")
    BY DEF Init
<1> QED
    BY <1>1, Pairs DEF SweptInv, Holding

\* Git keeps the branch of a worktree, and no other of those it is asked to delete.
LEMMA Deleted ==
    ASSUME ReplayType, NEW names, NEW x \in All, Name(x) \in names, x \notin table'
    PROVE  <<Name(x), x[1]>> \notin Without(names)
BY Pairs, NamePlace DEF Without, Name

LEMMA SweptStep ==
    ASSUME ReplayType, SweptInv, [Next]_vars
    PROVE  SweptInv'
<1>0. id' = id /\ \A y \in All : Name(y)' = Name(y) /\ y[1] \in Runs /\ y[2] \in Conditions
    BY Pairs
    DEF Next, Step, StartAdd, EndAdd, Inject, Spawn, Poll, Deadline, Harvest, Teardown,
        Cleanup, AgentCommits, AgentReports, GiveUp, EndRun, Signal, Sweep, SweepDirs,
        SweepTable, SweepBranches, vars, still, Name
<1> USE <1>0 DEF ReplayType, SweptInv, Holding, Goto, Fail, still, specVars, gitVars
<1>1. ASSUME NEW x \in All, StartAdd(x) PROVE SweptInv'
    BY <1>1, Pairs DEF StartAdd, At, Sweeping
<1>2. ASSUME NEW x \in All, EndAdd(x) PROVE SweptInv'
    <2>1. /\ pc[x] = "adding" /\ pc'[x] \in {"inject", "teardown"}
          /\ \A y \in All \ {x} : pc'[y] = pc[y]
          /\ UNCHANGED <<mode, raced>>
        BY <1>2 DEF EndAdd
    <2>2. /\ dirs' \subseteq dirs \cup {x} /\ table' \subseteq table \cup {x}
          /\ branch' \subseteq branch \cup {<<Name(x), x[1]>>}
        BY <1>2 DEF EndAdd
    <2>3. \A y \in All \ {x} : <<Name(y), y[1]>> # <<Name(x), x[1]>>
        BY Pairs DEF Name
    <2>4. mode[x[1]] = "over" => FALSE
        BY <2>1
    <2> QED
        BY <2>1, <2>2, <2>3, <2>4
<1>3. ASSUME NEW x \in All, Inject(x) \/ Spawn(x) \/ Poll(x) \/ Deadline(x) \/ Harvest(x) \/ Teardown(x)
      PROVE  SweptInv'
    <2>1. /\ pc[x] \in {"inject", "spawn", "poll", "harvest", "teardown"}
          /\ pc'[x] \in {"spawn", "poll", "harvest", "teardown", "cleanup"}
          /\ \A y \in All \ {x} : pc'[y] = pc[y]
          /\ UNCHANGED <<mode, raced, dirs, table, branch>>
        BY <1>3 DEF Inject, Spawn, Poll, Deadline, Harvest, Teardown, At
    <2> QED
        BY <2>1
<1>4. ASSUME NEW x \in All, Cleanup(x) PROVE SweptInv'
    <2>1. /\ pc'[x] = "done" /\ \A y \in All \ {x} : pc'[y] = pc[y]
          /\ dirs' \subseteq dirs /\ table' = table \ {x} /\ branch' \subseteq branch
          /\ UNCHANGED <<mode, raced>>
        BY <1>4 DEF Cleanup, Without
    <2>2. <<Name(x), x[1]>> \notin branch'
        BY <1>4, <2>1, Deleted DEF Cleanup
    <2> QED
        BY <2>1, <2>2
<1>5. ASSUME NEW r \in Runs, EndRun(r) PROVE SweptInv'
    <2>1. /\ mode[r] = "running" /\ mode'[r] = "over"
          /\ \A q \in Runs \ {r} : mode'[q] = mode[q]
          /\ \A x \in All : x[1] = r => pc[x] = "done"
          /\ dirs' \subseteq dirs
          /\ UNCHANGED <<pc, table, branch, raced>>
        BY <1>5, Pairs DEF EndRun
    <2> QED
        BY <2>1
<1>6. ASSUME NEW r \in Runs, Signal(r) PROVE SweptInv'
    BY <1>6 DEF Signal
<1>7. ASSUME NEW r \in Runs, SweepDirs(r) PROVE SweptInv'
    <2>1. \A x \in All : x[1] = r => x \notin dirs'
        BY <1>7, Pairs DEF SweepDirs
    <2> QED
        BY <1>7, <2>1 DEF SweepDirs
<1>8. ASSUME NEW r \in Runs, SweepTable(r) PROVE SweptInv'
    BY <1>8 DEF SweepTable
<1>9. ASSUME NEW r \in Runs, SweepBranches(r) PROVE SweptInv'
    <2>1. /\ mode[r] = "branches" /\ mode' = [mode EXCEPT ![r] = "dead"]
          /\ branch' \subseteq branch
          /\ UNCHANGED <<pc, dirs, table, raced>>
        BY <1>9 DEF SweepBranches, Without
    <2>2. ASSUME NEW x \in All \ raced, x[1] = r
          PROVE  <<Name(x), x[1]>> \notin branch'
        <3>1. Name(x) \in {id[r]} \X Conditions /\ x \notin table'
            BY <2>1, <2>2 DEF Name
        <3> QED
            BY <1>9, <3>1, Deleted DEF SweepBranches
    <2> QED
        BY <2>1, <2>2
<1>10. CASE UNCHANGED <<mode, pc, dirs, table, branch, raced>>
    BY <1>10
<1>11. ASSUME NEW r \in Runs, GiveUp(r) PROVE SweptInv'
    BY <1>11, Dropped
<1> QED
    BY <1>1, <1>2, <1>3, <1>4, <1>5, <1>6, <1>7, <1>8, <1>9, <1>10, <1>11
    DEF Next, Step, Sweep, AgentCommits, AgentReports, vars

\* A run that ended or was swept away has left no worktree and no branch in the host
\* repository, and no session if it ended by itself, at whatever steps its conditions
\* were and whatever other runs did; but for worktrees added during the sweep.
THEOREM NothingStays == Spec => []NothingLeftBehind
<1>1. Init => LeftInv
    <2>1. Init => SessionInv
        BY ReplayAssumption, Pairs DEF Init, SessionInv
    <2> QED
        BY <2>1, InitType, SweptInit DEF LeftInv
<1>2. LeftInv /\ [Next]_vars => LeftInv'
    BY StepType, SessionStep, SweptStep DEF LeftInv
<1>3. LeftInv => NothingLeftBehind
    BY DEF LeftInv, SweptInv, Holding, SessionInv, NothingLeftBehind
<1> QED
    BY <1>1, <1>2, <1>3, PTL DEF Spec

-----------------------------------------------------------------------------
(* Tuning: any rows, keywords, queries and similarities, any number of       *)
(* reports and calibrations, applied late or never.                          *)

Specs == [Rows -> Seq(Keywords)]
Scores == 0 .. MaxSim
Owing == SUBSET (Rows \X Queries)
Firing == [row : Rows, said : Queries, query : Queries, session : Sessions,
           keyword : Keywords \cup {NoWord}, outcome : {"unrated", "helpful", "noise"}]

TuningType ==
    /\ spec \in Specs
    /\ theta \in [Rows -> Scores]
    /\ active \subseteq Rows
    /\ firings \subseteq Firing
    /\ proposal \in [pc : {"none", "rows", "printed"}, spec : Specs,
                     props : SUBSET (Rows \X Seq(Keywords)), owed : Owing]
    /\ cal \in [pc : {"none", "rows", "set"}, spec : Specs,
                props : SUBSET (Rows \X Scores), owed : Owing]
    /\ owed \in Owing

\* No calibration takes a threshold below the one a row starts with, and what is stored
\* is rounded.
FloorKept ==
    /\ \A r \in Rows : theta[r] >= SimThreshold /\ Rounded[theta[r]] = theta[r]
    /\ \A p \in cal.props : p[2] >= SimThreshold /\ Rounded[p[2]] = p[2]

\* A threshold about to be set is no lower than the one the row has.
OnlyRaised == \A p \in cal.props : p[2] >= theta[p[1]]

\* A spec that is proposed for a row matches every query the report claims to keep for it,
\* whatever has become of the row and its firings since.
ProposalInv ==
    \A p \in proposal.props, x \in proposal.owed : p[1] = x[1] => Lexical(p[2], x[2])

\* A threshold about to be set leaves what calibrate claims to keep: the spec it read
\* matches it, or with that spec it scores, rounded, at least the threshold.
CalInv ==
    \A p \in cal.props, x \in cal.owed :
        p[1] = x[1] => Lexical(cal.spec[p[1]], x[2]) \/ Rounded[Score(p[1], cal.spec[p[1]], x[2])] >= p[2]

TuningInv == TuningType /\ FloorKept /\ OnlyRaised /\ ProposalInv /\ CalInv /\ HelpfulKept

-----------------------------------------------------------------------------
(* Matching *)

LEMMA FirstKeywordTyped ==
    ASSUME NEW s \in Seq(Keywords), NEW q, Lexical(s, q)
    PROVE  FirstKeyword(s, q) \in Keywords
<1> DEFINE Matches == {i \in DOMAIN s : s[i] \in Words[q]}
           First(i) == s[i] \in Words[q] /\ \A j \in 1 .. i - 1 : s[j] \notin Words[q]
<1>1. Matches \in SUBSET Nat /\ Matches # {}
    BY DEF Lexical
<1>2. PICK i \in Matches : \A j \in Matches : i <= j
    BY <1>1, Least
<1>3. First(i)
    BY <1>2
<1>4. \E j \in DOMAIN s : First(j)
    BY <1>2, <1>3
<1>5. PICK first : first = CHOOSE j \in DOMAIN s : First(j)
    OBVIOUS
<1>6. first \in DOMAIN s
    <2> HIDE DEF First
    <2> QED
        BY <1>4, <1>5, Zenon
<1>7. FirstKeyword(s, q) = s[first]
    BY <1>5, Zenon DEF FirstKeyword
<1> QED
    BY <1>6, <1>7

LEMMA ScoreTyped ==
    ASSUME NEW r \in Rows, NEW s \in Seq(Keywords), NEW q \in Queries
    PROVE  Score(r, s, q) \in 0 .. MaxSim
<1>1. ToSet(s) \in SUBSET Keywords
    BY DEF ToSet
<1>2. Sim \in [Rows -> [SUBSET Keywords -> [Queries -> 0 .. MaxSim]]]
    BY TuningAssumption DEF TuningAssumption
<1> HIDE DEF ToSet
<1> QED
    BY <1>1, <1>2 DEF Score

\* Of some rows, one is the most similar to a query.
LEMMA MostSimilar ==
    ASSUME spec \in Specs, NEW R \in SUBSET Rows, R # {}, NEW q \in Queries
    PROVE  \E r \in R : \A p \in R : Likeness(r, q) >= Likeness(p, q)
<1> DEFINE Distances == {MaxSim - Likeness(r, q) : r \in R}
<1>1. \A r \in R : Likeness(r, q) \in 0 .. MaxSim
    BY ScoreTyped DEF Likeness, Specs
<1>2. MaxSim \in Nat
    BY TuningAssumption DEF TuningAssumption
<1>3. Distances \in SUBSET Nat /\ Distances # {}
    BY <1>1, <1>2
<1>4. PICK d \in Distances : \A e \in Distances : d <= e
    BY <1>3, Least
<1>5. PICK r \in R : d = MaxSim - Likeness(r, q)
    BY <1>4
<1>6. ASSUME NEW p \in R
      PROVE  Likeness(r, q) >= Likeness(p, q)
    <2>1. d <= MaxSim - Likeness(p, q)
        BY <1>4
    <2> QED
        BY <2>1, <1>1, <1>2, <1>5
<1> QED
    BY <1>6

\* The cap: of the rows it is given, k (or all, if they are fewer), and none of those it
\* leaves out is more similar to the query than one it keeps.
Cut(R, q, k, best) ==
    /\ Cardinality(best) = (IF Cardinality(R) < k THEN Cardinality(R) ELSE k)
    /\ \A r \in best, p \in R \ best : Likeness(r, q) >= Likeness(p, q)

LEMMA CutExists ==
    ASSUME spec \in Specs, NEW R \in SUBSET Rows, NEW q \in Queries, NEW k \in Nat, k <= Cardinality(R)
    PROVE  \E best \in SUBSET R : Cut(R, q, k, best)
<1> DEFINE Good(n) == \E best \in SUBSET R : Cut(R, q, n, best)
           Bad == {n \in 0 .. Cardinality(R) : ~ Good(n)}
<1>1. IsFiniteSet(R) /\ Cardinality(R) \in Nat
    BY TuningAssumption, FS_Subset, FS_CardinalityType DEF TuningAssumption
<1>2. ASSUME Bad # {}
      PROVE  FALSE
    <2>1. Bad \in SUBSET Nat
        BY <1>1
    <2>2. PICK n \in Bad : \A m \in Bad : n <= m
        <3> HIDE DEF Bad
        <3> QED
            BY <2>1, <1>2, Least
    <2>3. n # 0
        <3>1. Cut(R, q, 0, {})
            BY <1>1, FS_EmptySet DEF Cut
        <3>2. Good(0)
            BY <3>1
        <3> QED
            BY <3>2, <2>2
    <2>4. n \in Nat /\ n <= Cardinality(R) /\ n - 1 \in 0 .. Cardinality(R)
        BY <2>2, <2>3, <1>1
    <2>5. Good(n - 1)
        <3>1. n - 1 \notin Bad
            BY <2>2, <2>4
        <3> HIDE DEF Good
        <3> QED
            BY <3>1, <2>4
    <2>6. PICK best \in SUBSET R : Cut(R, q, n - 1, best)
        BY <2>5
    <2>7. Cardinality(best) = n - 1
        BY <2>6, <2>4, <1>1 DEF Cut
    <2>8. IsFiniteSet(best)
        BY <1>1, FS_Subset
    <2>9. R \ best # {}
        <3>1. best # R
            BY <2>7, <2>4, <1>1
        <3> QED
            BY <3>1
    <2>10. PICK r \in R \ best : \A p \in R \ best : Likeness(r, q) >= Likeness(p, q)
        BY <2>9, MostSimilar
    <2>11. Cardinality(best \cup {r}) = n
        <3>1. Cardinality(best \cup {r}) = Cardinality(best) + 1
            BY <2>8, <2>10, FS_AddElement
        <3> QED
            BY <3>1, <2>7, <2>4
    <2>12. \A b \in best \cup {r}, p \in R \ (best \cup {r}) : Likeness(b, q) >= Likeness(p, q)
        BY <2>6, <2>10 DEF Cut
    <2>13. Cut(R, q, n, best \cup {r})
        BY <2>11, <2>12, <2>4, <1>1 DEF Cut
    <2> QED
        BY <2>13, <2>2
<1> QED
    <2>1. k \in 0 .. Cardinality(R)
        BY <1>1
    <2>2. Good(k)
        <3> HIDE DEF Good
        <3> QED
            BY <2>1, <1>2
    <2> QED
        BY <2>2

LEMMA CapKeeps ==
    ASSUME spec \in Specs, NEW R \in SUBSET Rows, NEW q \in Queries, NEW k \in Nat
    PROVE  Best(R, q, k) \subseteq R
<1> DEFINE size == Cardinality(R)
           c == IF size < k THEN size ELSE k
<1>1. size \in Nat
    BY TuningAssumption, FS_Subset, FS_CardinalityType DEF TuningAssumption
<1>2. c \in Nat /\ c <= size
    BY <1>1
<1>3. \E best \in SUBSET R : Cut(R, q, c, best)
    BY <1>2, CutExists
<1>4. \E best \in SUBSET R : Cut(R, q, k, best)
    BY <1>1, <1>2, <1>3 DEF Cut
<1>5. Best(R, q, k) = CHOOSE best \in SUBSET R : Cut(R, q, k, best)
    BY Zenon DEF Best, Cut
<1>6. Best(R, q, k) \in SUBSET R
    BY <1>4, <1>5, Zenon
<1> QED
    BY <1>6

-----------------------------------------------------------------------------
(* What the rules of propose and calibrate derive *)

LEMMA AppendKeepsMatches ==
    ASSUME NEW s \in Seq(Keywords), NEW k \in Keywords, NEW q, Lexical(s, q)
    PROVE  Append(s, k) \in Seq(Keywords) /\ Lexical(Append(s, k), q)
<1>1. PICK i \in DOMAIN s : s[i] \in Words[q]
    BY DEF Lexical
<1>2. i \in DOMAIN Append(s, k) /\ Append(s, k)[i] = s[i]
    OBVIOUS
<1> QED
    BY <1>1, <1>2 DEF Lexical

Rules(r, s) == Tighten(r, s) \cup Broaden(r, s) \cup Migrate(r, s)

\* A rule of propose turns a spec into a spec.
LEMMA RulesTyped ==
    ASSUME NEW r, NEW s \in Seq(Keywords), NEW t \in Rules(r, s)
    PROVE  t \in Seq(Keywords)
<1>1. CASE t \in Tighten(r, s)
    <2>1. PICK k \in ToSet(s) : t = WithoutWord(s, k)
        BY <1>1 DEF Tighten
    <2>2. Only(s, ToSet(s) \ {k}) \in Seq(Keywords)
        BY OnlyKeeps
    <2> QED
        BY <2>1, <2>2 DEF WithoutWord
<1>2. CASE t \in Broaden(r, s)
    <2>1. PICK k \in Keywords : t = Append(s, k)
        BY <1>2 DEF Broaden, Common
    <2> QED
        BY <2>1
<1>3. CASE t \in Migrate(r, s)
    <2>1. PICK k \in Keywords : t = Append(s, k)
        BY <1>3 DEF Migrate, Common
    <2> QED
        BY <2>1
<1> QED
    BY <1>1, <1>2, <1>3 DEF Rules

\* No rule of propose loses a helpful lexical query of the row that the spec it starts
\* from matches: tighten looks before it drops a keyword, the others add one.
THEOREM RulesLoseNothing ==
    ASSUME NEW r, NEW s \in Seq(Keywords), NEW t \in Tighten(r, s) \cup Broaden(r, s) \cup Migrate(r, s),
           NEW f \in LexicalOnes(HelpfulOf(r)), Lexical(s, f.query)
    PROVE  Lexical(t, f.query)
<1>1. CASE t \in Tighten(r, s)
    BY <1>1 DEF Tighten, LosesNothing
<1>2. CASE t \in Broaden(r, s)
    <2>1. PICK k \in Keywords : t = Append(s, k)
        BY <1>2 DEF Broaden, Common
    <2> QED
        BY <2>1, AppendKeepsMatches
<1>3. CASE t \in Migrate(r, s)
    <2>1. PICK k \in Keywords : t = Append(s, k)
        BY <1>3 DEF Migrate, Common
    <2> QED
        BY <2>1, AppendKeepsMatches
<1> QED
    BY <1>1, <1>2, <1>3

LEMMA RoundedTyped ==
    /\ MaxSim \in Nat /\ SimThreshold \in 0 .. MaxSim
    /\ Rounded \in [Scores -> Scores]
    /\ \A x, y \in Scores : x <= y => Rounded[x] <= Rounded[y]
    /\ \A x \in Scores : Rounded[Rounded[x]] = Rounded[x]
    /\ Rounded[SimThreshold] = SimThreshold
    BY TuningAssumption DEF TuningAssumption, Scores

\* The threshold calibrate proposes for a row: between the floor and 1.0, and at most the
\* similarity of any helpful firing that reached the floor.
LEMMA ProposedKeeps ==
    ASSUME NEW r \in Rows, NEW s \in Seq(Keywords), NEW fs \in SUBSET Firing
    PROVE  /\ Proposed(r, s, fs) \in Scores /\ Proposed(r, s, fs) >= SimThreshold
           /\ \A f \in fs : f.outcome = "helpful" /\ Score(r, s, f.said) >= SimThreshold
                               => Score(r, s, f.said) >= Proposed(r, s, fs)
<1> DEFINE scores == ScoresOf(r, s, fs, "helpful")
           Least1(x) == \A y \in scores : x <= y
           least == CHOOSE x \in scores : Least1(x)
<1>1. MaxSim \in Nat /\ SimThreshold \in 0 .. MaxSim
    BY RoundedTyped
<1>2. scores \in SUBSET (0 .. MaxSim)
    BY ScoreTyped DEF ScoresOf, Firing
<1>3. Proposed(r, s, fs) = IF scores = {} THEN MaxSim
                           ELSE IF least > SimThreshold THEN least ELSE SimThreshold
    BY DEF Proposed
<1>4. \A f \in fs : f.outcome = "helpful" => Score(r, s, f.said) \in scores
    BY DEF ScoresOf
<1>5. scores # {} => least \in scores /\ Least1(least)
    <2>1. scores \in SUBSET Nat
        BY <1>1, <1>2
    <2>2. scores # {} => \E x \in scores : \A y \in scores : x <= y
        <3> HIDE DEF scores
        <3> QED
            BY <2>1, Least
    <2>3. scores # {} => \E x \in scores : Least1(x)
        BY <2>2
    <2> HIDE DEF scores, Least1
    <2> QED
        BY <2>3, Zenon
<1>6. scores # {} => \A y \in scores : least <= y
    BY <1>5
<1> HIDE DEF scores, least, Least1
<1>7. scores # {} => least \in 0 .. MaxSim
    BY <1>2, <1>5
<1>8. Proposed(r, s, fs) \in Scores /\ Proposed(r, s, fs) >= SimThreshold
    BY <1>1, <1>3, <1>7 DEF Scores
<1>9. \A x \in scores : x >= SimThreshold => x >= Proposed(r, s, fs)
    BY <1>1, <1>2, <1>3, <1>6, <1>7
<1> QED
    BY <1>4, <1>8, <1>9

-----------------------------------------------------------------------------
(* Every step keeps the invariant *)

\* What HelpfulKept says of each debt.
Still(x) ==
    \/ Lexical(spec[x[1]], x[2])
    \/ Rounded[Likeness(x[1], x[2])] >= theta[x[1]]

\* What a step that leaves the rows alone keeps.
LEMMA StillHelpful ==
    ASSUME HelpfulKept, owed' \subseteq owed, UNCHANGED <<spec, theta>>
    PROVE  HelpfulKept'
    BY DEF HelpfulKept, Likeness

LEMMA IdleTyped ==
    /\ Idle = [pc |-> "none", spec |-> FirstSpec, props |-> {}, owed |-> {}]
    /\ FirstSpec \in Specs /\ {} \in Owing
    BY TuningAssumption DEF TuningAssumption, Idle, Specs, Owing

LEMMA TuningStarts ==
    ASSUME TuningInit
    PROVE  TuningInv
<1>1. Idle \in [pc : {"none", "rows", "printed"}, spec : Specs,
                props : SUBSET (Rows \X Seq(Keywords)), owed : Owing]
    BY TuningAssumption DEF TuningAssumption, Idle, Specs, Owing
<1>2. Idle \in [pc : {"none", "rows", "set"}, spec : Specs,
                props : SUBSET (Rows \X Scores), owed : Owing]
    BY TuningAssumption DEF TuningAssumption, Idle, Specs, Owing
<1>3. TuningType
    BY <1>1, <1>2, TuningAssumption DEF TuningInit, TuningType, TuningAssumption, Specs, Owing, Scores
<1>4. Idle.props = {} /\ Idle.owed = {}
    BY DEF Idle
<1>5. FloorKept
    BY <1>4, RoundedTyped DEF TuningInit, FloorKept, Scores
<1>6. OnlyRaised /\ ProposalInv /\ CalInv /\ HelpfulKept
    BY <1>4 DEF TuningInit, OnlyRaised, ProposalInv, CalInv, HelpfulKept
<1> QED
    BY <1>3, <1>5, <1>6 DEF TuningInv

\* A prompt or a rating changes the firings and the number of prompts alone.
LEMMA FiringsMove ==
    ASSUME TuningInv, firings' \subseteq Firing,
           UNCHANGED <<spec, theta, active, proposal, cal, owed>>
    PROVE  TuningInv'
<1>1. TuningType' /\ FloorKept'
    BY DEF TuningInv, TuningType, FloorKept
<1>2. ProposalInv' /\ CalInv' /\ OnlyRaised'
    BY DEF TuningInv, ProposalInv, CalInv, OnlyRaised
<1>3. HelpfulKept'
    BY StillHelpful DEF TuningInv
<1> QED
    BY <1>1, <1>2, <1>3 DEF TuningInv

LEMMA PromptKeeps ==
    ASSUME TuningInv, NEW s \in Sessions, NEW p \in Queries, NEW doubted \in SUBSET Rows,
           NEW k \in 0 .. TopK, NEW q \in Inputs(p), Prompt(s, p, q, doubted, k)
    PROVE  TuningInv'
<1> DEFINE lexical == {r \in Fresh(s) : Lexical(spec[r], q)}
           semantic == {r \in Fresh(s) \ lexical : Semantic(r, q)}
           hits == Capped(lexical, semantic, q, k)
           fired == {r \in Committed(hits, doubted) : ~HeldBack(r)}
           word(r) == IF r \in lexical THEN FirstKeyword(spec[r], q) ELSE NoWord
           new == {[row |-> r, said |-> p, query |-> q, session |-> s, outcome |-> "unrated",
                    keyword |-> word(r)] : r \in fired}
<1>1. q \in Queries
    BY TuningAssumption DEF TuningAssumption, Inputs
<1>2. lexical \subseteq Rows /\ semantic \in SUBSET Rows
    BY DEF Fresh, TuningInv, TuningType
<1>3. hits \subseteq Rows
    <2>1. Best(semantic, q, k) \subseteq semantic
        <3> HIDE DEF semantic
        <3> QED
            BY <1>1, <1>2, CapKeeps DEF TuningInv, TuningType
    <2> HIDE DEF semantic, lexical
    <2> QED
        BY <1>2, <2>1 DEF Capped
<1>4. fired \subseteq Rows
    BY <1>3 DEF Committed
<1>5. ASSUME NEW r \in fired
      PROVE  word(r) \in Keywords \cup {NoWord}
    <2>1. CASE r \in lexical
        <3>1. spec[r] \in Seq(Keywords)
            BY <1>4, <2>1 DEF TuningInv, TuningType, Specs
        <3>2. Lexical(spec[r], q)
            BY <2>1
        <3>3. PICK w : w = spec[r]
            OBVIOUS
        <3>4. FirstKeyword(w, q) \in Keywords
            BY <3>1, <3>2, <3>3, FirstKeywordTyped
        <3> HIDE DEF lexical
        <3> QED
            BY <2>1, <3>3, <3>4
    <2>2. CASE r \notin lexical
        BY <2>2
    <2> QED
        BY <2>1, <2>2
<1>6. new \subseteq Firing
    <2> HIDE DEF word, fired
    <2> QED
        BY <1>1, <1>4, <1>5 DEF Firing
<1>7. firings' = firings \cup new /\ UNCHANGED <<spec, theta, active, proposal, cal, owed>>
    BY Zenon DEF Prompt
<1> HIDE DEF new
<1> QED
    BY <1>6, <1>7, FiringsMove DEF TuningInv, TuningType

LEMMA RateKeeps ==
    ASSUME TuningInv, NEW f \in firings, NEW o \in {"helpful", "noise"}, Rate(f, o)
    PROVE  TuningInv'
<1>1. f \in Firing
    BY DEF TuningInv, TuningType
<1>2. [f EXCEPT !.outcome = o] \in Firing
    BY <1>1 DEF Firing
<1> QED
    BY <1>2, FiringsMove DEF Rate, TuningInv, TuningType

LEMMA ReadRowsKeeps ==
    ASSUME TuningInv, ReadRows \/ Dismiss
    PROVE  TuningInv'
<1>0. PICK c \in {"none", "rows"}, now \in Specs :
          proposal' = [pc |-> c, spec |-> now, props |-> {}, owed |-> {}]
    <2>1. CASE ReadRows
        BY <2>1, IdleTyped DEF ReadRows, TuningInv, TuningType
    <2>2. CASE Dismiss
        BY <2>2, IdleTyped DEF Dismiss
    <2> QED
        BY <2>1, <2>2
<1>1. proposal'.props = {}
    BY <1>0
<1>2. TuningType'
    <2>1. proposal' \in [pc : {"none", "rows", "printed"}, spec : Specs,
                         props : SUBSET (Rows \X Seq(Keywords)), owed : Owing]
        BY <1>0, IdleTyped
    <2> QED
        BY <2>1 DEF TuningInv, TuningType, ReadRows, Dismiss
<1>3. FloorKept' /\ OnlyRaised' /\ CalInv'
    BY DEF TuningInv, FloorKept, OnlyRaised, CalInv, ReadRows, Dismiss
<1>4. ProposalInv'
    BY <1>1 DEF ProposalInv
<1>5. HelpfulKept'
    BY StillHelpful DEF TuningInv, ReadRows, Dismiss
<1> QED
    BY <1>2, <1>3, <1>4, <1>5 DEF TuningInv

LEMMA ReadFiringsKeeps ==
    ASSUME TuningInv, ReadFirings
    PROVE  TuningInv'
<1> DEFINE props == UNION {{<<r, s>> : s \in Tighten(r, proposal.spec[r])
                                             \cup Broaden(r, proposal.spec[r])
                                             \cup Migrate(r, proposal.spec[r])} : r \in active}
           known == UNION {KeptByKeyword(r, proposal.spec[r]) : r \in active}
<1>1. proposal' = [proposal EXCEPT !.pc = "printed", !.props = props, !.owed = known]
    BY Zenon DEF ReadFirings
<1>2. UNCHANGED <<spec, theta, active, firings, prompts, cal, owed>>
    BY DEF ReadFirings
<1>3. \A r \in active : r \in Rows /\ proposal.spec[r] \in Seq(Keywords)
    BY DEF TuningInv, TuningType, Specs
<1>4. \A p \in props : /\ p[1] \in active /\ p = <<p[1], p[2]>>
                       /\ p[2] \in Rules(p[1], proposal.spec[p[1]])
    BY DEF Rules
<1>5. \A p \in props : p[2] \in Seq(Keywords)
    BY <1>3, <1>4, RulesTyped
<1>6. props \in SUBSET (Rows \X Seq(Keywords))
    <2> HIDE DEF props
    <2> QED
        BY <1>3, <1>4, <1>5
<1>7. ASSUME NEW x \in known
      PROVE  /\ x[1] \in active /\ x = <<x[1], x[2]>>
             /\ \E f \in LexicalOnes(HelpfulOf(x[1])) : f.query = x[2] /\ Lexical(proposal.spec[x[1]], x[2])
    <2>1. PICK r \in active : x \in KeptByKeyword(r, proposal.spec[r])
        OBVIOUS
    <2>2. PICK f \in LexicalOnes(HelpfulOf(r)) : x = <<r, f.query>> /\ Lexical(proposal.spec[r], f.query)
        BY <2>1 DEF KeptByKeyword
    <2> QED
        BY <2>1, <2>2
<1>8. \A r : \A f \in LexicalOnes(HelpfulOf(r)) : f \in firings /\ f.query \in Queries
    BY DEF LexicalOnes, HelpfulOf, Rated, Of, TuningInv, TuningType, Firing
<1>9. known \in Owing
    <2>1. \A x \in known : x[1] \in Rows /\ x[2] \in Queries /\ x = <<x[1], x[2]>>
        BY <1>3, <1>7, <1>8
    <2> HIDE DEF known
    <2> QED
        BY <2>1 DEF Owing
<1>10. ASSUME NEW p \in props, NEW x \in known, p[1] = x[1]
       PROVE  Lexical(p[2], x[2])
    <2>1. PICK f \in LexicalOnes(HelpfulOf(x[1])) : f.query = x[2] /\ Lexical(proposal.spec[x[1]], x[2])
        BY <1>7
    <2>2. proposal.spec[x[1]] \in Seq(Keywords)
        BY <1>3, <1>7
    <2>3. p[2] \in Rules(x[1], proposal.spec[x[1]])
        BY <1>4, <1>10
    <2>4. PICK s : s = proposal.spec[x[1]]
        OBVIOUS
    <2>5. Lexical(p[2], f.query)
        BY <2>1, <2>2, <2>3, <2>4, RulesLoseNothing DEF Rules
    <2> QED
        BY <2>1, <2>5
<1> HIDE DEF props, known
<1>11. proposal' \in [pc : {"none", "rows", "printed"}, spec : Specs,
                      props : SUBSET (Rows \X Seq(Keywords)), owed : Owing]
       /\ proposal'.props = props /\ proposal'.owed = known
    BY <1>1, <1>6, <1>9 DEF TuningInv, TuningType
<1>12. TuningType'
    BY <1>2, <1>11 DEF TuningInv, TuningType
<1>13. FloorKept' /\ OnlyRaised' /\ CalInv'
    BY <1>2 DEF TuningInv, FloorKept, OnlyRaised, CalInv
<1>14. ProposalInv'
    BY <1>10, <1>11 DEF ProposalInv
<1>15. HelpfulKept'
    BY <1>2, StillHelpful DEF TuningInv
<1> QED
    BY <1>12, <1>13, <1>14, <1>15 DEF TuningInv

\* After a tuning of r, what is owed is what was owed of the other rows, and of r what
\* the tuning knew.
LEMMA ReplacedOwes ==
    ASSUME NEW r, NEW known
    PROVE  \A x \in Replaced(r, known) : \/ x \in owed /\ x[1] # r
                                         \/ x \in known /\ x[1] = r
    BY DEF Replaced

LEMMA RetargetKeeps ==
    ASSUME TuningInv, NEW p \in proposal.props, Retarget(p[1], p[2])
    PROVE  TuningInv'
<1> DEFINE r == p[1]
           s == p[2]
<1>1. r \in Rows /\ s \in Seq(Keywords)
    BY DEF TuningInv, TuningType
<1>2. /\ spec' = [spec EXCEPT ![r] = s]
      /\ proposal' = [proposal EXCEPT !.props = @ \ {<<r, s>>}]
      /\ owed' = Replaced(r, proposal.owed)
      /\ UNCHANGED <<theta, active, firings, prompts, cal>>
    BY DEF Retarget
<1> HIDE DEF r, s
<1>3. spec' \in Specs
    BY <1>1, <1>2 DEF TuningInv, TuningType, Specs
<1>4. /\ proposal' \in [pc : {"none", "rows", "printed"}, spec : Specs,
                        props : SUBSET (Rows \X Seq(Keywords)), owed : Owing]
      /\ proposal'.props \subseteq proposal.props /\ proposal'.owed = proposal.owed
    BY <1>2 DEF TuningInv, TuningType
<1>5. owed' \in Owing
    BY <1>2, ReplacedOwes DEF TuningInv, TuningType, Owing
<1>6. TuningType'
    BY <1>2, <1>3, <1>4, <1>5 DEF TuningInv, TuningType
<1>7. FloorKept' /\ OnlyRaised' /\ CalInv'
    BY <1>2 DEF TuningInv, FloorKept, OnlyRaised, CalInv
<1>8. ProposalInv'
    BY <1>4 DEF TuningInv, ProposalInv
<1>9. ASSUME NEW x \in owed'
      PROVE  Still(x)'
    <2>1. CASE x \in owed /\ x[1] # r
        <3>1. Still(x)
            BY <2>1 DEF TuningInv, HelpfulKept, Still
        <3>2. x[1] \in Rows
            BY <2>1 DEF TuningInv, TuningType, Owing
        <3>3. spec'[x[1]] = spec[x[1]]
            BY <1>2, <2>1, <3>2 DEF TuningInv, TuningType, Specs
        <3> QED
            BY <1>2, <3>1, <3>3 DEF Still, Likeness
    <2>2. CASE x \in proposal.owed /\ x[1] = r
        <3>1. Lexical(s, x[2])
            BY <2>2 DEF TuningInv, ProposalInv, r, s
        <3>2. spec'[x[1]] = s
            BY <1>1, <1>2, <2>2 DEF TuningInv, TuningType, Specs
        <3> QED
            BY <3>1, <3>2 DEF Still
    <2> QED
        BY <1>2, <2>1, <2>2, ReplacedOwes
<1>10. HelpfulKept'
    BY <1>9 DEF HelpfulKept, Still
<1> QED
    BY <1>6, <1>7, <1>8, <1>10 DEF TuningInv

LEMMA RetireKeeps ==
    ASSUME TuningInv, NEW r \in Rows, Retire(r)
    PROVE  TuningInv'
<1>1. /\ active' \subseteq active /\ owed' \subseteq owed
      /\ UNCHANGED <<spec, theta, firings, prompts, proposal, cal>>
    BY DEF Retire, Replaced
<1>2. TuningType' /\ FloorKept' /\ OnlyRaised'
    BY <1>1 DEF TuningInv, TuningType, FloorKept, OnlyRaised, Owing
<1>3. ProposalInv' /\ CalInv'
    BY <1>1 DEF TuningInv, ProposalInv, CalInv
<1>4. HelpfulKept'
    BY <1>1, StillHelpful DEF TuningInv
<1> QED
    BY <1>2, <1>3, <1>4 DEF TuningInv

LEMMA ReadCalibrateKeeps ==
    ASSUME TuningInv, ReadCalibrate \/ EndCalibrate
    PROVE  TuningInv'
<1>1. PICK c \in {"none", "rows"}, now \in Specs :
          cal' = [pc |-> c, spec |-> now, props |-> {}, owed |-> {}]
    <2>1. CASE ReadCalibrate
        BY <2>1, IdleTyped DEF ReadCalibrate, TuningInv, TuningType
    <2>2. CASE EndCalibrate
        BY <2>2, IdleTyped DEF EndCalibrate
    <2> QED
        BY <2>1, <2>2
<1>2. UNCHANGED <<spec, theta, active, firings, prompts, proposal, owed>>
    BY DEF ReadCalibrate, EndCalibrate
<1>3. cal' \in [pc : {"none", "rows", "set"}, spec : Specs,
                props : SUBSET (Rows \X Scores), owed : Owing] /\ cal'.props = {}
    BY <1>1, IdleTyped
<1>4. TuningType'
    BY <1>2, <1>3 DEF TuningInv, TuningType
<1>5. FloorKept' /\ OnlyRaised' /\ CalInv'
    BY <1>2, <1>3 DEF TuningInv, FloorKept, OnlyRaised, CalInv
<1>6. ProposalInv' /\ HelpfulKept'
    BY <1>2, StillHelpful DEF TuningInv, ProposalInv
<1> QED
    BY <1>4, <1>5, <1>6 DEF TuningInv

LEMMA RescoreKeeps ==
    ASSUME TuningInv, Rescore
    PROVE  TuningInv'
<1> DEFINE semantic(r) == {f \in Rated(r) : ~Lexical(cal.spec[r], f.said)}
           proposed(r) == Proposed(r, cal.spec[r], semantic(r))
           rises(r) == \E x \in ScoresOf(r, cal.spec[r], semantic(r), "noise") :
                          Current(r) <= x /\ x < proposed(r)
           ready == {r \in active : Cardinality(Rated(r)) >= MinRatings /\ rises(r)}
           props == {<<r, Rounded[proposed(r)]>> : r \in ready}
           known == UNION {KeptByEither(r, cal.spec[r]) : r \in ready}
<1>1. cal' = [cal EXCEPT !.pc = "set", !.props = props, !.owed = known]
    BY Zenon DEF Rescore
<1>2. UNCHANGED <<spec, theta, active, firings, prompts, proposal, owed>>
    BY DEF Rescore
<1>3. \A r \in ready : r \in Rows
    BY DEF TuningInv, TuningType
<1>4. \A r : semantic(r) \in SUBSET Firing
    BY DEF Rated, Of, TuningInv, TuningType
<1>5. \A r \in Rows : cal.spec[r] \in Seq(Keywords)
    BY DEF TuningInv, TuningType, Specs
<1>6. \A r \in Rows :
        /\ proposed(r) \in Scores /\ proposed(r) >= SimThreshold
        /\ \A f \in semantic(r) :
              f.outcome = "helpful" /\ Score(r, cal.spec[r], f.said) >= SimThreshold
                  => Score(r, cal.spec[r], f.said) >= proposed(r)
    <2> HIDE DEF semantic
    <2> QED
        BY <1>4, <1>5, ProposedKeeps
<1>7. \A r \in Rows : /\ Rounded[proposed(r)] \in Scores /\ Rounded[proposed(r)] >= SimThreshold
                      /\ Rounded[Rounded[proposed(r)]] = Rounded[proposed(r)]
    <2> HIDE DEF proposed
    <2>1. SimThreshold \in Scores
        BY RoundedTyped DEF Scores
    <2>2. SUFFICES ASSUME NEW r \in Rows
                   PROVE  /\ Rounded[proposed(r)] \in Scores /\ Rounded[proposed(r)] >= SimThreshold
                          /\ Rounded[Rounded[proposed(r)]] = Rounded[proposed(r)]
        OBVIOUS
    <2>3. PICK t \in Scores : t = proposed(r) /\ t >= SimThreshold
        BY <1>6
    <2>4. Rounded[t] \in Scores /\ Rounded[Rounded[t]] = Rounded[t]
        BY RoundedTyped
    <2>5. SimThreshold <= t
        BY <2>1, <2>3 DEF Scores
    <2>6. Rounded[SimThreshold] <= Rounded[t]
        BY <2>1, <2>5, RoundedTyped
    <2>7. Rounded[t] >= SimThreshold
        BY <2>1, <2>4, <2>6, RoundedTyped DEF Scores
    <2> QED
        BY <2>3, <2>4, <2>7
<1>8. \A p \in props : /\ p[1] \in ready /\ p[1] \in Rows /\ p = <<p[1], p[2]>>
                       /\ p[2] = Rounded[proposed(p[1])]
    <2> HIDE DEF proposed, ready
    <2> QED
        BY <1>3
<1>9. ASSUME NEW x \in known
      PROVE  /\ x[1] \in Rows /\ x = <<x[1], x[2]>>
             /\ \E f \in HelpfulOf(x[1]) :
                   /\ f.query = x[2] /\ f.said = f.query
                   /\ \/ Lexical(cal.spec[x[1]], x[2])
                      \/ Score(x[1], cal.spec[x[1]], x[2]) >= theta[x[1]]
    <2>1. PICK r \in ready : x \in KeptByEither(r, cal.spec[r])
        <3> HIDE DEF ready
        <3> QED
            OBVIOUS
    <2>2. PICK f \in HelpfulOf(r) : /\ x = <<r, f.query>> /\ f.said = f.query
                                    /\ \/ Lexical(cal.spec[r], f.query)
                                       \/ Score(r, cal.spec[r], f.query) >= theta[r]
        BY <2>1 DEF KeptByEither
    <2> QED
        BY <2>1, <2>2, <1>3
<1>10. \A r : \A f \in HelpfulOf(r) :
         f \in Rated(r) /\ f.outcome = "helpful" /\ f.query \in Queries
    BY DEF HelpfulOf, Rated, Of, TuningInv, TuningType, Firing
<1>11. known \in Owing
    <2>1. \A x \in known : x[1] \in Rows /\ x[2] \in Queries /\ x = <<x[1], x[2]>>
        BY <1>9, <1>10
    <2> HIDE DEF known
    <2> QED
        BY <2>1 DEF Owing
<1>12. ASSUME NEW p \in props, NEW x \in known, p[1] = x[1]
       PROVE  Lexical(cal.spec[p[1]], x[2]) \/ Rounded[Score(p[1], cal.spec[p[1]], x[2])] >= p[2]
    <2> DEFINE score == Score(x[1], cal.spec[x[1]], x[2])
    <2>1. PICK f \in HelpfulOf(x[1]) :
              /\ f.query = x[2] /\ f.said = f.query
              /\ Lexical(cal.spec[x[1]], x[2]) \/ score >= theta[x[1]]
        BY <1>9
    <2>2. SUFFICES ASSUME ~ Lexical(cal.spec[x[1]], x[2])
                   PROVE  Rounded[score] >= p[2]
        BY <1>12
    <2>3. f \in semantic(x[1]) /\ f.outcome = "helpful"
        BY <2>1, <2>2, <1>10
    <2>4. score >= theta[x[1]] /\ theta[x[1]] >= SimThreshold /\ x[1] \in Rows
        BY <2>1, <2>2, <1>9 DEF TuningInv, FloorKept
    <2>5. score \in Scores
        BY <2>1, <2>4, <1>5, <1>10, ScoreTyped DEF Scores
    <2>6. theta[x[1]] \in Scores /\ SimThreshold \in Scores
        BY <2>4, RoundedTyped DEF Scores, TuningInv, TuningType
    <2>7. score >= SimThreshold
        <3> HIDE DEF score
        <3> QED
            BY <2>4, <2>5, <2>6, RoundedTyped DEF Scores
    <2>8. proposed(x[1]) \in Scores /\ score >= proposed(x[1])
        <3> HIDE DEF semantic, proposed
        <3> QED
            BY <1>6, <2>1, <2>3, <2>4, <2>7
    <2>9. p[2] = Rounded[proposed(x[1])]
        BY <1>8, <1>12
    <2> HIDE DEF semantic, proposed, score
    <2>10. proposed(x[1]) <= score
        BY <2>5, <2>8, RoundedTyped DEF Scores
    <2>11. Rounded[proposed(x[1])] <= Rounded[score]
        BY <2>5, <2>8, <2>10, RoundedTyped
    <2>12. Rounded[proposed(x[1])] \in Scores /\ Rounded[score] \in Scores
        BY <2>5, <2>8, RoundedTyped
    <2> QED
        BY <2>9, <2>11, <2>12, RoundedTyped DEF Scores
<1>13. ASSUME NEW p \in props
       PROVE  p[2] \in Scores /\ p[2] >= SimThreshold /\ Rounded[p[2]] = p[2] /\ p[2] >= theta[p[1]]
    <2>1. p[1] \in ready /\ p[1] \in Rows /\ p[2] = Rounded[proposed(p[1])]
        BY <1>8
    <2>2. PICK r \in Rows : r = p[1]
        BY <2>1
    <2>3. PICK x \in ScoresOf(r, cal.spec[r], semantic(r), "noise") :
              theta[r] <= x /\ x < proposed(r)
        <3> HIDE DEF semantic, proposed
        <3> QED
            BY <2>1, <2>2 DEF Current
    <2>4. x \in Scores
        <3>1. \A f \in semantic(r) : f.said \in Queries
            BY <1>4 DEF Firing
        <3> HIDE DEF semantic
        <3> QED
            BY <2>3, <3>1, <1>5, ScoreTyped DEF ScoresOf, Scores
    <2>5. theta[r] \in Scores /\ Rounded[theta[r]] = theta[r]
        BY DEF TuningInv, TuningType, FloorKept
    <2>6. PICK t \in Scores : t = proposed(r)
        BY <1>6
    <2>7. theta[r] <= t
        BY <2>3, <2>4, <2>5, <2>6, RoundedTyped DEF Scores
    <2>8. Rounded[theta[r]] <= Rounded[t] /\ Rounded[t] \in Scores
        BY <2>5, <2>7, RoundedTyped
    <2> HIDE DEF semantic, proposed
    <2>9. p[2] >= theta[p[1]]
        BY <2>1, <2>2, <2>5, <2>6, <2>8, RoundedTyped DEF Scores
    <2> QED
        BY <1>7, <2>1, <2>9
<1>14. props \in SUBSET (Rows \X Scores)
    <2> HIDE DEF semantic, ready, props
    <2>1. \A p \in props : p \in Rows \X Scores
        BY <1>8, <1>13
    <2> QED
        BY <2>1
<1> HIDE DEF props, known
<1>15. /\ cal' \in [pc : {"none", "rows", "set"}, spec : Specs,
                    props : SUBSET (Rows \X Scores), owed : Owing]
       /\ cal'.props = props /\ cal'.owed = known /\ cal'.spec = cal.spec
    BY <1>1, <1>11, <1>14 DEF TuningInv, TuningType
<1>16. TuningType'
    BY <1>2, <1>15 DEF TuningInv, TuningType
<1>17. FloorKept' /\ OnlyRaised'
    BY <1>2, <1>13, <1>15 DEF TuningInv, FloorKept, OnlyRaised
<1>18. CalInv'
    BY <1>12, <1>15 DEF CalInv
<1>19. ProposalInv' /\ HelpfulKept'
    BY <1>2, StillHelpful DEF TuningInv, ProposalInv
<1> QED
    BY <1>16, <1>17, <1>18, <1>19 DEF TuningInv

LEMMA SetThresholdKeeps ==
    ASSUME TuningInv, NEW p \in cal.props, SetThreshold(p[1], p[2])
    PROVE  TuningInv'
<1> DEFINE r == p[1]
           t == p[2]
           known == IF spec[r] = cal.spec[r] THEN cal.owed
                    ELSE {x \in owed : Lexical(spec[r], x[2])}
<1>1. r \in Rows /\ t \in Scores /\ t >= SimThreshold /\ Rounded[t] = t
    BY DEF TuningInv, TuningType, FloorKept
<1>2. /\ theta' = [theta EXCEPT ![r] = t]
      /\ cal' = Idle
      /\ owed' = Replaced(r, known)
      /\ UNCHANGED <<spec, active, firings, prompts, proposal>>
    BY Zenon DEF SetThreshold
<1>3. \A x \in known : x[1] = r => Lexical(spec[r], x[2]) \/ Rounded[Likeness(r, x[2])] >= t
    BY DEF TuningInv, CalInv, Likeness
<1>4. known \in Owing
    BY DEF TuningInv, TuningType, Owing
<1> HIDE DEF r, t, known
<1>5. theta' \in [Rows -> Scores] /\ theta'[r] = t /\ \A o \in Rows \ {r} : theta'[o] = theta[o]
    BY <1>1, <1>2 DEF TuningInv, TuningType
<1>6. cal' \in [pc : {"none", "rows", "set"}, spec : Specs,
                props : SUBSET (Rows \X Scores), owed : Owing] /\ cal'.props = {}
    BY <1>2, IdleTyped
<1>7. owed' \in Owing
    BY <1>2, <1>4, ReplacedOwes DEF TuningInv, TuningType, Owing
<1>8. TuningType'
    BY <1>2, <1>5, <1>6, <1>7 DEF TuningInv, TuningType
<1>9. FloorKept'
    BY <1>1, <1>5, <1>6 DEF TuningInv, FloorKept
<1>10. ProposalInv' /\ CalInv' /\ OnlyRaised'
    BY <1>2, <1>6 DEF TuningInv, ProposalInv, CalInv, OnlyRaised
<1>11. ASSUME NEW x \in owed'
       PROVE  Still(x)'
    <2>1. CASE x \in owed /\ x[1] # r
        <3>1. Still(x) /\ x[1] \in Rows
            BY <2>1 DEF TuningInv, HelpfulKept, TuningType, Owing, Still
        <3>2. theta'[x[1]] = theta[x[1]]
            BY <1>5, <2>1, <3>1
        <3> QED
            BY <1>2, <3>1, <3>2 DEF Still, Likeness
    <2>2. CASE x \in known /\ x[1] = r
        BY <1>2, <1>3, <1>5, <2>2 DEF Still, Likeness
    <2> QED
        BY <1>2, <2>1, <2>2, ReplacedOwes
<1>12. HelpfulKept'
    BY <1>11 DEF HelpfulKept, Still
<1> QED
    BY <1>8, <1>9, <1>10, <1>12 DEF TuningInv

LEMMA TuningStep ==
    ASSUME TuningInv, [TuningNext]_tuningVars
    PROVE  TuningInv'
<1>1. CASE \E s \in Sessions, p \in Queries, doubted \in SUBSET Rows, k \in 0 .. TopK :
              \E q \in Inputs(p) : Prompt(s, p, q, doubted, k)
    BY <1>1, PromptKeeps
<1>2. CASE \E f \in firings, o \in {"helpful", "noise"} : Rate(f, o)
    BY <1>2, RateKeeps
<1>3. CASE ReadRows \/ Dismiss
    BY <1>3, ReadRowsKeeps
<1>4. CASE ReadFirings
    BY <1>4, ReadFiringsKeeps
<1>5. CASE \E p \in proposal.props : Retarget(p[1], p[2])
    BY <1>5, RetargetKeeps
<1>6. CASE \E r \in Rows : Retire(r)
    BY <1>6, RetireKeeps
<1>7. CASE ReadCalibrate \/ EndCalibrate
    BY <1>7, ReadCalibrateKeeps
<1>8. CASE Rescore
    BY <1>8, RescoreKeeps
<1>9. CASE \E p \in cal.props : SetThreshold(p[1], p[2])
    BY <1>9, SetThresholdKeeps
<1>10. CASE UNCHANGED tuningVars
    <2>1. firings' \subseteq Firing
        BY <1>10 DEF tuningVars, TuningInv, TuningType
    <2> QED
        BY <1>10, <2>1, FiringsMove DEF tuningVars
<1> QED
    BY <1>1, <1>2, <1>3, <1>4, <1>5, <1>6, <1>7, <1>8, <1>9, <1>10 DEF TuningNext

LEMMA TuningInvariant == TuningSpec => []TuningInv
    BY TuningStarts, TuningStep, PTL DEF TuningSpec

\* Specs stay sequences of keywords, thresholds similarities, and every firing, proposal and
\* debt names rows and queries there are.
THEOREM TuningTyped == TuningSpec => []TuningType
<1>1. TuningInv => TuningType
    BY DEF TuningInv
<1> QED
    BY TuningInvariant, <1>1, PTL

\* No tuning loses a helpful query it knew of, but for what the rounding of a threshold
\* may cost: a reader of the report or of calibrate's output may apply it late, over newer
\* specs, in any order, or not at all.
THEOREM TuningKeepsTheHelpful == TuningSpec => []HelpfulKept
<1>1. TuningInv => HelpfulKept
    BY DEF TuningInv
<1> QED
    BY TuningInvariant, <1>1, PTL

\* calibrate never sets a threshold below SIM_THRESHOLD.
THEOREM ThresholdsKeepTheirFloor == TuningSpec => []FloorKept
<1>1. TuningInv => FloorKept
    BY DEF TuningInv
<1> QED
    BY TuningInvariant, <1>1, PTL

\* No calibration lowers a threshold, whatever was rated or thought again, retargeted or
\* proposed since the one before: what it reads, compares exactly and stores rounded.
THEOREM CalibrationOnlyRaises == TuningSpec => ThresholdsNeverFall
<1>1. ASSUME TuningInv, [TuningNext]_tuningVars, NEW r \in Rows
      PROVE  theta'[r] >= theta[r]
    <2>1. theta[r] \in Nat
        BY <1>1, RoundedTyped DEF TuningInv, TuningType, Scores
    <2>2. CASE theta' = theta
        BY <2>1, <2>2
    <2>3. CASE \E p \in cal.props : SetThreshold(p[1], p[2])
        <3>1. PICK p \in cal.props : theta' = [theta EXCEPT ![p[1]] = p[2]]
            BY <2>3 DEF SetThreshold
        <3>2. p[2] >= theta[p[1]] /\ theta \in [Rows -> Scores]
            BY <1>1 DEF TuningInv, OnlyRaised, TuningType
        <3>3. CASE p[1] = r
            BY <3>1, <3>2, <3>3
        <3>4. CASE p[1] # r
            BY <2>1, <3>1, <3>2, <3>4
        <3> QED
            BY <3>3, <3>4
    <2>4. [TuningNext]_tuningVars => theta' = theta \/ \E p \in cal.props : SetThreshold(p[1], p[2])
        <3>1. \A s, p, q, doubted, k : Prompt(s, p, q, doubted, k) => theta' = theta
            BY DEF Prompt
        <3>2. \A f, o : Rate(f, o) => theta' = theta
            BY DEF Rate
        <3>3. ReadRows \/ ReadFirings \/ Dismiss => theta' = theta
            BY Zenon DEF ReadRows, ReadFirings, Dismiss
        <3>4. \A p, s : Retarget(p, s) => theta' = theta
            BY DEF Retarget
        <3>5. \A p : Retire(p) => theta' = theta
            BY DEF Retire
        <3>6. ReadCalibrate \/ Rescore \/ EndCalibrate => theta' = theta
            BY Zenon DEF ReadCalibrate, Rescore, EndCalibrate
        <3>7. UNCHANGED tuningVars => theta' = theta
            BY DEF tuningVars
        <3> QED
            BY <3>1, <3>2, <3>3, <3>4, <3>5, <3>6, <3>7, Zenon DEF TuningNext
    <2> QED
        BY <1>1, <2>2, <2>3, <2>4
<1>2. TuningInv /\ [TuningNext]_tuningVars => \A r \in Rows : theta'[r] >= theta[r]
    BY <1>1
<1> QED
    BY TuningInvariant, <1>2, PTL DEF TuningSpec, ThresholdsNeverFall

-----------------------------------------------------------------------------
(* Instrument: any runs of any versions over any files, events and edits.    *)

NoRunning == [step |-> "none"]
Running == [step : {"read", "open", "fill"}, version : Versions, store : Stores \cup {NoStore},
            plan : Contents, todo : Seq(Files) \ {<<>>}]

InstrumentType ==
    /\ disk \in [Files -> Contents] /\ \A f \in Files : disk[f] \in Content(f)
    /\ run \in [Processes -> {NoRunning} \cup Running]
    /\ given \subseteq Files \X Theirs
    /\ served \in BOOLEAN /\ crossed \in BOOLEAN

\* A settings.json with one hook of ours, of version v, for each event.
Settled(v, c) == c \in SettingsFile /\ \A e \in Events : IsCurrent(v, e, c.hooks[e])

\* What a run is about to write is whole and of the right kind, holds whatever others put in
\* the file (but for what is excused), and, of settings.json, has one hook of its version.
PlanInv ==
    \A r \in Processes : run[r].step \in {"open", "fill"} =>
        /\ run[r].plan \in Whole(File(r))
        /\ \A x \in given \ excused : x[1] = File(r) => x[2] \in TheirsIn(File(r), run[r].plan)
        /\ File(r) = "settings" => Settled(run[r].version, run[r].plan)

ServedInv == served /\ ~crossed => \E v \in Versions : Settled(v, disk["settings"])

\* A run is about to write a file that is not as it truncated it, or that another is about
\* to write.
Crossing(r, f) ==
    /\ Filling(r, f)
    /\ disk[f] # Torn \/ \E p \in Processes \ {r} : Filling(p, f)

\* What was given in such a file is excused; of settings.json it is known.
CrossInv ==
    \A r \in Processes, f \in Files : Crossing(r, f) =>
        GivenIn(f) \subseteq excused /\ (f = "settings" => crossed)

InstrumentInv == InstrumentType /\ PlanInv /\ ServedInv /\ CrossInv /\ TheirsKept

-----------------------------------------------------------------------------
(* What is in a file *)

LEMMA ManagedIsNoFixed ==
    ASSUME NEW f \in ToSet(Managed)
    PROVE  f \in Files /\ f \notin Fixed
    BY InstrumentAssumption DEF InstrumentAssumption, Files

LEMMA KindsDiffer ==
    ASSUME NEW f, NEW c \in Whole(f)
    PROVE  c.kind = "whole" /\ c # Absent /\ c # Torn /\ c # Mixed
<1>1. c.kind = "whole"
    BY DEF Whole, SettingsFile, SkillFile, SharedFile
<1>2. Absent.kind = "absent" /\ Torn.kind = "torn" /\ Mixed.kind = "mixed"
    BY DEF Absent, Torn, Mixed
<1> QED
    BY <1>1, <1>2

LEMMA WholeKinds ==
    /\ Whole("settings") = SettingsFile
    /\ \A f \in ToSet(Managed) : Whole(f) = SkillFile
    /\ \A f \in Fixed \ {"settings"} : Whole(f) = SharedFile
    BY ManagedIsNoFixed DEF Whole, Fixed

LEMMA NothingIn ==
    ASSUME NEW f
    PROVE  TheirsIn(f, Absent) = {} /\ TheirsIn(f, Torn) = {} /\ TheirsIn(f, Mixed) = {}
    BY DEF TheirsIn

LEMMA InSettings ==
    ASSUME NEW c \in SettingsFile, NEW x
    PROVE  x \in TheirsIn("settings", c) <=>
             x \in Theirs /\ \E e \in Events : \E i \in DOMAIN c.hooks[e] : x \in c.hooks[e][i].hooks
<1>1. c \notin {Absent, Torn, Mixed} /\ "settings" \notin ToSet(Managed)
    BY WholeKinds, KindsDiffer, ManagedIsNoFixed DEF Fixed
<1>2. TheirsIn("settings", c)
        = Theirs \cap UNION {n.hooks : n \in UNION {ToSet(c.hooks[e]) : e \in Events}}
    BY <1>1 DEF TheirsIn
<1>3. x \in TheirsIn("settings", c) <=>
        x \in Theirs /\ \E e \in Events : \E n \in ToSet(c.hooks[e]) : x \in n.hooks
    BY <1>2
<1> QED
    BY <1>3 DEF ToSet

LEMMA InSkill ==
    ASSUME NEW f \in ToSet(Managed), NEW c \in SkillFile
    PROVE  TheirsIn(f, c) = Theirs \cap {c.body}
<1>1. c \notin {Absent, Torn, Mixed}
    BY WholeKinds, KindsDiffer
<1>2. f # "settings"
    BY ManagedIsNoFixed DEF Fixed
<1> QED
    BY <1>1, <1>2 DEF TheirsIn

LEMMA InShared ==
    ASSUME NEW f \in Fixed \ {"settings"}, NEW c \in SharedFile
    PROVE  TheirsIn(f, c) = c.theirs
<1>1. c \notin {Absent, Torn, Mixed}
    BY WholeKinds, KindsDiffer
<1>2. f \notin ToSet(Managed)
    BY ManagedIsNoFixed
<1> QED
    BY <1>1, <1>2 DEF TheirsIn

LEMMA ContentsTyped ==
    ASSUME NEW f \in Files
    PROVE  Content(f) \subseteq Contents /\ Whole(f) \subseteq Contents
    BY DEF Content, Contents, Whole

\* What others have is Theirs.
LEMMA TheirsTyped ==
    ASSUME NEW f \in Files, NEW c \in Content(f)
    PROVE  TheirsIn(f, c) \subseteq Theirs
<1>1. CASE c \in {Absent, Torn, Mixed}
    BY <1>1, NothingIn
<1>2. CASE c \in Whole(f)
    <2>1. CASE f = "settings"
        BY <1>2, <2>1, WholeKinds, InSettings
    <2>2. CASE f \in ToSet(Managed)
        BY <1>2, <2>2, WholeKinds, InSkill
    <2>3. CASE f \in Fixed \ {"settings"}
        <3>1. c \in SharedFile
            BY <1>2, <2>3, WholeKinds
        <3>2. c.theirs \subseteq Theirs
            BY <3>1 DEF SharedFile
        <3> QED
            BY <2>3, <3>1, <3>2, InShared
    <2> QED
        BY <2>1, <2>2, <2>3 DEF Files
<1> QED
    BY <1>1, <1>2 DEF Content

-----------------------------------------------------------------------------
(* _merge_hook_entries *)

LEMMA HookIsOurs ==
    ASSUME NEW v \in Versions, NEW e \in Events
    PROVE  /\ Hook(v, e) \in OursFor(e)
           /\ [matcher |-> Matcher[v][e], hooks |-> {Hook(v, e)}] \in Entry
<1>1. Hook(v, e) \in OursFor(e)
    BY DEF OursFor
<1>2. Matcher[v][e] \in Matchers
    BY InstrumentAssumption DEF InstrumentAssumption
<1>3. Hook(v, e) \in UNION {OursFor(a) : a \in Events}
    BY <1>1
<1> QED
    BY <1>1, <1>2, <1>3 DEF Entry

\* Every entry that is not ours alone stays, without our hooks.
LEMMA OthersKept ==
    ASSUME NEW e \in Events, NEW entries \in Seq(Entry)
    PROVE  /\ Others(entries, e) \in Seq(Entry)
           /\ \A i \in DOMAIN Others(entries, e) : Others(entries, e)[i].hooks \cap OursFor(e) = {}
           /\ \A x \in Theirs, i \in DOMAIN entries : x \in entries[i].hooks =>
                \E j \in DOMAIN Others(entries, e) : x \in Others(entries, e)[j].hooks
<1> DEFINE keepers == {n \in ToSet(entries) : n.hooks = {} \/ ~(n.hooks \subseteq OursFor(e))}
           kept == Only(entries, keepers)
           bare(n) == [n EXCEPT !.hooks = @ \ OursFor(e)]
<1>1. PICK K : K = kept
    OBVIOUS
<1>2. K \in Seq(Entry) /\ ToSet(K) = ToSet(entries) \cap keepers
    <2> HIDE DEF keepers
    <2> QED
        BY <1>1, OnlyKeeps
<1>3. Others(entries, e) = [i \in DOMAIN K |-> bare(K[i])]
    BY <1>1 DEF Others
<1>4. \A n \in Entry : bare(n) \in Entry /\ bare(n).hooks = n.hooks \ OursFor(e)
    BY DEF Entry
<1>5. PICK O : O = Others(entries, e)
    OBVIOUS
<1>6. DOMAIN K = 1 .. Len(K) /\ Len(K) \in Nat /\ \A i \in DOMAIN K : K[i] \in Entry
    BY <1>2
<1>7. DOMAIN O = DOMAIN K /\ \A i \in DOMAIN K : O[i] = bare(K[i])
    BY <1>3, <1>5
<1>8. O \in Seq(Entry)
    <2> HIDE DEF bare
    <2>1. O = [i \in 1 .. Len(K) |-> bare(K[i])]
        BY <1>3, <1>5, <1>6
    <2>2. \A i \in 1 .. Len(K) : bare(K[i]) \in Entry
        BY <1>4, <1>6
    <2> QED
        BY <2>1, <2>2, <1>6
<1>9. \A i \in DOMAIN O : O[i].hooks = K[i].hooks \ OursFor(e)
    <2> HIDE DEF bare
    <2> QED
        BY <1>4, <1>6, <1>7
<1>10. ASSUME NEW x \in Theirs, NEW i \in DOMAIN entries, x \in entries[i].hooks
       PROVE  \E j \in DOMAIN O : x \in O[j].hooks
    <2>1. x \notin OursFor(e)
        BY InstrumentAssumption DEF InstrumentAssumption
    <2>2. entries[i] \in ToSet(K)
        BY <1>2, <1>10, <2>1 DEF ToSet
    <2>3. PICK j \in DOMAIN K : K[j] = entries[i]
        BY <2>2 DEF ToSet
    <2> QED
        BY <1>7, <1>9, <1>10, <2>1, <2>3
<1> QED
    BY <1>5, <1>8, <1>9, <1>10

LEMMA RefreshedKeeps ==
    ASSUME NEW v \in Versions, NEW e \in Events, NEW entries \in Seq(Entry)
    PROVE  /\ Refreshed(v, e, entries) \in Seq(Entry)
           /\ IsCurrent(v, e, Refreshed(v, e, entries))
           /\ \A x \in Theirs, i \in DOMAIN entries : x \in entries[i].hooks =>
                \E j \in DOMAIN Refreshed(v, e, entries) : x \in Refreshed(v, e, entries)[j].hooks
<1>1. CASE IsCurrent(v, e, entries)
    BY <1>1 DEF Refreshed
<1>2. CASE ~ IsCurrent(v, e, entries)
    <2> DEFINE new == [matcher |-> Matcher[v][e], hooks |-> {Hook(v, e)}]
    <2>1. PICK O : O = Others(entries, e)
        OBVIOUS
    <2>2. /\ O \in Seq(Entry)
          /\ \A i \in DOMAIN O : O[i].hooks \cap OursFor(e) = {}
          /\ \A x \in Theirs, i \in DOMAIN entries : x \in entries[i].hooks =>
               \E j \in DOMAIN O : x \in O[j].hooks
        BY <2>1, OthersKept
    <2>3. new \in Entry /\ Hook(v, e) \in OursFor(e)
        BY HookIsOurs
    <2>4. new.hooks = {Hook(v, e)} /\ new.matcher = Matcher[v][e]
        OBVIOUS
    <2> HIDE DEF new
    <2>5. PICK A : A = Append(O, new)
        OBVIOUS
    <2>6. /\ A \in Seq(Entry)
          /\ DOMAIN A = DOMAIN O \cup {Len(O) + 1} /\ Len(O) + 1 \notin DOMAIN O
          /\ A[Len(O) + 1] = new
          /\ \A i \in DOMAIN O : A[i] = O[i]
        BY <2>2, <2>3, <2>5
    <2>7. Refreshed(v, e, entries) = A
        BY <1>2, <2>1, <2>5 DEF Refreshed, new
    <2>8. OurHooks(A, e) = {<<Len(O) + 1, Hook(v, e)>>}
        <3>1. \A i \in DOMAIN A : A[i].hooks \cap OursFor(e) = IF i = Len(O) + 1 THEN {Hook(v, e)} ELSE {}
            BY <2>2, <2>3, <2>4, <2>6
        <3> QED
            BY <2>6, <3>1 DEF OurHooks
    <2>9. IsCurrent(v, e, A)
        <3> DEFINE o == <<Len(O) + 1, Hook(v, e)>>
        <3>1. o \in OurHooks(A, e) /\ OurHooks(A, e) = {o} /\ o[2] = Hook(v, e)
            BY <2>8
        <3>2. A[o[1]].matcher = Matcher[v][e]
            BY <2>4, <2>6
        <3> HIDE DEF o
        <3> QED
            BY <3>1, <3>2 DEF IsCurrent
    <2>10. \A x \in Theirs, i \in DOMAIN entries : x \in entries[i].hooks => \E j \in DOMAIN A : x \in A[j].hooks
        BY <2>2, <2>6
    <2> QED
        BY <2>6, <2>7, <2>9, <2>10
<1> QED
    BY <1>1, <1>2

\* After _plan_settings each event has one hook of ours, the version's own, and every hook
\* of others is still there.
LEMMA SettingsSettle ==
    ASSUME NEW v \in Versions, NEW c \in {Absent} \cup SettingsFile
    PROVE  /\ Settled(v, Settings(v, c))
           /\ TheirsIn("settings", c) \subseteq TheirsIn("settings", Settings(v, c))
<1> DEFINE entries(e) == IF c = Absent THEN <<>> ELSE c.hooks[e]
<1>1. \A e \in Events : entries(e) \in Seq(Entry)
    BY DEF SettingsFile
<1>2. \A e \in Events :
        /\ Refreshed(v, e, entries(e)) \in Seq(Entry)
        /\ IsCurrent(v, e, Refreshed(v, e, entries(e)))
        /\ \A x \in Theirs, i \in DOMAIN entries(e) : x \in entries(e)[i].hooks =>
             \E j \in DOMAIN Refreshed(v, e, entries(e)) : x \in Refreshed(v, e, entries(e))[j].hooks
    <2> HIDE DEF entries
    <2> QED
        BY <1>1, RefreshedKeeps
<1>3. PICK S : S = Settings(v, c)
    OBVIOUS
<1>4. S = [kind |-> "whole", hooks |-> [e \in Events |-> Refreshed(v, e, entries(e))]]
    BY <1>3 DEF Settings
<1> HIDE DEF entries
<1>5. S.kind = "whole" /\ S.hooks = [e \in Events |-> Refreshed(v, e, entries(e))]
    BY <1>4
<1>6. S \in SettingsFile
    BY <1>2, <1>4 DEF SettingsFile
<1>7. \A e \in Events : S.hooks[e] = Refreshed(v, e, entries(e))
    BY <1>5
<1>8. Settled(v, S)
    BY <1>2, <1>6, <1>7 DEF Settled
<1>9. TheirsIn("settings", c) \subseteq TheirsIn("settings", S)
    <2>1. CASE c = Absent
        BY <2>1, NothingIn
    <2>2. CASE c \in SettingsFile
        <3>1. c # Absent
            BY <2>2, WholeKinds, KindsDiffer
        <3> SUFFICES ASSUME NEW x \in TheirsIn("settings", c)
                     PROVE  x \in TheirsIn("settings", S)
            OBVIOUS
        <3>2. PICK e \in Events : \E i \in DOMAIN c.hooks[e] : x \in c.hooks[e][i].hooks
            BY <2>2, InSettings
        <3>3. x \in Theirs
            BY <2>2, InSettings
        <3>4. c.hooks[e] = entries(e)
            BY <3>1 DEF entries
        <3>5. \E j \in DOMAIN S.hooks[e] : x \in S.hooks[e][j].hooks
            BY <1>2, <1>7, <3>2, <3>3, <3>4
        <3> QED
            BY <1>6, <3>3, <3>5, InSettings
    <2> QED
        BY <2>1, <2>2
<1> QED
    BY <1>3, <1>8, <1>9

-----------------------------------------------------------------------------
(* What a run makes of what it reads *)

LEMMA PartKeeps ==
    ASSUME NEW f \in Fixed \ {"settings"}, NEW c \in {Absent} \cup SharedFile,
           NEW own \in {"none", "monition", "line", "made", NoStore} \cup Stores
    PROVE  Part(c, own) \in SharedFile /\ TheirsIn(f, c) \subseteq TheirsIn(f, Part(c, own))
<1>1. CASE c = Absent
    BY <1>1, NothingIn DEF Part, SharedFile
<1>2. CASE c \in SharedFile
    <2>1. c # Absent
        BY <1>2, WholeKinds, KindsDiffer
    <2>2. Part(c, own) = [kind |-> "whole", own |-> own, theirs |-> c.theirs]
        BY <2>1 DEF Part
    <2>3. Part(c, own) \in SharedFile /\ Part(c, own).theirs = c.theirs
        BY <1>2, <2>2 DEF SharedFile
    <2> QED
        BY <1>2, <2>3, InShared
<1> QED
    BY <1>1, <1>2

\* Whatever a run reads of a file, its plan is what it read or a whole file of the kind,
\* with everything in it that others put there.
LEMMA PlanKeeps ==
    ASSUME NEW r, NEW f \in Files, NEW c \in Content(f), f \in Json => c \notin {Torn, Mixed},
           run[r].version \in Versions, run[r].store \in Stores \cup {NoStore}
    PROVE  /\ Plan(r, f, c) \in {c} \cup Whole(f)
           /\ TheirsIn(f, c) \subseteq TheirsIn(f, Plan(r, f, c))
           /\ f = "settings" => Settled(run[r].version, Plan(r, f, c))
<1>1. CASE f = "settings"
    <2>1. Plan(r, f, c) = Settings(run[r].version, c)
        BY <1>1, ManagedIsNoFixed DEF Plan, Fixed
    <2>2. c \in {Absent} \cup SettingsFile
        BY <1>1, WholeKinds DEF Content, Json
    <2> QED
        BY <1>1, <2>1, <2>2, SettingsSettle, WholeKinds DEF Settled
<1>2. CASE f \in ToSet(Managed)
    <2>1. f \notin Fixed
        BY <1>2, ManagedIsNoFixed
    <2>2. Plan(r, f, c) = Skill(run[r].version, c)
        BY <2>1 DEF Plan, Fixed
    <2>3. CASE ManagedState(c, run[r].version) \notin {"absent", "untouched"}
        BY <2>1, <2>2, <2>3 DEF Skill, Fixed
    <2>4. CASE ManagedState(c, run[r].version) \in {"absent", "untouched"}
        <3> DEFINE v == run[r].version
                   s == [kind |-> "whole", stamp |-> v, body |-> v]
        <3>1. Plan(r, f, c) = s
            BY <2>2, <2>4 DEF Skill
        <3>2. s \in Whole(f)
            BY <1>2, WholeKinds DEF SkillFile
        <3>3. CASE c = Absent
            BY <2>1, <3>1, <3>2, <3>3, NothingIn DEF Fixed
        <3>4. CASE c # Absent
            <4>1. c \notin {Torn, Mixed} /\ c.stamp = c.body
                BY <2>4, <3>4 DEF ManagedState
            <4>2. c \in SkillFile
                BY <1>2, <3>4, <4>1, WholeKinds DEF Content
            <4>3. c.body \in Versions
                BY <4>1, <4>2 DEF SkillFile
            <4>4. Theirs \cap {c.body} = {}
                BY <4>3, InstrumentAssumption DEF InstrumentAssumption
            <4>5. TheirsIn(f, c) = {}
                BY <1>2, <4>2, <4>4, InSkill
            <4> QED
                BY <2>1, <3>1, <3>2, <4>5 DEF Fixed
        <3> QED
            BY <3>3, <3>4
    <2> QED
        BY <2>3, <2>4
<1>3. CASE f \in Fixed \ {"settings"}
    <2>1. f \notin ToSet(Managed) /\ Whole(f) = SharedFile
        BY <1>3, ManagedIsNoFixed, WholeKinds
    <2>2. c \in {Torn, Mixed} \/ c \in {Absent} \cup SharedFile
        BY <2>1 DEF Content
    <2>3. \A own \in {"none", "monition", "line", "made", NoStore} \cup Stores : c \notin {Torn, Mixed} =>
            Part(c, own) \in SharedFile /\ TheirsIn(f, c) \subseteq TheirsIn(f, Part(c, own))
        BY <1>3, <2>2, PartKeeps
    <2> DEFINE p == Plan(r, f, c)
    <2>4. p = c \/ (c \notin {Torn, Mixed} /\ \E own \in {"none", "monition", "line", "made", NoStore} \cup Stores :
                                   p = Part(c, own))
              \/ (c = Torn /\ p = [kind |-> "whole", own |-> "line", theirs |-> {}])
        <3>1. CASE f = "mcp"
            BY <3>1 DEF Plan, Server, Json
        <3>2. CASE f = "local"
            BY <3>2 DEF Plan, Json
        <3>3. CASE f = "readme"
            BY <3>3 DEF Plan, InstallLine
        <3>4. CASE f \in {"store", "pre-commit"}
            <4>1. Absent \notin {Torn, Mixed}
                BY DEF Absent, Torn, Mixed
            <4> QED
                BY <3>4, <4>1 DEF Plan, Made
        <3> QED
            BY <1>3, <3>1, <3>2, <3>3, <3>4 DEF Fixed
    <2>5. CASE p = c
        BY <1>3, <2>5
    <2>6. CASE c \notin {Torn, Mixed} /\ \E own \in {"none", "monition", "line", "made", NoStore} \cup Stores :
                              p = Part(c, own)
        BY <1>3, <2>1, <2>3, <2>6
    <2>7. CASE c = Torn /\ p = [kind |-> "whole", own |-> "line", theirs |-> {}]
        <3>1. p \in SharedFile
            BY <2>7 DEF SharedFile
        <3> QED
            BY <1>3, <2>1, <2>7, <3>1, NothingIn
    <2> QED
        BY <2>4, <2>5, <2>6, <2>7
<1> QED
    BY <1>1, <1>2, <1>3 DEF Files

LEMMA TodoTyped ==
    ASSUME NEW command, NEW store, NEW dump \in BOOLEAN
    PROVE  Todo(command, store, dump) \in Seq(Files) \ {<<>>}
<1> DEFINE merge == <<"settings", "mcp">> \o Managed
           tail == <<"readme">> \o (IF dump THEN <<"pre-commit">> ELSE <<>>)
<1>1. Managed \in Seq(Files)
    <2>1. ToSet(Managed) \subseteq Files /\ Managed \in Seq(ToSet(Managed))
        BY InstrumentAssumption DEF InstrumentAssumption, Files
    <2> QED
        BY <2>1
<1>2. Fixed \subseteq Files
    BY DEF Files
<1>3. <<"settings", "mcp">> \in Seq(Files) /\ <<"readme">> \in Seq(Files)
      /\ <<"pre-commit">> \in Seq(Files) /\ <<"store">> \in Seq(Files) /\ <<"local">> \in Seq(Files)
    BY <1>2 DEF Fixed
<1>4. merge \in Seq(Files) /\ Len(merge) > 0
    BY <1>1, <1>3
<1>5. tail \in Seq(Files)
    BY <1>3
<1> HIDE DEF merge, tail
<1>6. <<"store">> \o merge \o tail \in Seq(Files) /\ Len(<<"store">> \o merge \o tail) > 0
    BY <1>3, <1>4, <1>5
<1>7. ASSUME NEW l \in {<<>>, <<"local">>}
      PROVE  merge \o l \o tail \in Seq(Files) /\ Len(merge \o l \o tail) > 0
    <2>1. <<>> \in Seq(Files)
        OBVIOUS
    <2>2. l \in Seq(Files)
        BY <2>1, <1>3
    <2> QED
        BY <2>2, <1>4, <1>5
<1>8. Todo(command, store, dump) \in Seq(Files) /\ Len(Todo(command, store, dump)) > 0
    BY <1>4, <1>6, <1>7 DEF Todo, merge, tail
<1>9. Len(<<>>) = 0
    OBVIOUS
<1> QED
    BY <1>8, <1>9

-----------------------------------------------------------------------------
(* Every step keeps the invariant *)

LEMMA InstrumentStarts ==
    ASSUME InstrumentInit
    PROVE  InstrumentInv
<1>1. \A f \in Files : disk[f] \in Content(f)
    BY InstrumentAssumption DEF InstrumentInit, InstrumentAssumption
<1>2. disk \in [Files -> Contents]
    BY InstrumentAssumption DEF InstrumentInit, InstrumentAssumption
<1>3. given = UNION {{<<f, x>> : x \in TheirsIn(f, disk[f])} : f \in Files}
    BY DEF InstrumentInit
<1>4. \A x \in given : x[1] \in Files /\ x[2] \in TheirsIn(x[1], disk[x[1]]) /\ x = <<x[1], x[2]>>
    BY <1>3
<1>5. given \subseteq Files \X Theirs
    <2>1. \A x \in given : x \in Files \X Theirs
        BY <1>1, <1>4, TheirsTyped
    <2> QED
        BY <2>1
<1>6. \A r \in Processes : run[r].step = "none"
    BY DEF InstrumentInit
<1>7. InstrumentType
    BY <1>1, <1>2, <1>5 DEF InstrumentInit, InstrumentType, NoRunning
<1>8. PlanInv
    BY <1>6 DEF PlanInv
<1>9. ServedInv /\ CrossInv /\ TheirsKept
    BY <1>4, <1>6 DEF InstrumentInit, ServedInv, CrossInv, Crossing, Filling, TheirsKept
<1> QED
    BY <1>7, <1>8, <1>9 DEF InstrumentInv

\* A process under way and the file it is at.
LEMMA AtFile ==
    ASSUME InstrumentType, NEW r \in Processes, run[r].step # "none"
    PROVE  /\ run[r] \in Running /\ run[r].step \in {"read", "open", "fill"}
           /\ run[r].version \in Versions /\ run[r].store \in Stores \cup {NoStore}
           /\ run[r].todo \in Seq(Files) /\ run[r].todo # <<>> /\ File(r) \in Files
<1>1. run[r] \in Running
    BY DEF InstrumentType, NoRunning
<1>2. PICK todo \in Seq(Files) \ {<<>>} : run[r].todo = todo
    BY <1>1 DEF Running
<1>3. Head(todo) \in Files
    BY <1>2
<1> QED
    BY <1>1, <1>2, <1>3 DEF Running, File

LEMMA LongerThanOne ==
    ASSUME NEW s \in Seq(Files), s # <<>>, Len(s) # 1
    PROVE  Tail(s) \in Seq(Files) /\ Tail(s) # <<>>
<1>1. Len(s) \in Nat /\ Len(s) # 0
    BY EmptySeq
<1>2. Tail(s) \in Seq(Files) /\ Len(Tail(s)) = Len(s) - 1
    BY <1>1, HeadTailProperties
<1>3. PICK tail : tail = Tail(s)
    OBVIOUS
<1>4. Len(tail) # 0
    BY <1>1, <1>2, <1>3
<1>5. tail # <<>>
    BY <1>4, EmptySeq
<1> QED
    BY <1>2, <1>3, <1>5

\* What a run may become without a new plan: nothing, or a reader of its next file.
LEMMA OnwardTyped ==
    ASSUME InstrumentType, NEW r \in Processes, run[r].step # "none", Onward(r)
    PROVE  \E n \in {NoRunning} \cup Running :
             run' = [run EXCEPT ![r] = n] /\ n.step \in {"none", "read"}
<1>1. run[r] \in Running
    BY AtFile
<1>2. PICK todo \in Seq(Files) \ {<<>>} : run[r].todo = todo
    BY <1>1 DEF Running
<1>3. CASE Len(todo) = 1
    <2>1. run' = [run EXCEPT ![r] = NoRunning]
        BY <1>2, <1>3 DEF Onward, NoRunning
    <2>2. NoRunning.step = "none"
        BY DEF NoRunning
    <2> QED
        BY <2>1, <2>2
<1>4. CASE Len(todo) # 1
    <2> DEFINE n == [run[r] EXCEPT !.step = "read", !.todo = Tail(@), !.plan = Absent]
    <2>1. Tail(todo) \in Seq(Files) /\ Tail(todo) # <<>>
        BY <1>2, <1>4, LongerThanOne
    <2>2. n \in Running /\ n.step = "read"
        BY <1>1, <1>2, <2>1 DEF Running, Contents
    <2>3. run' = [run EXCEPT ![r] = n]
        BY <1>2, <1>4 DEF Onward
    <2> HIDE DEF n
    <2> QED
        BY <2>2, <2>3
<1> QED
    BY <1>3, <1>4

\* A step after which no run has a plan it did not have.
LEMMA PlansStay ==
    ASSUME PlanInv, given' \ excused' \subseteq given \ excused,
           \A p \in Processes : run'[p].step \in {"open", "fill"} =>
               /\ run[p].step \in {"open", "fill"} /\ run'[p].plan = run[p].plan
               /\ run'[p].todo = run[p].todo /\ run'[p].version = run[p].version
    PROVE  PlanInv'
<1> SUFFICES ASSUME NEW p \in Processes, run'[p].step \in {"open", "fill"}
             PROVE  /\ run'[p].plan \in Whole(File(p)')
                    /\ \A x \in given' \ excused' :
                         x[1] = File(p)' => x[2] \in TheirsIn(File(p)', run'[p].plan)
                    /\ File(p)' = "settings" => Settled(run'[p].version, run'[p].plan)
    BY DEF PlanInv
<1>1. File(p)' = File(p)
    BY DEF File
<1> QED
    BY <1>1 DEF PlanInv

\* A step that writes nothing, and after which no run is filling that was not.
LEMMA CrossStays ==
    ASSUME CrossInv, UNCHANGED <<disk, given, crossed>>, excused \subseteq excused',
           \A p \in Processes : \A f : Filling(p, f)' => Filling(p, f)
    PROVE  CrossInv'
<1> SUFFICES ASSUME NEW r \in Processes, NEW f \in Files, Crossing(r, f)'
             PROVE  (GivenIn(f) \subseteq excused)' /\ (f = "settings" => crossed')
    BY DEF CrossInv
<1>1. Crossing(r, f)
    BY DEF Crossing
<1> QED
    BY <1>1 DEF CrossInv, GivenIn

LEMMA StartKeeps ==
    ASSUME InstrumentInv, NEW r \in Processes, NEW command, NEW v \in Versions,
           NEW store \in Stores \cup {NoStore}, NEW dump \in BOOLEAN,
           Start(r, command, v, store, dump)
    PROVE  InstrumentInv'
<1> DEFINE new == [step |-> "read", version |-> v, store |-> store, plan |-> Absent,
                   todo |-> Todo(command, store, dump)]
<1>1. new \in Running /\ new.step = "read"
    BY TodoTyped DEF Running, Contents
<1>2. run' = [run EXCEPT ![r] = new] /\ UNCHANGED <<disk, given, excused, served, crossed>>
    BY DEF Start
<1>3. run[r].step = "none"
    BY DEF Start
<1> HIDE DEF new
<1>4. run \in [Processes -> {NoRunning} \cup Running]
    BY DEF InstrumentInv, InstrumentType
<1>5. run'[r] = new /\ \A p \in Processes \ {r} : run'[p] = run[p]
    BY <1>2, <1>4
<1>6. InstrumentType'
    BY <1>1, <1>2 DEF InstrumentInv, InstrumentType
<1>7. PlanInv'
    <2>1. \A p \in Processes : run'[p].step \in {"open", "fill"} => run'[p] = run[p]
        BY <1>1, <1>5
    <2> QED
        BY <1>2, <2>1, PlansStay DEF InstrumentInv
<1>8. ServedInv'
    BY <1>2 DEF InstrumentInv, ServedInv
<1>9. TheirsKept'
    <2>1. \A p \in Processes : \A f : Filling(p, f) => Filling(p, f)'
        BY <1>3, <1>5 DEF Filling, File
    <2> QED
        BY <1>2, <2>1 DEF InstrumentInv, TheirsKept
<1>10. CrossInv'
    <2>1. \A p \in Processes : \A f : Filling(p, f)' => Filling(p, f)
        BY <1>1, <1>5 DEF Filling, File
    <2> QED
        BY <1>2, <2>1, CrossStays DEF InstrumentInv
<1> QED
    BY <1>6, <1>7, <1>8, <1>9, <1>10 DEF InstrumentInv

LEMMA OpenKeeps ==
    ASSUME InstrumentInv, NEW r \in Processes, Open(r)
    PROVE  InstrumentInv'
<1> DEFINE new == [run[r] EXCEPT !.step = "fill"]
<1>0. PICK f : f = File(r)
    OBVIOUS
<1>1. run[r].step = "open"
    BY DEF Open
<1>2. f \in Files /\ run[r] \in Running
    BY <1>0, <1>1, AtFile DEF InstrumentInv
<1>3. /\ disk' = [disk EXCEPT ![f] = Torn]
      /\ run' = [run EXCEPT ![r] = new]
      /\ served' = (served /\ f # "settings")
      /\ given' = given /\ excused \subseteq excused'
    BY <1>0 DEF Open
<1>4. /\ new \in Running /\ new.step = "fill" /\ new.plan = run[r].plan
      /\ new.todo = run[r].todo /\ new.version = run[r].version
    BY <1>2 DEF Running
<1>5. /\ run \in [Processes -> {NoRunning} \cup Running]
      /\ disk \in [Files -> Contents] /\ \A g \in Files : disk[g] \in Content(g)
    BY DEF InstrumentInv, InstrumentType
<1>6. run'[r] = new /\ \A p \in Processes \ {r} : run'[p] = run[p]
    BY <1>3, <1>5
<1>7. File(r)' = f
    BY <1>0, <1>4, <1>6 DEF File
<1> HIDE DEF new
<1>8. disk'[f] = Torn /\ \A g \in Files \ {f} : disk'[g] = disk[g]
    BY <1>2, <1>3, <1>5
<1>9. InstrumentType'
    <2>1. disk' \in [Files -> Contents]
        BY <1>3, <1>5 DEF Contents
    <2>2. \A g \in Files : disk'[g] \in Content(g)
        BY <1>5, <1>8 DEF Content
    <2>3. run' \in [Processes -> {NoRunning} \cup Running]
        BY <1>3, <1>4, <1>5
    <2>4. served' \in BOOLEAN
        BY <1>3
    <2>5. crossed' \in BOOLEAN
        BY DEF Open, InstrumentInv, InstrumentType
    <2> QED
        BY <1>3, <2>1, <2>2, <2>3, <2>4, <2>5 DEF InstrumentInv, InstrumentType
<1>10. PlanInv'
    <2>1. \A p \in Processes : run'[p].step \in {"open", "fill"} =>
            /\ run[p].step \in {"open", "fill"} /\ run'[p].plan = run[p].plan
            /\ run'[p].todo = run[p].todo /\ run'[p].version = run[p].version
        BY <1>1, <1>4, <1>6
    <2> QED
        BY <1>3, <2>1, PlansStay DEF InstrumentInv
<1>11. ServedInv'
    <2> SUFFICES ASSUME served', ~crossed'
                 PROVE  \E v \in Versions : Settled(v, disk["settings"])'
        BY DEF ServedInv
    <2>1. served /\ f # "settings"
        BY <1>3
    <2>2. disk'["settings"] = disk["settings"]
        BY <1>8, <2>1 DEF Files, Fixed
    <2>3. crossed' = crossed
        BY <1>0, <2>1 DEF Open
    <2>4. PICK v \in Versions : Settled(v, disk["settings"])
        BY <2>1, <2>3 DEF InstrumentInv, ServedInv
    <2> QED
        BY <2>2, <2>4
<1>12. TheirsKept'
    <2> SUFFICES ASSUME NEW x \in given' \ excused'
                 PROVE  x[2] \in TheirsIn(x[1], disk'[x[1]]) \/ \E p \in Processes : Filling(p, x[1])'
        BY DEF TheirsKept
    <2>1. CASE x[1] = f
        <3>1. Filling(r, f)'
            BY <1>4, <1>6, <1>7 DEF Filling
        <3> QED
            BY <2>1, <3>1
    <2>2. CASE x[1] # f
        <3>1. x[1] \in Files
            BY <1>3 DEF InstrumentInv, InstrumentType
        <3>2. disk'[x[1]] = disk[x[1]]
            BY <1>8, <2>2, <3>1
        <3>3. \A p \in Processes : Filling(p, x[1]) => Filling(p, x[1])'
            BY <1>1, <1>6 DEF Filling, File
        <3> QED
            BY <1>3, <3>2, <3>3 DEF InstrumentInv, TheirsKept
    <2> QED
        BY <2>1, <2>2
<1>13. CrossInv'
    <2> SUFFICES ASSUME NEW p \in Processes, NEW g \in Files, Crossing(p, g)'
                 PROVE  (GivenIn(g) \subseteq excused)' /\ (g = "settings" => crossed')
        BY DEF CrossInv
    <2>0. \A q \in Processes \ {r} : \A h : Filling(q, h)' <=> Filling(q, h)
        BY <1>6 DEF Filling, File
    <2>00. \A h : Filling(r, h)' => h = f
        BY <1>7 DEF Filling
    <2>1. CASE g = f
        <3>1. \E q \in Processes \ {r} : Filling(q, f)
            <4>1. disk'[f] = Torn
                BY <1>8
            <4>2. PICK q \in Processes \ {p} : Filling(q, f)'
                BY <2>1, <4>1 DEF Crossing
            <4>3. Filling(p, f)'
                BY <2>1 DEF Crossing
            <4>4. CASE p = r
                BY <4>2, <4>4, <2>0
            <4>5. CASE p # r
                BY <4>3, <4>5, <2>0
            <4> QED
                BY <4>4, <4>5
        <3>2. excused' = excused \cup GivenIn(f) /\ (f = "settings" => crossed')
            BY <1>0, <3>1 DEF Open
        <3> QED
            BY <1>3, <2>1, <3>2 DEF GivenIn
    <2>2. CASE g # f
        <3>1. p # r
            BY <2>2, <2>00 DEF Crossing
        <3>2. disk'[g] = disk[g]
            BY <1>8, <2>2
        <3>3. Filling(p, g)
            BY <2>0, <3>1 DEF Crossing
        <3>4. \A q \in Processes : Filling(q, g)' => Filling(q, g)
            BY <2>0, <2>00, <2>2
        <3>5. Crossing(p, g)
            BY <3>2, <3>3, <3>4 DEF Crossing
        <3>6. g = "settings" => crossed' = crossed
            BY <1>0, <2>2 DEF Open
        <3> QED
            BY <1>3, <3>5, <3>6 DEF InstrumentInv, CrossInv, GivenIn
    <2> QED
        BY <2>1, <2>2
<1> QED
    BY <1>9, <1>10, <1>11, <1>12, <1>13 DEF InstrumentInv

\* A step by which a run leaves its file, and nothing is written.
LEMMA LeavingKeeps ==
    ASSUME InstrumentInv, NEW r \in Processes, NEW n \in {NoRunning} \cup Running,
           n.step \in {"none", "read"}, run' = [run EXCEPT ![r] = n],
           UNCHANGED <<disk, given, crossed>>, excused \subseteq excused',
           run[r].step = "fill" => \A x \in given : x[1] = File(r) => x \in excused',
           served' \in BOOLEAN,
           served' /\ ~crossed => served \/ \E v \in Versions : Settled(v, disk["settings"])
    PROVE  InstrumentInv'
<1>1. run \in [Processes -> {NoRunning} \cup Running]
    BY DEF InstrumentInv, InstrumentType
<1>2. run'[r] = n /\ \A p \in Processes \ {r} : run'[p] = run[p]
    BY <1>1
<1>3. InstrumentType'
    BY <1>1 DEF InstrumentInv, InstrumentType
<1>4. PlanInv'
    <2>1. \A p \in Processes : run'[p].step \in {"open", "fill"} => run'[p] = run[p]
        BY <1>2
    <2>2. given' \ excused' \subseteq given \ excused
        OBVIOUS
    <2> QED
        BY <2>1, <2>2, PlansStay DEF InstrumentInv
<1>5. ServedInv'
    <2>1. served' /\ ~crossed => \E v \in Versions : Settled(v, disk["settings"])
        BY DEF InstrumentInv, ServedInv
    <2> QED
        BY <2>1 DEF ServedInv
<1>6. TheirsKept'
    <2> SUFFICES ASSUME NEW x \in given' \ excused'
                 PROVE  x[2] \in TheirsIn(x[1], disk'[x[1]]) \/ \E p \in Processes : Filling(p, x[1])'
        BY DEF TheirsKept
    <2>1. x \in given \ excused
        OBVIOUS
    <2>2. ~ Filling(r, x[1])
        BY DEF Filling
    <2>3. \A p \in Processes \ {r} : Filling(p, x[1]) => Filling(p, x[1])'
        BY <1>2 DEF Filling, File
    <2> QED
        BY <2>1, <2>2, <2>3 DEF InstrumentInv, TheirsKept
<1>7. CrossInv'
    <2>1. \A p \in Processes : \A f : Filling(p, f)' => Filling(p, f)
        BY <1>2 DEF Filling, File
    <2> QED
        BY <2>1, CrossStays DEF InstrumentInv
<1> QED
    BY <1>3, <1>4, <1>5, <1>6, <1>7 DEF InstrumentInv

LEMMA KillKeeps ==
    ASSUME InstrumentInv, NEW r \in Processes, Kill(r)
    PROVE  InstrumentInv'
<1>1. /\ run' = [run EXCEPT ![r] = NoRunning]
      /\ UNCHANGED <<disk, given, served, crossed>> /\ excused \subseteq excused'
    BY DEF Kill, NoRunning
<1>2. run[r].step = "fill" => \A x \in given : x[1] = File(r) => x \in excused'
    BY DEF Kill, GivenIn
<1>3. NoRunning.step = "none"
    BY DEF NoRunning
<1>4. served \in BOOLEAN
    BY DEF InstrumentInv, InstrumentType
<1> QED
    BY <1>1, <1>2, <1>3, <1>4, LeavingKeeps

\* What was given and is not excused is in the file a run reads, or the run excuses it.
LEMMA ReadKeeps ==
    ASSUME InstrumentInv, NEW r \in Processes, Read(r)
    PROVE  InstrumentInv'
<1>0. PICK f, plan : f = File(r) /\ plan = Plan(r, f, disk[f])
    OBVIOUS
<1>1. run[r].step = "read"
    BY DEF Read
<1>2. /\ f \in Files /\ run[r] \in Running
      /\ run[r].version \in Versions /\ run[r].store \in Stores \cup {NoStore}
    BY <1>0, <1>1, AtFile DEF InstrumentInv
<1>3. /\ run \in [Processes -> {NoRunning} \cup Running]
      /\ disk[f] \in Content(f) /\ served \in BOOLEAN
    BY <1>2 DEF InstrumentInv, InstrumentType
<1>4. /\ excused' = excused \cup (IF \E p \in Processes : Filling(p, f) THEN GivenIn(f) ELSE {})
      /\ UNCHANGED <<disk, given, crossed>>
    BY <1>0 DEF Read
<1>5. \/ f \in Json /\ disk[f] \in {Torn, Mixed} /\ run' = [run EXCEPT ![r] = [step |-> "none"]] /\ served' = served
      \/ ~ (f \in Json /\ disk[f] \in {Torn, Mixed}) /\ plan = disk[f] /\ Onward(r)
           /\ served' = (served \/ f = "settings")
      \/ ~ (f \in Json /\ disk[f] \in {Torn, Mixed}) /\ plan # disk[f] /\ served' = served
           /\ run' = [run EXCEPT ![r].step = "open", ![r].plan = plan]
    BY <1>0 DEF Read
<1>6. ~ (f \in Json /\ disk[f] \in {Torn, Mixed}) =>
        /\ plan \in {disk[f]} \cup Whole(f)
        /\ TheirsIn(f, disk[f]) \subseteq TheirsIn(f, plan)
        /\ f = "settings" => Settled(run[r].version, plan)
    BY <1>0, <1>2, <1>3, PlanKeeps
<1>7. CASE f \in Json /\ disk[f] \in {Torn, Mixed} /\ run' = [run EXCEPT ![r] = [step |-> "none"]] /\ served' = served
    <2>1. run' = [run EXCEPT ![r] = NoRunning] /\ NoRunning.step = "none"
        BY <1>7 DEF NoRunning
    <2> QED
        BY <1>1, <1>3, <1>4, <1>7, <2>1, LeavingKeeps
<1>8. CASE ~ (f \in Json /\ disk[f] \in {Torn, Mixed}) /\ plan = disk[f] /\ Onward(r)
             /\ served' = (served \/ f = "settings")
    <2>1. PICK n \in {NoRunning} \cup Running : run' = [run EXCEPT ![r] = n] /\ n.step \in {"none", "read"}
        BY <1>1, <1>8, OnwardTyped DEF InstrumentInv
    <2>2. f = "settings" => \E v \in Versions : Settled(v, disk["settings"])
        BY <1>2, <1>6, <1>8
    <2>3. served' \in BOOLEAN /\ (served' /\ ~crossed => served \/ \E v \in Versions : Settled(v, disk["settings"]))
        BY <1>3, <1>8, <2>2
    <2> QED
        BY <1>1, <1>4, <2>1, <2>3, LeavingKeeps
<1>9. CASE ~ (f \in Json /\ disk[f] \in {Torn, Mixed}) /\ plan # disk[f] /\ served' = served
             /\ run' = [run EXCEPT ![r].step = "open", ![r].plan = plan]
    <2> DEFINE new == [run[r] EXCEPT !.step = "open", !.plan = plan]
    <2>1. plan \in Whole(f) /\ plan \in Contents
        BY <1>2, <1>6, <1>9, ContentsTyped
    <2>2. /\ new \in Running /\ new.step = "open" /\ new.plan = plan
          /\ new.todo = run[r].todo /\ new.version = run[r].version
        BY <1>2, <2>1 DEF Running
    <2>3. run' = [run EXCEPT ![r] = new]
        BY <1>3, <1>9
    <2> HIDE DEF new
    <2>4. run'[r] = new /\ \A p \in Processes \ {r} : run'[p] = run[p]
        BY <1>3, <2>3
    <2>5. File(r)' = f
        BY <1>0, <2>2, <2>4 DEF File
    <2>6. InstrumentType'
        <3>1. run' \in [Processes -> {NoRunning} \cup Running]
            BY <1>3, <2>2, <2>3
        <3> QED
            BY <1>4, <1>9, <3>1 DEF InstrumentInv, InstrumentType
    <2>7. ASSUME NEW x \in given' \ excused', x[1] = f
          PROVE  x[2] \in TheirsIn(f, plan)
        <3>1. x \in given \ excused
            BY <1>4
        <3>2. \A p \in Processes : ~ Filling(p, f)
            BY <1>4, <2>7 DEF GivenIn
        <3>3. x[2] \in TheirsIn(f, disk[f])
            BY <2>7, <3>1, <3>2 DEF InstrumentInv, TheirsKept
        <3> QED
            BY <1>6, <1>9, <3>3
    <2>8. PlanInv'
        <3> SUFFICES ASSUME NEW p \in Processes, run'[p].step \in {"open", "fill"}
                     PROVE  /\ run'[p].plan \in Whole(File(p)')
                            /\ \A x \in given' \ excused' :
                                 x[1] = File(p)' => x[2] \in TheirsIn(File(p)', run'[p].plan)
                            /\ File(p)' = "settings" => Settled(run'[p].version, run'[p].plan)
            BY DEF PlanInv
        <3>1. CASE p = r
            BY <1>6, <1>9, <2>1, <2>2, <2>4, <2>5, <2>7, <3>1
        <3>2. CASE p # r
            <4>1. run'[p] = run[p] /\ File(p)' = File(p)
                BY <2>4, <3>2 DEF File
            <4>2. given' \ excused' \subseteq given \ excused
                BY <1>4
            <4> QED
                BY <4>1, <4>2 DEF InstrumentInv, PlanInv
        <3> QED
            BY <3>1, <3>2
    <2>9. ServedInv'
        BY <1>4, <1>9 DEF InstrumentInv, ServedInv
    <2>10. TheirsKept'
        <3>1. \A p \in Processes : \A g : Filling(p, g) => Filling(p, g)'
            BY <1>1, <2>4 DEF Filling, File
        <3> QED
            BY <1>4, <3>1 DEF InstrumentInv, TheirsKept
    <2>11. CrossInv'
        <3>1. \A p \in Processes : \A g : Filling(p, g)' => Filling(p, g)
            BY <1>1, <2>2, <2>4 DEF Filling, File
        <3> QED
            BY <1>4, <3>1, CrossStays DEF InstrumentInv
    <2> QED
        BY <2>6, <2>8, <2>9, <2>10, <2>11 DEF InstrumentInv
<1> QED
    BY <1>5, <1>7, <1>8, <1>9

LEMMA FillKeeps ==
    ASSUME InstrumentInv, NEW r \in Processes, Fill(r)
    PROVE  InstrumentInv'
<1>0. PICK f, plan : f = File(r) /\ plan = run[r].plan
    OBVIOUS
<1>1. run[r].step = "fill"
    BY DEF Fill
<1>2. f \in Files /\ run[r].version \in Versions
    BY <1>0, <1>1, AtFile DEF InstrumentInv
<1>3. PICK c \in Landed(plan, disk[f]) :
      /\ disk' = [disk EXCEPT ![f] = c]
      /\ served' = (served \/ f = "settings")
      /\ Onward(r)
      /\ UNCHANGED <<given, excused, crossed>>
    BY <1>0 DEF Fill
<1>4. PICK n \in {NoRunning} \cup Running : run' = [run EXCEPT ![r] = n] /\ n.step \in {"none", "read"}
    BY <1>1, <1>3, OnwardTyped DEF InstrumentInv
<1>5. /\ plan \in Whole(f)
      /\ \A x \in given \ excused : x[1] = f => x[2] \in TheirsIn(f, plan)
      /\ f = "settings" => Settled(run[r].version, plan)
    BY <1>0, <1>1 DEF InstrumentInv, PlanInv
<1>6. /\ run \in [Processes -> {NoRunning} \cup Running]
      /\ disk \in [Files -> Contents] /\ \A g \in Files : disk[g] \in Content(g)
    BY DEF InstrumentInv, InstrumentType
<1>7. run'[r] = n /\ \A p \in Processes \ {r} : run'[p] = run[p]
    BY <1>4, <1>6
<1>8. disk'[f] = c /\ \A g \in Files \ {f} : disk'[g] = disk[g]
    BY <1>2, <1>3, <1>6
<1>14. Filling(r, f)
    BY <1>0, <1>1 DEF Filling
<1>15. c = plan \/ (c = Mixed /\ disk[f] # Torn)
    BY <1>3 DEF Landed
<1>16. c \in Content(f) /\ c \in Contents
    BY <1>2, <1>5, <1>15, ContentsTyped DEF Content, Contents
<1>17. c # plan => GivenIn(f) \subseteq excused /\ (f = "settings" => crossed)
    BY <1>2, <1>14, <1>15 DEF InstrumentInv, CrossInv, Crossing
<1>9. InstrumentType'
    <2>1. disk' \in [Files -> Contents]
        BY <1>2, <1>3, <1>6, <1>16
    <2>2. \A g \in Files : disk'[g] \in Content(g)
        BY <1>6, <1>8, <1>16
    <2>3. run' \in [Processes -> {NoRunning} \cup Running]
        BY <1>4, <1>6
    <2>4. served' \in BOOLEAN
        BY <1>3
    <2> QED
        BY <1>3, <2>1, <2>2, <2>3, <2>4 DEF InstrumentInv, InstrumentType
<1>10. PlanInv'
    <2>1. \A p \in Processes : run'[p].step \in {"open", "fill"} => run'[p] = run[p]
        BY <1>4, <1>7
    <2> QED
        BY <1>3, <2>1, PlansStay DEF InstrumentInv
<1>11. ServedInv'
    <2> SUFFICES ASSUME served', ~crossed'
                 PROVE  \E v \in Versions : Settled(v, disk["settings"])'
        BY DEF ServedInv
    <2>1. CASE f = "settings"
        BY <1>2, <1>3, <1>5, <1>8, <1>17, <2>1
    <2>2. CASE f # "settings"
        <3>1. disk'["settings"] = disk["settings"]
            BY <1>8, <2>2 DEF Files, Fixed
        <3>2. PICK v \in Versions : Settled(v, disk["settings"])
            BY <1>3, <2>2 DEF InstrumentInv, ServedInv
        <3> QED
            BY <3>1, <3>2
    <2> QED
        BY <2>1, <2>2
<1>12. TheirsKept'
    <2> SUFFICES ASSUME NEW x \in given' \ excused'
                 PROVE  x[2] \in TheirsIn(x[1], disk'[x[1]]) \/ \E p \in Processes : Filling(p, x[1])'
        BY DEF TheirsKept
    <2>1. CASE x[1] = f
        <3>1. c = plan
            BY <1>3, <1>17, <2>1 DEF GivenIn
        <3> QED
            BY <1>3, <1>5, <1>8, <2>1, <3>1
    <2>2. CASE x[1] # f
        <3>1. x[1] \in Files
            BY <1>3 DEF InstrumentInv, InstrumentType
        <3>2. disk'[x[1]] = disk[x[1]]
            BY <1>8, <2>2, <3>1
        <3>3. \A p \in Processes : Filling(p, x[1]) => p # r
            BY <1>0, <2>2 DEF Filling
        <3>4. \A p \in Processes : Filling(p, x[1]) => Filling(p, x[1])'
            BY <1>7, <3>3 DEF Filling, File
        <3> QED
            BY <1>3, <3>2, <3>4 DEF InstrumentInv, TheirsKept
    <2> QED
        BY <2>1, <2>2
<1>13. CrossInv'
    <2> SUFFICES ASSUME NEW p \in Processes, NEW g \in Files, Crossing(p, g)'
                 PROVE  (GivenIn(g) \subseteq excused)' /\ (g = "settings" => crossed')
        BY DEF CrossInv
    <2>0. \A q \in Processes : run'[q].step = "fill" => q # r /\ run'[q] = run[q]
        BY <1>4, <1>7
    <2>1. run'[p].step = "fill"
        BY DEF Crossing, Filling
    <2>2. \A q \in Processes : Filling(q, g)' => q # r /\ Filling(q, g)
        BY <2>0 DEF Filling, File
    <2>3. p # r /\ Filling(p, g)
        BY <2>0, <2>1, <2>2 DEF Crossing
    <2>4. Crossing(p, g)
        <3>1. CASE g = f
            BY <1>14, <2>3, <3>1 DEF Crossing
        <3>2. CASE g # f
            <4>1. disk'[g] = disk[g]
                BY <1>8, <3>2
            <4>2. disk'[g] # Torn \/ \E q \in Processes \ {p} : Filling(q, g)'
                BY DEF Crossing
            <4> QED
                BY <2>2, <2>3, <4>1, <4>2 DEF Crossing
        <3> QED
            BY <3>1, <3>2
    <2> QED
        BY <1>3, <2>4 DEF InstrumentInv, CrossInv, GivenIn
<1> QED
    BY <1>9, <1>10, <1>11, <1>12, <1>13 DEF InstrumentInv

-----------------------------------------------------------------------------
(* What other people do *)

\* A hook of theirs changes nothing of ours in an event's entries, and what was there stays.
LEMMA WithHookKeeps ==
    ASSUME NEW e \in Events, NEW entries \in Seq(Entry), NEW x \in Theirs,
           NEW i \in 0 .. Len(entries)
    PROVE  /\ WithHook(entries, e, x, i) \in Seq(Entry)
           /\ \A a \in Events, v \in Versions : IsCurrent(v, a, entries) => IsCurrent(v, a, WithHook(entries, e, x, i))
           /\ \A y \in Theirs, j \in DOMAIN entries : y \in entries[j].hooks =>
                \E k \in DOMAIN WithHook(entries, e, x, i) : y \in WithHook(entries, e, x, i)[k].hooks
           /\ \E k \in DOMAIN WithHook(entries, e, x, i) : x \in WithHook(entries, e, x, i)[k].hooks
<1>1. PICK W : W = WithHook(entries, e, x, i)
    OBVIOUS
<1>2. \A a \in Events : x \notin OursFor(a)
    BY InstrumentAssumption DEF InstrumentAssumption
<1>3. DOMAIN entries = 1 .. Len(entries) /\ Len(entries) \in Nat /\ \A j \in DOMAIN entries : entries[j] \in Entry
    OBVIOUS
<1>4. /\ W \in Seq(Entry) /\ DOMAIN entries \subseteq DOMAIN W
      /\ \A j \in DOMAIN entries : /\ W[j].matcher = entries[j].matcher
                                   /\ W[j].hooks \in {entries[j].hooks, entries[j].hooks \cup {x}}
      /\ \A j \in DOMAIN W \ DOMAIN entries : W[j].hooks = {x}
      /\ \E k \in DOMAIN W : x \in W[k].hooks
    <2>1. CASE i = 0
        <3> DEFINE m == Matcher[CHOOSE v \in Versions : TRUE][e]
                   n == [matcher |-> m, hooks |-> {x}]
        <3>1. (CHOOSE v \in Versions : TRUE) \in Versions
            BY InstrumentAssumption DEF InstrumentAssumption
        <3>2. m \in Matchers
            BY <3>1, InstrumentAssumption DEF InstrumentAssumption
        <3>3. n \in Entry /\ n.hooks = {x}
            <4> HIDE DEF m
            <4> QED
                BY <3>2 DEF Entry
        <3>4. W = Append(entries, n)
            BY <1>1, <2>1 DEF WithHook
        <3> HIDE DEF n
        <3>5. /\ W \in Seq(Entry) /\ DOMAIN W = DOMAIN entries \cup {Len(entries) + 1}
              /\ W[Len(entries) + 1] = n /\ \A j \in DOMAIN entries : W[j] = entries[j]
            BY <3>3, <3>4, <1>3
        <3> QED
            BY <3>3, <3>5
    <2>2. CASE i # 0
        <3> DEFINE n == [entries[i] EXCEPT !.hooks = @ \cup {x}]
        <3>1. i \in DOMAIN entries
            BY <1>3, <2>2
        <3>2. /\ n \in Entry /\ n.hooks = entries[i].hooks \cup {x}
              /\ n.matcher = entries[i].matcher
            BY <1>3, <3>1 DEF Entry
        <3>3. W = [entries EXCEPT ![i] = n]
            BY <1>1, <2>2 DEF WithHook
        <3> HIDE DEF n
        <3>4. /\ W \in Seq(Entry) /\ DOMAIN W = DOMAIN entries
              /\ W[i] = n /\ \A j \in DOMAIN entries \ {i} : W[j] = entries[j]
            BY <1>3, <3>1, <3>2, <3>3
        <3> QED
            BY <3>1, <3>2, <3>4
    <2> QED
        BY <2>1, <2>2
<1>5. ASSUME NEW a \in Events
      PROVE  OurHooks(W, a) = OurHooks(entries, a)
    <2>1. \A j \in DOMAIN entries : W[j].hooks \cap OursFor(a) = entries[j].hooks \cap OursFor(a)
        BY <1>2, <1>4
    <2>2. \A j \in DOMAIN W \ DOMAIN entries : W[j].hooks \cap OursFor(a) = {}
        BY <1>2, <1>4
    <2> QED
        BY <1>4, <2>1, <2>2 DEF OurHooks
<1>6. ASSUME NEW a \in Events, NEW v \in Versions, IsCurrent(v, a, entries)
      PROVE  IsCurrent(v, a, W)
    <2>1. PICK o \in OurHooks(entries, a) :
            OurHooks(entries, a) = {o} /\ o[2] = Hook(v, a) /\ entries[o[1]].matcher = Matcher[v][a]
        BY <1>6 DEF IsCurrent
    <2>2. o[1] \in DOMAIN entries
        BY DEF OurHooks
    <2>3. W[o[1]].matcher = Matcher[v][a]
        BY <1>4, <2>1, <2>2
    <2> QED
        BY <1>5, <2>1, <2>3 DEF IsCurrent
<1>7. \A y \in Theirs, j \in DOMAIN entries : y \in entries[j].hooks => \E k \in DOMAIN W : y \in W[k].hooks
    BY <1>4
<1> QED
    BY <1>1, <1>4, <1>6, <1>7

\* What an edit makes of a file: a file of its kind, with what was there and what is added.
\* Somebody who rewrites a skill replaces its body; of settings.json our hooks stay.
LEMMA EditedKeeps ==
    ASSUME NEW f \in Files, NEW x \in Theirs, NEW c \in Whole(f), NEW d \in EditedAs(f, x, c),
           f \in ToSet(Managed) => c.body \notin Theirs
    PROVE  /\ d \in Whole(f) /\ x \in TheirsIn(f, d) /\ TheirsIn(f, c) \subseteq TheirsIn(f, d)
           /\ f = "settings" => \A v \in Versions : Settled(v, c) => Settled(v, d)
<1>1. CASE f = "settings"
    <2>1. c \in SettingsFile
        BY <1>1, WholeKinds
    <2>0. PICK e \in Events : \E i \in 0 .. Len(c.hooks[e]) :
              d = [c EXCEPT !.hooks[e] = WithHook(c.hooks[e], e, x, i)]
        BY <1>1, ManagedIsNoFixed DEF EditedAs, Fixed
    <2>2. PICK i \in 0 .. Len(c.hooks[e]) : d = [c EXCEPT !.hooks[e] = WithHook(c.hooks[e], e, x, i)]
        BY <2>0
    <2>3. PICK H : H = c.hooks
        OBVIOUS
    <2>4. H \in [Events -> Seq(Entry)]
        BY <2>1, <2>3 DEF SettingsFile
    <2>5. PICK W : W = WithHook(H[e], e, x, i)
        OBVIOUS
    <2>6. /\ W \in Seq(Entry)
          /\ \A a \in Events, v \in Versions : IsCurrent(v, a, H[e]) => IsCurrent(v, a, W)
          /\ \A y \in Theirs, j \in DOMAIN H[e] : y \in H[e][j].hooks => \E k \in DOMAIN W : y \in W[k].hooks
          /\ \E k \in DOMAIN W : x \in W[k].hooks
        <3>1. H[e] \in Seq(Entry) /\ i \in 0 .. Len(H[e])
            BY <2>2, <2>3, <2>4
        <3> QED
            BY <2>5, <3>1, WithHookKeeps
    <2>7. d = [kind |-> "whole", hooks |-> [H EXCEPT ![e] = W]]
        BY <2>1, <2>2, <2>3, <2>5 DEF SettingsFile
    <2>8. d \in SettingsFile /\ d.hooks[e] = W /\ \A a \in Events \ {e} : d.hooks[a] = H[a]
        BY <2>4, <2>6, <2>7 DEF SettingsFile
    <2>9. x \in TheirsIn("settings", d)
        BY <2>6, <2>8, InSettings
    <2>10. ASSUME NEW y \in TheirsIn("settings", c)
           PROVE  y \in TheirsIn("settings", d)
        <3>1. y \in Theirs
            BY <2>1, InSettings
        <3>2. PICK a \in Events : \E j \in DOMAIN H[a] : y \in H[a][j].hooks
            BY <2>1, <2>3, InSettings
        <3>3. \E k \in DOMAIN d.hooks[a] : y \in d.hooks[a][k].hooks
            BY <2>6, <2>8, <3>1, <3>2
        <3> QED
            BY <2>8, <3>1, <3>3, InSettings
    <2>11. ASSUME NEW v \in Versions, Settled(v, c)
           PROVE  Settled(v, d)
        <3>1. \A a \in Events : IsCurrent(v, a, d.hooks[a])
            BY <2>3, <2>6, <2>8, <2>11 DEF Settled
        <3> QED
            BY <2>8, <3>1 DEF Settled
    <2> QED
        BY <1>1, <2>8, <2>9, <2>10, <2>11, WholeKinds
<1>2. CASE f \in ToSet(Managed)
    <2>1. f # "settings" /\ c \in SkillFile
        BY <1>2, ManagedIsNoFixed, WholeKinds DEF Fixed
    <2>2. d = [c EXCEPT !.body = x]
        BY <1>2, <2>1 DEF EditedAs
    <2>3. d \in SkillFile /\ d.body = x
        BY <2>1, <2>2 DEF SkillFile
    <2>4. TheirsIn(f, c) = {} /\ TheirsIn(f, d) = {x}
        BY <1>2, <2>1, <2>3, InSkill
    <2> QED
        BY <1>2, <2>1, <2>3, <2>4, WholeKinds
<1>3. CASE f \in Fixed \ {"settings"}
    <2>1. f \notin ToSet(Managed) /\ c \in SharedFile
        BY <1>3, ManagedIsNoFixed, WholeKinds
    <2>2. d = [c EXCEPT !.theirs = @ \cup {x}]
        BY <1>3, <2>1 DEF EditedAs
    <2>3. d \in SharedFile /\ d.theirs = c.theirs \cup {x}
        BY <2>1, <2>2 DEF SharedFile
    <2>4. TheirsIn(f, c) = c.theirs /\ TheirsIn(f, d) = d.theirs
        BY <1>3, <2>1, <2>3, InShared
    <2> QED
        BY <1>3, <2>1, <2>3, <2>4, WholeKinds
<1> QED
    BY <1>1, <1>2, <1>3 DEF Files

LEMMA EditKeeps ==
    ASSUME InstrumentInv, NEW f \in Files, NEW x \in Theirs, Edit(f, x)
    PROVE  InstrumentInv'
<1>1. /\ disk[f].kind = "whole"
      /\ f \in ToSet(Managed) => disk[f].body \notin Theirs
      /\ given' = given \cup {<<f, x>>}
      /\ excused' = excused \cup (IF \E r \in Processes : Pending(r, f) THEN {<<f, x>>} ELSE {})
      /\ UNCHANGED <<run, served, crossed>>
    BY DEF Edit
<1>2. PICK d \in EditedAs(f, x, disk[f]) : disk' = [disk EXCEPT ![f] = d]
    BY DEF Edit
<1>3. disk \in [Files -> Contents] /\ \A g \in Files : disk[g] \in Content(g)
    BY DEF InstrumentInv, InstrumentType
<1>4. disk[f] \in Whole(f)
    <2>1. Absent.kind # "whole" /\ Torn.kind # "whole" /\ Mixed.kind # "whole"
        BY DEF Absent, Torn, Mixed
    <2> QED
        BY <1>1, <1>3, <2>1 DEF Content
<1>5. /\ d \in Whole(f) /\ x \in TheirsIn(f, d) /\ TheirsIn(f, disk[f]) \subseteq TheirsIn(f, d)
      /\ f = "settings" => \A v \in Versions : Settled(v, disk[f]) => Settled(v, d)
    BY <1>1, <1>4, EditedKeeps
<1>6. disk'[f] = d /\ \A g \in Files \ {f} : disk'[g] = disk[g]
    BY <1>2, <1>3
<1>7. InstrumentType'
    <2>1. disk' \in [Files -> Contents]
        BY <1>2, <1>3, <1>5, ContentsTyped
    <2>2. \A g \in Files : disk'[g] \in Content(g)
        BY <1>3, <1>5, <1>6 DEF Content
    <2>3. given' \subseteq Files \X Theirs
        BY <1>1 DEF InstrumentInv, InstrumentType
    <2> QED
        BY <1>1, <2>1, <2>2, <2>3 DEF InstrumentInv, InstrumentType
<1>8. ASSUME NEW y \in given' \ excused'
      PROVE  y \in given \ excused \/ (y = <<f, x>> /\ ~ \E r \in Processes : Pending(r, f))
    BY <1>1
<1>9. PlanInv'
    <2> SUFFICES ASSUME NEW p \in Processes, run[p].step \in {"open", "fill"}
                 PROVE  /\ run[p].plan \in Whole(File(p))
                        /\ \A y \in given' \ excused' :
                             y[1] = File(p) => y[2] \in TheirsIn(File(p), run[p].plan)
                        /\ File(p) = "settings" => Settled(run[p].version, run[p].plan)
        BY <1>1 DEF PlanInv, File
    <2>1. ASSUME NEW y \in given' \ excused', y[1] = File(p)
          PROVE  y \in given \ excused
        <3>1. CASE y = <<f, x>> /\ ~ \E r \in Processes : Pending(r, f)
            <4>1. File(p) = f
                BY <2>1, <3>1
            <4>2. Pending(p, f)
                BY <4>1 DEF Pending
            <4> QED
                BY <3>1, <4>2
        <3> QED
            BY <1>8, <3>1
    <2> QED
        BY <2>1 DEF InstrumentInv, PlanInv
<1>10. ServedInv'
    <2> SUFFICES ASSUME served, ~crossed
                 PROVE  \E v \in Versions : Settled(v, disk'["settings"])
        BY <1>1 DEF ServedInv
    <2>1. PICK v \in Versions : Settled(v, disk["settings"])
        BY DEF InstrumentInv, ServedInv
    <2>2. CASE f = "settings"
        BY <1>5, <1>6, <2>1, <2>2
    <2>3. CASE f # "settings"
        BY <1>6, <2>1, <2>3 DEF Files, Fixed
    <2> QED
        BY <2>2, <2>3
<1>11. TheirsKept'
    <2> SUFFICES ASSUME NEW y \in given' \ excused'
                 PROVE  y[2] \in TheirsIn(y[1], disk'[y[1]]) \/ \E p \in Processes : Filling(p, y[1])
        BY <1>1 DEF TheirsKept, Filling, File
    <2>1. CASE y = <<f, x>>
        BY <1>5, <1>6, <2>1
    <2>2. CASE y \in given \ excused
        <3>1. y[1] \in Files
            BY <2>2 DEF InstrumentInv, InstrumentType
        <3>2. y[2] \in TheirsIn(y[1], disk[y[1]]) \/ \E p \in Processes : Filling(p, y[1])
            BY <2>2 DEF InstrumentInv, TheirsKept
        <3>3. TheirsIn(y[1], disk[y[1]]) \subseteq TheirsIn(y[1], disk'[y[1]])
            BY <1>5, <1>6, <3>1
        <3> QED
            BY <3>2, <3>3
    <2> QED
        BY <1>8, <2>1, <2>2
<1>12. CrossInv'
    <2> SUFFICES ASSUME NEW p \in Processes, NEW g \in Files, Crossing(p, g)'
                 PROVE  (GivenIn(g) \subseteq excused)' /\ (g = "settings" => crossed')
        BY DEF CrossInv
    <2>1. \A q \in Processes : \A h : Filling(q, h)' <=> Filling(q, h)
        BY <1>1 DEF Filling, File
    <2>2. disk[g] = Torn => disk'[g] = Torn
        <3>1. disk[f] # Torn
            BY <1>4, KindsDiffer
        <3> QED
            BY <1>6, <3>1
    <2>3. Crossing(p, g)
        BY <2>1, <2>2 DEF Crossing
    <2>4. GivenIn(g) \subseteq excused /\ (g = "settings" => crossed)
        BY <2>3 DEF InstrumentInv, CrossInv
    <2>5. Pending(p, g)
        BY <2>3 DEF Crossing, Filling, Pending
    <2>6. ASSUME NEW y \in given', y[1] = g
          PROVE  y \in excused'
        <3>1. CASE y \in given
            BY <1>1, <2>4, <2>6, <3>1 DEF GivenIn
        <3>2. CASE y = <<f, x>>
            BY <1>1, <2>5, <2>6, <3>2
        <3> QED
            BY <1>1, <3>1, <3>2
    <2> QED
        BY <1>1, <2>4, <2>6 DEF GivenIn
<1> QED
    BY <1>7, <1>9, <1>10, <1>11, <1>12 DEF InstrumentInv

LEMMA DeleteKeeps ==
    ASSUME InstrumentInv, NEW f \in Files, Delete(f)
    PROVE  InstrumentInv'
<1>1. /\ disk[f] \in {Torn, Mixed} /\ \A r \in Processes : ~ Filling(r, f)
      /\ disk' = [disk EXCEPT ![f] = Absent]
      /\ UNCHANGED <<run, given, excused, served, crossed>>
    BY DEF Delete
<1>2. disk \in [Files -> Contents] /\ \A g \in Files : disk[g] \in Content(g)
    BY DEF InstrumentInv, InstrumentType
<1>3. disk'[f] = Absent /\ \A g \in Files \ {f} : disk'[g] = disk[g]
    BY <1>1, <1>2
<1>4. InstrumentType'
    <2>1. disk' \in [Files -> Contents]
        BY <1>1, <1>2 DEF Contents
    <2>2. \A g \in Files : disk'[g] \in Content(g)
        BY <1>2, <1>3 DEF Content
    <2> QED
        BY <1>1, <2>1, <2>2 DEF InstrumentInv, InstrumentType
<1>5. PlanInv'
    BY <1>1 DEF InstrumentInv, PlanInv, File
<1>6. ServedInv'
    <2> SUFFICES ASSUME served, ~crossed
                 PROVE  \E v \in Versions : Settled(v, disk'["settings"])
        BY <1>1 DEF ServedInv
    <2>1. PICK v \in Versions : Settled(v, disk["settings"])
        BY DEF InstrumentInv, ServedInv
    <2>2. f # "settings"
        <3>1. disk["settings"] \notin {Torn, Mixed}
            BY <2>1, WholeKinds, KindsDiffer DEF Settled
        <3> QED
            BY <1>1, <3>1
    <2> QED
        BY <1>3, <2>1, <2>2 DEF Files, Fixed
<1>7. TheirsKept'
    <2> SUFFICES ASSUME NEW y \in given \ excused
                 PROVE  y[2] \in TheirsIn(y[1], disk'[y[1]]) \/ \E p \in Processes : Filling(p, y[1])
        BY <1>1 DEF TheirsKept, Filling, File
    <2>1. y[1] \in Files
        BY DEF InstrumentInv, InstrumentType
    <2>2. y[2] \in TheirsIn(y[1], disk[y[1]]) \/ \E p \in Processes : Filling(p, y[1])
        BY DEF InstrumentInv, TheirsKept
    <2>3. y[1] # f \/ \E p \in Processes : Filling(p, y[1])
        BY <1>1, <2>2, NothingIn
    <2> QED
        BY <1>3, <2>1, <2>2, <2>3
<1>8. CrossInv'
    <2> SUFFICES ASSUME NEW p \in Processes, NEW g \in Files, Crossing(p, g)'
                 PROVE  (GivenIn(g) \subseteq excused)' /\ (g = "settings" => crossed')
        BY DEF CrossInv
    <2>1. \A q \in Processes : \A h : Filling(q, h)' <=> Filling(q, h)
        BY <1>1 DEF Filling, File
    <2>2. g # f
        BY <1>1, <2>1 DEF Crossing
    <2>3. Crossing(p, g)
        BY <1>3, <2>1, <2>2 DEF Crossing
    <2> QED
        BY <1>1, <2>3 DEF InstrumentInv, CrossInv, GivenIn
<1> QED
    BY <1>4, <1>5, <1>6, <1>7, <1>8 DEF InstrumentInv

LEMMA InstrumentStep ==
    ASSUME InstrumentInv, [InstrumentNext]_instrumentVars
    PROVE  InstrumentInv'
<1>1. CASE \E r \in Processes, command \in {"init", "instrument", "sync"}, v \in Versions,
              store \in Stores \cup {NoStore}, dump \in BOOLEAN : Start(r, command, v, store, dump)
    BY <1>1, StartKeeps
<1>2. CASE \E r \in Processes : Read(r) \/ Open(r) \/ Fill(r) \/ Kill(r)
    BY <1>2, ReadKeeps, OpenKeeps, FillKeeps, KillKeeps
<1>3. CASE \E f \in Files, x \in Theirs : Edit(f, x)
    BY <1>3, EditKeeps
<1>4. CASE \E f \in Files : Delete(f)
    BY <1>4, DeleteKeeps
<1>5. CASE UNCHANGED instrumentVars
    BY <1>5 DEF instrumentVars, InstrumentInv, InstrumentType, PlanInv, ServedInv, CrossInv, Crossing,
                GivenIn, TheirsKept, Filling, File
<1> QED
    BY <1>1, <1>2, <1>3, <1>4, <1>5 DEF InstrumentNext

LEMMA InstrumentInvariant == InstrumentSpec => []InstrumentInv
    BY InstrumentStarts, InstrumentStep, PTL DEF InstrumentSpec

\* A file is never of the wrong kind: nothing, truncated, or a whole file of its own shape.
THEOREM InstrumentTyped == InstrumentSpec => []InstrumentType
<1>1. InstrumentInv => InstrumentType
    BY DEF InstrumentInv
<1> QED
    BY InstrumentInvariant, <1>1, PTL

\* Installs and upgrades, of any versions and wherever they die, keep what other people put
\* in the files, but for what is excused: what came behind a run's read, was read
\* half-written, or was in a file whose writer died or that two runs wrote at once.
THEOREM InstallsKeepTheirs == InstrumentSpec => []TheirsKept
<1>1. InstrumentInv => TheirsKept
    BY DEF InstrumentInv
<1> QED
    BY InstrumentInvariant, <1>1, PTL

\* Once a run has passed settings.json, and no two of them wrote it at once, each event has
\* one hook of ours, of one version.
THEOREM OneHookPerEvent == InstrumentSpec => []OneHookEach
<1>1. InstrumentInv => OneHookEach
    BY DEF InstrumentInv, ServedInv, Settled, OneHookEach
<1> QED
    BY InstrumentInvariant, <1>1, PTL

\* _merge_hook_entries leaves one hook of ours, the version's own, whatever the entries were,
\* and no hook of others is lost.
THEOREM MergeSettles ==
    ASSUME NEW v \in Versions, NEW e \in Events, NEW entries \in Seq(Entry)
    PROVE  /\ IsCurrent(v, e, Refreshed(v, e, entries))
           /\ \A x \in Theirs, i \in DOMAIN entries : x \in entries[i].hooks =>
                \E j \in DOMAIN Refreshed(v, e, entries) : x \in Refreshed(v, e, entries)[j].hooks
    BY RefreshedKeeps
=============================================================================
