------------------------------- MODULE Replay -------------------------------
(***************************************************************************)
(* run_replay (replay.py) over the tmux backend (backends.py): each        *)
(* condition of a manifest gets a git worktree and branch off a snapshot,  *)
(* an agent in a detached tmux session, and a harvest of what the agent    *)
(* committed or reported.  Conditions of a run share a pool of threads;    *)
(* runs share the repository, the tmux server and, maybe, the output       *)
(* directory; a signal sweeps a run away while its threads go on.          *)
(***************************************************************************)
EXTENDS Naturals, Sequences, FiniteSets, SequencesExt

CONSTANTS
    Runs,
    Conditions,     \* condition ids
    Malformed,      \* conditions that are no dictionary, have an unsafe id, or include
                    \* a fragment the manifest lacks
    MaxConditions,  \* --max-conditions
    Parallel,       \* --parallel
    RunIds,         \* run ids: the second a run starts in
    Plans,          \* the possible choices of [id, manifest], a run id and the
                    \* conditions of each run, in order (none: the file is unreadable)
    OutDirs,        \* output directories: [dir, fresh] as given to a run
    NoRun, Before,  \* nobody; an earlier run
    Signals         \* runs that may be signalled

ASSUME ReplayAssumption ==
    /\ Plans \subseteq [id : [Runs -> RunIds], manifest : [Runs -> Seq(Conditions)]]
    /\ Parallel \in Nat \ {0} /\ MaxConditions \in Nat
    /\ Malformed \subseteq Conditions
    /\ OutDirs \subseteq [Runs -> {"own", "reused"}]
    /\ NoRun \notin Runs /\ Before \notin Runs \cup {NoRun}
    /\ RunIds \cap Runs = {}
    /\ Signals \subseteq Runs

VARIABLES
    id,         \* each run's run id
    out,        \* whether its output directory is its own or one used before
    mode,       \* each run: "running", its steps under a signal, "over" or "dead"
    pc,         \* each condition of each run
    lock,       \* _WORKTREE_LOCK of each process: the condition holding it
    dirs,       \* worktree directories: <<run, condition>>
    table,      \* git's table of worktrees
    branch,     \* the branches: <<run id, condition>> and the run whose worktree has it
    session,    \* the tmux session of a condition's name: the run that made it
    head,       \* commits on a worktree's branch: "snapshot", "frozen" or "agent"
    base,       \* spec.base_commit
    report,     \* report.txt of a condition in an output directory: who wrote it
    record,     \* status and completed_by, as far as they are known
    (* History *)
    raced       \* worktrees that were being added while their run was swept

vars == <<id, out, mode, pc, lock, dirs, table, branch, session, head, base, report, record, raced>>
gitVars == <<dirs, table, branch>>
specVars == <<head, base, report, record>>
still == <<id, out, raced>>

All == Runs \X Conditions
Name(x) == <<id[x[1]], x[2]>>

\* By default the output directory is named for the run id.
Place(x) == IF out[x[1]] = "own" THEN Name(x) ELSE x
Places == (RunIds \cup Runs) \X Conditions

\* load_manifest, with _parse_conditions and _safe_id, and the cap.
Accepted(m) ==
    /\ m # <<>> /\ Len(m) <= MaxConditions
    /\ ToSet(m) \cap Malformed = {}
    /\ IsInjective(m)

\* Whatever can be refused is, by the manifest, the snapshot ref or the backend's
\* preflight, before the first worktree.
Starts(m) == IF Accepted(m) THEN {"running", "over"} ELSE {"over"}

Init ==
    /\ \E p \in Plans :
         /\ id = p.id
         /\ mode \in {f \in [Runs -> {"running", "over"}] : \A r \in Runs : f[r] \in Starts(p.manifest[r])}
         /\ pc = [x \in All |-> IF mode[x[1]] = "running" /\ x[2] \in ToSet(p.manifest[x[1]])
                                THEN "queued" ELSE "done"]
    /\ out \in OutDirs
    /\ lock = [r \in Runs |-> {}]
    /\ dirs = {} /\ table = {} /\ branch = {}
    /\ session = [c \in Conditions |-> NoRun]
    /\ head = [x \in All |-> "snapshot"]
    /\ base = [x \in All |-> "snapshot"]
    /\ report = [p \in Places |-> IF p[1] \in Runs THEN Before ELSE NoRun]
    /\ record = [x \in All |-> "none"]
    /\ raced = {}

Goto(x, step) == pc' = [pc EXCEPT ![x] = step]
Fail(x) == record' = [record EXCEPT ![x] = "error"] /\ Goto(x, "teardown")

Sweeping(r) == mode[r] \in {"rmtree", "prune", "branches"}

\* A thread runs; under a signal only those of a pool do, as the handler has the
\* main thread.
At(x, step) ==
    /\ pc[x] = step
    /\ mode[x[1]] = "running" \/ (Parallel > 1 /\ Sweeping(x[1]))

-----------------------------------------------------------------------------
(* _run_condition *)

HasThread(r) == Cardinality({c \in Conditions : pc[<<r, c>>] \notin {"queued", "done"}}) < Parallel

\* The pool takes a condition; `git worktree add` starts under the lock.
StartAdd(x) ==
    /\ At(x, "queued")
    /\ HasThread(x[1])
    /\ lock[x[1]] = {}
    /\ lock' = [lock EXCEPT ![x[1]] = {x[2]}]
    /\ Goto(x, "adding")
    /\ raced' = IF Sweeping(x[1]) THEN raced \cup {x} ELSE raced
    /\ UNCHANGED <<id, out, mode, gitVars, session, specVars>>

\* It is a process of its own, which outlives the run; it fails when a run of the
\* same second has the branch.
EndAdd(x) ==
    /\ pc[x] = "adding"
    /\ IF \E b \in branch : b[1] = Name(x)
       THEN Fail(x) /\ UNCHANGED gitVars
       ELSE /\ dirs' = dirs \cup {x}
            /\ table' = table \cup {x}
            /\ branch' = branch \cup {<<Name(x), x[1]>>}
            /\ Goto(x, "inject")
            /\ UNCHANGED record
    /\ lock' = [lock EXCEPT ![x[1]] = {}]
    /\ UNCHANGED <<mode, session, head, base, report, still>>

\* Slip: the frozen commit is not made the base.
Freeze_KeepsBase(x) ==
    /\ head' = [head EXCEPT ![x] = "frozen"]
    /\ UNCHANGED base

\* setup, _inject_fragments, _freeze_base: what they left is committed, or there
\* was nothing to commit.
Freeze(x) ==
    /\ \/ head' = [head EXCEPT ![x] = "frozen"]
       \/ UNCHANGED head
    /\ base' = [base EXCEPT ![x] = head'[x]]

Inject(x) ==
    /\ At(x, "inject")
    /\ \/ x \in dirs /\ Freeze(x) /\ Goto(x, "spawn") /\ UNCHANGED record
       \/ Fail(x) /\ UNCHANGED <<head, base>>
    /\ UNCHANGED <<mode, lock, gitVars, session, report, still>>

\* tmux new-session; the session is named for the condition, not for the run.
Spawn(x) ==
    /\ At(x, "spawn")
    /\ IF session[x[2]] # NoRun THEN Fail(x) /\ UNCHANGED session
       ELSE /\ session' = [session EXCEPT ![x[2]] = x[1]]
            /\ Goto(x, "poll")
            /\ UNCHANGED record
    /\ UNCHANGED <<mode, lock, gitVars, head, base, report, still>>

\* The branch first, then the report; no head at all differs from the base too.
DoneBy(x) == CASE x \notin dirs \/ head[x] # base[x] -> "branch"
               [] report[Place(x)] # NoRun          -> "report"
               [] OTHER                              -> "none"

Poll(x) ==
    /\ At(x, "poll")
    /\ DoneBy(x) # "none"
    /\ record' = [record EXCEPT ![x] = DoneBy(x)]
    /\ Goto(x, "harvest")
    /\ UNCHANGED <<mode, lock, gitVars, session, head, base, report, still>>

\* Slip: the deadline is looked at only once the worker has begun to report.
Deadline_IfReporting(x) ==
    /\ At(x, "poll")
    /\ report[Place(x)] # NoRun
    /\ record' = [record EXCEPT ![x] = "timeout"]
    /\ Goto(x, "harvest")
    /\ UNCHANGED <<mode, lock, gitVars, session, head, base, report, still>>

Deadline(x) ==
    /\ At(x, "poll")
    /\ DoneBy(x) = "none"
    /\ record' = [record EXCEPT ![x] = "timeout"]
    /\ Goto(x, "harvest")
    /\ UNCHANGED <<mode, lock, gitVars, session, head, base, report, still>>

\* head, diff and verdict.
Harvest(x) ==
    /\ At(x, "harvest")
    /\ IF x \in dirs THEN Goto(x, "teardown") /\ UNCHANGED record ELSE Fail(x)
    /\ UNCHANGED <<mode, lock, gitVars, session, head, base, report, still>>

\* tmux kill-session, by name.
Teardown(x) ==
    /\ At(x, "teardown")
    /\ session' = [session EXCEPT ![x[2]] = NoRun]
    /\ Goto(x, "cleanup")
    /\ UNCHANGED <<mode, lock, gitVars, specVars, still>>

\* git refuses to delete a branch that some worktree has checked out.
Without(names) == {b \in branch : b[1] \notin names \/ <<b[2], b[1][2]>> \in table'}

\* Slip: the branch is left to the one who removes the worktree.
Cleanup_WorktreeOnly(x) ==
    /\ At(x, "cleanup")
    /\ lock[x[1]] = {}
    /\ dirs' = dirs \ {x} /\ table' = table \ {x}
    /\ Goto(x, "done")
    /\ UNCHANGED <<mode, lock, branch, session, specVars, still>>

\* worktree remove --force and branch -D, under the lock, errors ignored.
Cleanup(x) ==
    /\ At(x, "cleanup")
    /\ lock[x[1]] = {}
    /\ dirs' = dirs \ {x} /\ table' = table \ {x}
    /\ branch' = Without({Name(x)})
    /\ Goto(x, "done")
    /\ UNCHANGED <<mode, lock, session, specVars, still>>

-----------------------------------------------------------------------------
(* The run, its agents, and signals *)

\* Outside _run_condition's try a condition may raise: the next one's directory cannot
\* be made, or the artifacts of one that ran cannot be written.  Those not begun are
\* dropped, by the comprehension that runs them one by one or by the pool's map.
GiveUp(r) ==
    LET queued == {x \in {r} \X Conditions : pc[x] = "queued"} IN
    /\ mode[r] = "running"
    /\ queued # {}
    /\ \/ HasThread(r)
       \/ Parallel > 1 /\ \E c \in Conditions : pc[<<r, c>>] = "done" /\ record[<<r, c>>] # "none"
    /\ pc' = [x \in All |-> IF x \in queued THEN "done" ELSE pc[x]]
    /\ UNCHANGED <<mode, lock, gitVars, session, specVars, still>>

EndRun(r) ==
    /\ mode[r] = "running"
    /\ \A c \in Conditions : pc[<<r, c>>] = "done"
    /\ mode' = [mode EXCEPT ![r] = "over"]
    /\ dirs' = dirs \ ({r} \X Conditions)
    /\ UNCHANGED <<pc, lock, table, branch, session, specVars, still>>

Working(x) == session[x[2]] = x[1] /\ x \in dirs

AgentCommits(x) ==
    /\ Working(x)
    /\ head[x] # "agent"
    /\ head' = [head EXCEPT ![x] = "agent"]
    /\ UNCHANGED <<mode, pc, lock, gitVars, session, base, report, record, still>>

AgentReports(x) ==
    /\ session[x[2]] = x[1]
    /\ report[Place(x)] # x[1]
    /\ report' = [report EXCEPT ![Place(x)] = x[1]]
    /\ UNCHANGED <<mode, pc, lock, gitVars, session, head, base, record, still>>

\* _on_signal: _sweep_run removes the run's directories, has git forget worktrees
\* without one, and deletes the branches of its run id.  Sessions it leaves alone.
Signal(r) ==
    /\ r \in Signals /\ mode[r] = "running"
    /\ mode' = [mode EXCEPT ![r] = "rmtree"]
    /\ raced' = raced \cup {x \in All : x[1] = r /\ pc[x] = "adding"}
    /\ UNCHANGED <<id, out, pc, lock, gitVars, session, specVars>>

SweepDirs(r) ==
    /\ mode[r] = "rmtree"
    /\ dirs' = dirs \ ({r} \X Conditions)
    /\ mode' = [mode EXCEPT ![r] = "prune"]
    /\ UNCHANGED <<pc, lock, table, branch, session, specVars, still>>

SweepTable(r) ==
    /\ mode[r] = "prune"
    /\ table' = table \cap dirs
    /\ mode' = [mode EXCEPT ![r] = "branches"]
    /\ UNCHANGED <<pc, lock, dirs, branch, session, specVars, still>>

\* ... and the process kills itself.
SweepBranches(r) ==
    /\ mode[r] = "branches"
    /\ table' = table
    /\ branch' = Without({id[r]} \X Conditions)
    /\ mode' = [mode EXCEPT ![r] = "dead"]
    /\ UNCHANGED <<pc, lock, dirs, session, specVars, still>>

Step(x) ==
    \/ StartAdd(x) \/ EndAdd(x) \/ Inject(x) \/ Spawn(x)
    \/ Poll(x) \/ Deadline(x) \/ Harvest(x) \/ Teardown(x) \/ Cleanup(x)

Sweep(r) == SweepDirs(r) \/ SweepTable(r) \/ SweepBranches(r)

Next ==
    \/ \E x \in All : Step(x) \/ AgentCommits(x) \/ AgentReports(x)
    \/ \E r \in Runs : GiveUp(r) \/ EndRun(r) \/ Signal(r) \/ Sweep(r)

\* The steps that end by themselves.  Not so Inject and Harvest: the manifest's setup
\* and check are run without a time limit, on what the agent left.
Returning(x) ==
    \/ StartAdd(x) \/ EndAdd(x) \/ Spawn(x)
    \/ Poll(x) \/ Deadline(x) \/ Teardown(x) \/ Cleanup(x)

\* Threads and processes run.
Fairness ==
    /\ \A x \in All : WF_vars(Returning(x))
    /\ \A r \in Runs : WF_vars(EndRun(r)) /\ WF_vars(Sweep(r))

Spec == Init /\ [][Next]_vars
FairSpec == Spec /\ Fairness

-----------------------------------------------------------------------------
(* Properties *)

\* What is harvested is the agent's work alone: a condition is recorded as completed
\* only when its own agent committed or reported, not for the commit that froze the
\* injected context and not for another run's, though runs share the names of
\* sessions.  A report found in a reused output directory, or written by a run of the
\* same second, is taken for the agent's all the same.
HarvestIsOwn ==
    \A x \in All : pc[x] \in {"teardown", "cleanup", "done"} =>
        /\ record[x] = "branch" => head[x] = "agent"
        /\ record[x] = "report" =>
             \/ report[Place(x)] = x[1]
             \/ out[x[1]] = "reused"
             \/ \E q \in Runs \ {x[1]} : id[q] = id[x[1]]

\* The host repository is left as it was: a run that is over, or was signalled, has
\* left no worktree and no branch, and one that ended by itself no session either.
\* Worktrees being added while a sweep ran are the exception.
NothingLeftBehind ==
    \A x \in All \ raced :
        /\ mode[x[1]] \in {"over", "dead"} => x \notin table /\ <<Name(x), x[1]>> \notin branch
        /\ mode[x[1]] = "over" => session[x[2]] # x[1]

\* Every run ends, whatever its agents do or do not do, and whoever kills their
\* sessions, unless one of its own setups or checks never returns: none waits for ever
\* for the lock, the pool, an agent, or another run's check.
InCommand(r) == mode[r] = "running" /\ \E c \in Conditions : pc[<<r, c>>] \in {"inject", "harvest"}

RunsEnd == \A r \in Runs : <>(mode[r] \in {"over", "dead"}) \/ <>[]InCommand(r)
=============================================================================
