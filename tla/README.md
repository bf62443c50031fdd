# monition: TLA+ models and proofs

A verification development for `monition`, the tool that stores takeaways
(lessons) and discloses them to a coding agent from harness hooks. Source paths
below are relative to `src/src/monition/` unless they say otherwise.

    tlc -workers 2 -config migrate.cfg MCMigrateSqlite.tla     # one run
    tlapm MigrateSqlite_proofs.tla                             # one module's proofs

## 1. Inventory

| Component | State it keeps | Operations | What is hard | What makes it correct |
|---|---|---|---|---|
| Disclosure hooks (`hooks.py`) | none of its own between events | `fire_hook`, `prompt_hook`, `session_brief`: match, dedup, score, log, print | short-lived processes; every SQL statement is a transaction of its own; everything fails open | a row is shown at most once per context; what is shown is logged; what is logged is shown unless the hook dies |
| EV scorer (`score.py`) | none: a function of the firings table | `score` | cold pause is absorbing until a rating | suppression is lifted only by ratings |
| Session state (`session_state.py`) | one JSON file of compaction markers per machine | `record_compaction`, `compaction_floor` | unlocked load-change-write, torn files, expiry | compaction re-arms exactly the rows it wiped |
| Write store (`store_write.py`) | tables takeaways, firings, decisions, violations, mutations | `fire`, `fire_batch`, `rate`, `retire`, `add`, trigger verbs, `log_violation`, resurrection verbs | check-then-act over several transactions | labels name their firing; the mutations table explains every state of a trigger; no twin slips past the gates unseen |
| Store reader (`store.py`) | none | open with schema fingerprint, typed reads, orphan check | stale schemas, orphan rows | a store that is let in can be used |
| Backends (`storage_backends.py`, `dolt_server.py`) | store file; info and lock files of a resident server | `execute_sql`, `ensure_running`, `stop` | wire fallback that runs a statement again, spawn and stop races, copied info files, reused pids, replies that never come | a statement runs in its own store, the caller is told the truth, one server per store |
| Embedding (`embed.py`) | cache file, daemon socket | `embed_texts`, `run_daemon` | bind/unlink races, unlocked cache | one daemon per machine; no hook waits for it |
| Trigger modules (`modules.py`), relevance cascade (`relevance/`) | trained artifact | matchers; sanitizing, `run_scorers`, commit | two inputs (raw and sanitized), abstaining scorers; what is embedded of a row includes its spec | a row goes on matching what it was helpful for |
| Store lifecycle (`init_sync.py`) | schema, managed files | `init`, `instrument`, `sync`, `migrate`, `fold_store` | ladders of separately committed statements, files rewritten whole, killed anywhere | no row lost or orphaned; nothing of other people's overwritten |
| Evaluation (`evaluate.py`, `adopt.py`) | rows in violations and takeaways | `evaluate_session`, `adopt` | re-runs, concurrent evaluators | one violation per miss |
| Proposals, calibration (`proposals.py`, `calibrate.py`) | none | reports from a snapshot, applied by hand later | a proposal applied after its row has changed; a threshold compared exactly and stored rounded | tuning loses no helpful query it knew of, and calibration makes no row louder |
| Replay (`replay.py`, `backends.py`) | git worktrees and branches, tmux sessions, run directory | `run_replay` | a pool of threads, agents that hang, setups and checks without a time limit, signals during everything | results are the agent's own; nothing is left behind; it ends, unless its own setup or check does not |
| Snapshot, reporting, rest of the command line, MCP server, generated seeds, dashboard | none | I/O and formatting | - | - |

They interact through the store (every process opens it, runs single-statement
transactions and exits), the marker file, the files of the resident server and
the embedding daemon, and the managed files. No process holds a lock across
statements, except the spawn lock of `dolt_server.py` and the worktree lock
inside a replay. `PROJECT.json` lists the hazards line by line.

## 2. Plan

All modules of the plan exist; they were written in this order, each with its run:

1. `Scorer`, `Disclosure`, `RowLifecycle`: the disclosure path, which is what the
   tool is for; type invariant, deduplication and logging proved.
2. `Mutations`: the trigger verbs and the reconstruction rule, proved.
3. `MigrateSqlite`: the SQLite ladder and the reader's gate, proved.
4. `DoltServer`, `EmbedDaemon`: the resident processes; safety proved.
5. `DoltLadder` and, on top of it, `FoldStore`: an old repository store on its way
   into the hub.
6. `Curation`: gates, resolutions, adoption, evaluation.
7. `Tuning`: matchers, cap, scorer, cascade, proposals and calibration; safety proved.
8. `Replay`, `Instrument`: worktrees and sessions; managed files; safety proved.

Every safety property the runs check, and the refinement of `RowLifecycle`, is
a theorem; what stays with TLC is liveness (section 5).

## 3. The modules

### Disclosure, Scorer, RowLifecycle

`Disclosure` has one variable per table it needs (`firings`, whose position is
the id; `decisions`; `retired`; `trigger`), `markers` for the marker file, and
per hook process a program counter and its locals. `window` (what a session's
context holds, as the labels printed for each row) and `observed` (calls of the
firing observer) are the world outside. One action is one statement or one file
access:

| Actions | Code |
|---|---|
| `Begin`, `Compact` | the harness raises an event; `FlowsOf` is the trigger kinds each executor serves in turn |
| `ReadMax`, `LoadMarkers`, `WriteMarkers`, `MarkerFails` | `session_brief` on compaction, `record_compaction` |
| `Match`, `ReadFloor`, `Dedup` | the match verbs, `compaction_floor`, `_not_yet_fired` |
| `Score`, `InsertBatch`, `EmitBatch`, `FallBack`, `Refire`, `EmitRefired`, `WriteDecisions` | `_disclose`, `fire_batch`, `fire`, `write_decisions` |
| `Inject`, `Abort` | the executor prints and exits; it dies, or an exception reaches its outer handler |
| `Rate`, `Retire`, `SetTrigger`, `ScoreVerb` | command-line verbs, between any two steps of any hook; `monition score` writes its decision at once, and nothing is fired |

A decision says, as history, whether a hook or the verb wrote it: the table does not tell
them apart. Which rows match an event is a nondeterministic subset, so the text matchers, the
injection cap and the cascade head, which only drop hits, are covered by it.
`SetTrigger` is one step here; its three statements are the subject of `Mutations`.
`Scorer` is `score()` with the ratio compared without division.
`RowLifecycle` is the abstract specification: per session and row, armed, chosen,
pending, shown, spent. `Stage` is the refinement mapping; `ImplementsLifecycle`
says the detailed module implements it when the hooks of one session run in turn.
In the abstract specification a hook that dies (`Drop`) takes with it what it had read
of the markers: a row that only its reading had armed is spent again. That is so where
the hook dies in its second flow after another session's stale write has taken the
marker out of the file; it takes two rows and two flows, and came up in the proof.

### Mutations

`set_trigger`, `retarget` and `set_threshold` are each SELECT, UPDATE, INSERT:
`Select` (with the verb's checks), `Update`, `Insert`, and `Crash` between them.
`mutations` holds what the code's `changes` JSON holds. `past`, `overlapped` and
`killed` are history: the row states the log goes with, the rows two verbs worked
on at once, the rows changed and never recorded. Specs are members of sets:
text, accepted by `validate_tool_call_spec`, or none.

### MigrateSqlite

The schema is the set of tables and of the columns the ladder adds; a takeaway is
its id and threshold, all a rebuild can lose. `DescribeTakeaways` to
`DescribeMutations` are the four reads the plan is made of, `Execute` one
statement (`Ladder` in order, `Indicator` what puts each into the plan, `CanRun`
when SQLite accepts it), `Finish` the reader's check at the end, `Crash` a kill or a locked
database at any point. Sessions `Open` through `Fingerprint` and then `Add` and
`Tune`. The reader's per-table describes are one step: for the tables of this
module what a later describe could see differently is what the gate would have
rejected anyway. A store starts at v6 or later, with any rows; the SQLite backend
shipped at v6, so the refusal of older stores is left out.

### DoltServer

One statement's way to a store: `Call` and `Lock` (`ensure_running`, checked again under the lock),
`Spawn`, `Poll`, then `Resolve`, `Connect`, `Send` (answered, refused or broken, or none of these,
ever) and `CommandLine` (which need not return either). A caller may be killed anywhere (`Killed`),
also while it holds the lock. `proc` holds each pid's process with the store it serves, `info` each
store's `sql-server.info`. The environment is a server that binds or finds the store taken
(`Listen`), dies and leaves its info file, whose pid is used again, and a person who copies a store
with its info file or stops a server (`StopReads`, `StopTerm`, `StopKill`). What dolt does is
external, taken from how the code reads it. `late` is history: stores where a server was slow,
stopped or killed. `Serves` is the ownership check, with the branch that trusts a process it cannot
look at (`Unreadable`); `unsure` are the callers whose connection rests on that. Ports are computed
from paths: no two stores of the model have the same, as two of 50000 seldom are.

### EmbedDaemon

Hooks (`LoadCache`, `AskDaemon`, `FallBack`, `TruncateCache`, `SaveCache`) and daemons
(`Probe`, `UnlinkStale`, `Bind`, `Listen`, `Close`, `UnlinkOwn`) on one path, each call
of the socket code a step. `overlapped` is history: daemons whose start or end another's
crossed, or whose file a displaced daemon took away when it left.

### DoltLadder and FoldStore

`DoltLadder` is `migrate` from v1 to v7 on a Dolt store: the statements of the status rewrite
(`StatusStatements`) and the additive ones, places in one `Ladder`. `plan` is the set of
those whose `Indicator` was missing, and is executed from the lowest, with a kill between
any two. `FoldStore` extends it
with `fold_store`: guard, reads, maxima, counts, inserts row by row, counts again, while sessions
of both stores add rows. A row carries, as history, which takeaway it is really about.

### Curation

Per client one program over the statements of `add` (both gates, `ReadDecisions`
before each), `resolve_add`, `merge_resurrection`, `log_helpful_equivalent`, `adopt`
block by block, and `evaluate_session` with `log_violation`'s two statements; hooks
rescore and people rate, retire and set signatures in between. The two gates compare different
things: `SameText` is the resurrection gate's likeness of one-liner and content, `SameLine` the
duplicate gate's of one-liners. `HeldBack` rows belong to the one, all others to the other.
`log-helpful` rates the firing `MAX(id)` gives it, which may be another's.

### Tuning

`Prompt` is one prompt event as `on_demand_match`, `_cap_hits` and the cascade see it (the event's
statements are `Disclosure`'s subject): raw and sanitized query, keyword and similarity hits, cap,
the EV scorer (`HeldBack`), abstaining scorers. What is similar to a query is a row with its spec
(`Score`), so a retarget moves it, and a calibration stores `Rounded` what it compared exactly. A
firing may be rated again. `ReadRows`, `ReadFirings` and `ReadCalibrate` take a report's snapshots;
`Tighten`, `Broaden`, `Migrate`, `Merged`, `Graduates`, `Rescore` and `Proposed` compute it; its
items are applied one by one, later, in any order or not at all; two calibrations do not overlap.
`owed` is history: the helpful queries the last report knew of. `Lists` has the list comprehension
the code drops a keyword or a hook with (`Only`), written as a recursive function of the prefix
length, because nothing can be proved of `SelectSeq` here. The specifications are called
`TuningSpec` and `InstrumentSpec` so that one module of proofs can extend them together with
`Replay`.

### Replay

Each condition of each run goes through `_run_condition`: worktree under the lock,
inject, freeze, spawn, poll, harvest, teardown, clean-up. The agent commits,
reports or hangs; a signal sweeps in three steps. `GiveUp` is an exception outside
`_run_condition`'s `try`, which drops the conditions not begun. git's worktree table and the tmux
server are external.

### Instrument

A run reads a file, plans its new content and writes it in two steps (`Open` truncates, `Fill`
fills) for the store, settings, MCP server, local settings, skills, readme and pre-commit hook in
turn. A file that somebody has written since a run truncated it may end up as `Mixed`, the run's
content with the tail of the other (`Landed`). `Refreshed` is `_merge_hook_entries`, entry by entry.
A file is absent, torn, mixed or whole, and whole in the shape of its kind: `SettingsFile` (a list
of entries per event), `SkillFile` (a body and whether its stamp fits: one of somebody's own is a
body under no fitting stamp), `SharedFile` (what others put there, and our part).

### MC modules

The MC modules give constants and symmetry sets. Nothing in them replaces a definition.

## 4. The runs

| Run | Question | Bounds, and why they suffice |
|---|---|---|
| `disclosure` | Two sessions share log and marker file, hooks die, files tear, markers expire: no double line, every line logged, `RowLifecycle` implemented | 2 sessions, 1 hook each, 1 row, log closed to new events at 2 firings: a showing, a compaction and a second showing of the same row, while the other session's brief overwrites the file |
| `disclosure_solo` | No kills and no marker faults, but retire and set_trigger at any moment: context and log agree, labels are right, what is logged arrives (liveness) | 1 session, 2 rows (so that a batch can be paired wrongly), new events until 2 firings |
| `disclosure_parallel` | What survives two parallel hooks of one session, with ratings between their steps | pause limit 1, new events until 2 firings: both hooks overrun it, batch and fallback |
| `mutations` | Three verbs, two clients, kills | 1 row, all three fields, 2 recorded mutations, so that one is undone over another |
| `migrate` | Migrations killed anywhere, started three times, two migrators, two writing sessions | all four starting versions, 2 rows, 2 thresholds; three starts are kill, failed rerun and one more |
| `dolt` | Where statements run, what callers are told, how many servers start, that every caller gets to hand its statement over | 2 clients on one store or on it and its copy, 2 pids, one of them with a directory that cannot be read, 3 statements: a broken statement, a cached connection and a reconnect |
| `embed` | Do daemons pile up or stay, does a hook ever wait | 2 hooks, 3 daemons (one serving, one stale, one starting); the theorem covers more, which matters: a displaced daemon that takes a third one's file away, so that a fourth can start, needs 4 |
| `consolidate` | Is a row's status, its children and its identity kept from v1 to the hub | 1 source row and 1 child per table, 2 folders, 2 migrations; deeper random walks with 3 rows agree |
| `curation` | What the gates, violations and merges guarantee under overlap and kills | 2 clients, 2 commands, 2 lessons with or without a detail, a row alone or beside a retired one, at most 3 rows and 2 firings: two adds, an add and a merge, or an evaluation and its rerun |
| `tuning` | Does tuning lose a helpful query; is a threshold ever lowered | 2 rows (twins), 3 queries, 3 keywords of which one moves what a row is similar to, similarities stored to the even, 2 prompts, a calibration from 2 ratings, other thresholds at their least |
| `replay` | Whose work is harvested, what is left behind, does it end | 2 runs of 1 condition, in one second or not, or 1 run of 2 and a refused manifest; pool of 2; one run signalled |
| `instrument` | Do foreign entries survive, does each event end with one hook | 2 runs of 2 versions that overlap anywhere, 2 hooks of others, a settings file with a duplicate hook and a shared entry |

`CHECK_DEADLOCK FALSE` stands where the system really comes to rest: once every
start, command, statement or prompt the bound allows is used up, nothing more happens
(`migrate`, `dolt`, `consolidate`, `curation`, `tuning`, `replay`, `instrument`). The other
models end in an explicit stutter or go on for ever, and have the deadlock check on.

**Fairness.** A process once started is run by the operating system: weak fairness of those of
its steps the code or the system brings to an end, never of a kill, a fault or a person
(`LoggedReachesWindow`, `HooksServed`, `HandsOver`, `RunsEnd`). Steps that may last for ever
have none. In `DoltServer` these are `Connect`, `Send` and `CommandLine`: `connect_timeout` is the
only limit the code sets on the wire, and none on the dolt process
(storage_backends.py:158, 208), so `HandsOver` ends where the statement is handed over. In `Replay` they are
`Inject` and `Harvest`, which run the manifest's setup and outcome check without a limit
(replay.py:303, 350): `RunsEnd` exempts a run one of whose own setups or checks does not return, and says that
nobody else waits for it. A waiter on the spawn lock gets it in its turn (strong
fairness of `Lock`, which `flock` provides), and a started server binds or gives up. In
`EmbedDaemon` a daemon at whose path another one listens gets no connection, so its accept
times out (`UnreachableLeaves`). Nothing is assumed of the harness: no event need ever come.

### What modelling showed

Where a documented promise holds only under a proviso, the property states the
proviso and the history variable it needs. Each of these was seen as a
counterexample without it:

* Two hooks of one session that overlap both pass dedup. `OneHookPerSession`
  is therefore an assumption of the deduplication results, and the harness, not
  the code, provides it (contract: "at most once per session").
* `monition score --session S` writes 'fire' decisions for S with no firing behind them, so that
  what `decisions` says of S is not what S was shown. `FireVerdictHasFiring` is about the hooks'.
* `fire`'s label is `SELECT MAX(id)`, maybe another session's firing.
* Two compactions at once lose a marker, and the rows it would have re-armed stay
  silent for the rest of the session.
* A trigger verb that dies after its UPDATE is in no mutation, although the docstring
  of `set_trigger` says the mutation is recorded "before the write"; verbs that overlap on a row can
  leave a log that does not rebuild it.
* `retarget` checks a spec against a kind that may change under it.
* A SQLite migration killed inside the rebuild cannot be run again: stuck on
  `takeaways_v8`, or told there is no takeaways table, or, killed between the two v9
  statements, told the store is already v9.
* A Dolt migration killed before `origin_repo` is filled never fills it. A fold
  killed between chunks is "already folded" ever after. A source in use while it is folded
  leaves orphans, on which the hub's reader raises.
* A session that was let in by the fingerprint may find a table gone when two runs of the ladder overlap.
* A statement whose connection breaks may run twice, and a caller whose server does not reply waits for ever.
* A copied info file whose pid is now a process that cannot be looked at is trusted
  (dolt_server.py:110), and a statement may go to the store it was copied from. By reading: the
  docstring says "/proc unreadable (non-Linux, perms) → True" (dolt_server.py:105), but
  `os.path.realpath` is not strict and does not raise when there is no `/proc`, so on such systems
  every server fails the check, the wire is never used, and a resident server is taken for absent.
* Daemons whose starts or ends cross, or that lost their path and unlink it on leaving,
  can leave two daemons.
* `log-helpful` and the resurrection gate read decisions only hooks write: a "revived" row stays
  suppressed until a hook rescores it. `adopt` asks no gate, and a second run adds everything again.
  Overlapping merges lose a wording, overlapping evaluations log a violation twice. A row held back
  by the scorer whose one-liner equals the new one, but whose content differs, passes both gates; so
  does a row held back or revived between their reads.
* calibrate matches the stored situation, while the hook matched its sanitized form: a query
  that reaches a row only through quoted lines counts as lexical, and a raised threshold loses it.
  After a migrated keyword covers a helpful similar query, calibrate ignores that query, and a later
  tighten that drops the keyword loses it. `HelpfulKept` is about what the last report knew.
* calibrate's rule is "θ = max(SIM_THRESHOLD, min helpful semantic score)" (calibrate.py:14), but it
  stores `round(theta, 4)` (calibrate.py:116, 142): rounded up, the threshold is above the lowest
  helpful score and the very query that score was of is lost. With the exact comparison in
  `HelpfulKept` TLC shows this in a few steps; as it stands the property allows for the rounding,
  and for nothing else. A later helpful rating of a lower score lowers nothing: a threshold only
  rises. Where a row is retargeted after calibrate has read it, the similarities it compared are of
  another text, and only what the new spec matches by keyword stays owed.
* A replay's sweep leaves worktrees that were being added, and never kills tmux sessions, whose
  names two runs share. A reused output directory, or a run of the same second, lends its report. A
  setup or check that does not return holds its run for ever.
* Two installs that both truncate a managed file before either fills it each write at their own
  position: the shorter content, written last, keeps the tail of the longer. settings.json is then
  no JSON, and no event has a hook. `TheirsKept` and `OneHookEach` leave such files out (`excused`,
  `crossed`); without that TLC finds both violated.
* A kill between truncating and filling a managed file leaves it torn: later runs raise on JSON and take
  a skill for edited; a store directory that exists is taken for initialised.

## 5. What is proved

Every theorem holds for all values of the constants allowed by the named
assumptions (`DisclosureAssumption`, `ScorerAssumption`, `MutationsAssumption`,
`MigrateAssumption`, `DoltServerAssumption`, `EmbedDaemonAssumption`, `DoltLadderAssumption`,
`FoldStoreAssumption`, `CurationAssumption`, `ReplayAssumption`, `TuningAssumption`,
`InstrumentAssumption`), which say what kinds of things
the constants are and that the model's markers (no run, no value, an absent row) are none of them.
`TuningAssumption` also says that a store has finitely many rows, without which the cap has no
most similar hits to keep, and `InstrumentAssumption` that what other people put into the files is
no hook and no skill body of any version of ours.
A theorem that needs more says so in its statement.

* `Disclosure_proofs!TypeCorrect`, `Mutations_proofs!TypeCorrect`,
  `MigrateSqlite_proofs!TypeCorrect`, `DoltServer_proofs!TypeCorrect`,
  `EmbedDaemon_proofs!TypeCorrect`, `Curation_proofs!TypeCorrect`,
  `FoldStore_proofs!TypeCorrect`, `Commands_proofs!TuningTyped`,
  `Commands_proofs!InstrumentTyped`: the type invariants.

**The disclosure path** (`Disclosure_proofs`)

* `OncePerWindow`, `DisclosedLogged`: the deduplication contract
  and its converse, under `OneHookPerSession`. A window alone does not say why its row is safe, so
  `OnceInv` adds `Recorded`: a row that is shown, or waits to be printed, has a
  firing above every floor its session may be given - the one in the file, the
  one a hook has already read, and the ones other sessions' hooks have loaded and
  are about to write back. That is why a stale rewrite of the marker file can
  lose a re-arming and never cause a second showing. `FloorsInLog` keeps floors
  within the log, so that a new firing is above all of them, and `BriefIsBlank`
  says that a marker is only written over an empty context.
* `Refinement`: under the same proviso every step is a step of `RowLifecycle` or a
  stutter. `Stage` maps each row of each session; the proof goes through the actions
  with `OnceInv`, which says that a row chosen, pending or shown in one place is in no other.
* `LabelsRight`, under `LabelsAreSafe`: one hook per session, and either a single hook or no
  failing batch or read-back. `fire` labels its line with the last id of the whole log, so
  without this a second hook's firing can come between. `LatestBatch` is the invariant: the
  batch a hook is about to read back is the last its session has.
* `LogMatchesWindow`, under `NothingIsLost`: a single hook process that is not killed, and a
  marker file that keeps what is written. Batches, read-backs and decision rows may fail. A
  kill after the INSERT leaves a firing whose line nobody sees, and a lost marker hides a row, so
  neither may happen; that the two agree only while no hook runs is part of the property.
  `CountedInv`: what dedup counts is in the context or on its way.
* `DecisionsFollowFirings`, `ObserverFollowsLog`, `TrafficNeverLifts`: for any number of
  parallel hooks and any faults. `VerdictInv` follows a hook's verdict from scoring to its row;
  `Attributed` gives each hook the set of firings it has logged and not yet reported, disjoint
  from those counted and from every other hook's, so that counts never overtake the log.
* `OverrunBounded`, for a finite set of hooks, each of which may log a paused row twice (batch and
  fallback): `Weight` adds to the firings of a row those that hooks under way may still log, at most
  two each (batch, then fallback); only scoring adds weight, and only below the limit.

**The store**

* `Mutations_proofs!Reconstruction`: undoing the mutations table gives every
  earlier state of a trigger, except for rows with overlapping or killed verbs.
  `Reconstructs` speaks of settled rows only; `RebuildInv` says it at every
  moment, with the old values of a change that is not recorded yet as the base
  the undoing starts from (`UndoneToBase`).
* `Mutations_proofs!SpecsFit`: a tool_call row's spec can be parsed, under the
  same proviso about overlaps. `FitInv` adds that the row will fit once the
  pending UPDATE has been applied.
* `Mutations_proofs!OnRecord`: overlapping verbs may break the chain of a row's mutations, but
  every value the row holds and every old value an entry claims is on record, unless a verb
  died. `AllAccountable` is `NothingUnexplained` at every moment: on record, or written by
  a verb that has yet to record it, the old values that verbs under way have read included.
* `MigrateSqlite_proofs!MigrationKeepsRows`, `SessionsStayOpen`: no row or
  threshold is lost and no open session cut off unless two runs overlap.
  `MigrateInv` says which suffix of the rebuild a run may have left and what the
  two tables hold at each (`RebuildStage`), that while any of it is left the
  fingerprint fails, so that no session writes, and that a
  table without the column holds no threshold the copy could drop.
* `MigrateSqlite_proofs!SuccessIsCurrent`: a run that reports success leaves all of v9, unless runs
  overlap. `PlannedOrThere`: what a run has looked for is there or still planned, and where the drop
  takes columns along the rename is planned. `HalfDoneInv` is about the store that earlier kills
  leave between the two columns of v9: everything else is there, so no later run plans anything, and
  none reports success.
* `FoldStore_proofs!StatusKept`: the old status can be told however often migrations die.
  `RecordedFirst`: statuses are narrowed only when the mirror column has recorded them.
* `FoldStore_proofs!NoOrphan`, `ParentRight`, under `~LiveSource` (no session uses the source; otherwise a
  child written between two reads is orphaned): `InsertInv` says that takeaways are all in the
  hub, under the ids their children will refer to, before the first child is, and `UniqueIds` that no session or
  other fold has taken one.
* `FoldStore_proofs!OnceFolded`: needs `OriginsKept` (what a fold brought in is what the next one's
  guard asks for) and, for the fold under way, that nothing still to insert is there (`FoldClean`).
* `Curation_proofs!OneViolation`, `WordingsKept`: `StillUnlogged` and `SeenIsCurrent` say that what
  an evaluator or a merge has read still holds when it writes, unless another one crossed it; the
  rest of the proof is that no other statement of any client touches what they read. Of rows into
  which two merges overlapped `WordingsKept` says nothing.
* `Curation_proofs!TwinsNoticed`: `TwinKnown` follows each twin through both gates: a held-back row
  with a like text is in what the first gate read, any other with a like one-liner in what the
  second reads, unless it was stirred in between, and an author past both has used `--force`.

**Resident processes**

* `DoltServer_proofs!OwnStore`, `CallersToldTheTruth`: where a statement runs and what is said of
  it, for callers that did not have to trust a process they could not look at. `ConnKnown` carries
  the argument: a cached connection is to a process that listened for the client's own store, and a
  pid used again never listens for another, because the process with it is no server. `CountOf` says
  how often the statement may have run at each step of its client.
* `DoltServer_proofs!OneServerPerStore`: no herd. `OneServer` says that while nothing at a store
  was late, its server is either being waited for by a client that holds the lock,
  or is listening under the pid in the info file, so whoever gets the
  lock next finds it. `StopKnows` keeps the operator's kill to late stores.
* `EmbedDaemon_proofs!OneServes`: one daemon. `HoldsPath` (an uncrossed daemon that has
  bound the path still has it) needs `UnlinksStale` (whoever is about to unlink has
  no uncrossed daemon behind the path) and `MovesAlone`.

**Replays, tuning, installs** (`Commands_proofs`)

* `HarvestedIsOwn`: `SessionInv` (a session's name belongs to a run that is at its agent),
  `BaseInv` (from the freeze to the harvest only the agent moves the branch) and `RecordInv`: a
  worktree that is gone also differs from its base, and then the harvest fails. `ReportInv` limits a
  directory of the run's own to reports of runs of the same second; these, and whatever report lies in a reused
  directory, are taken for the agent's, and the theorem says no more.
* `NothingStays`: `SweptInv` has one clause for each step of the sweep, about every condition that
  was not being added meanwhile, and says that worktree and branch exist only between add and clean-up.
* `TuningKeepsTheHelpful`: whatever is applied, however late and over whatever newer spec or
  threshold, a row still matches every query its last tuning claimed to keep, by keyword or by a
  similarity that is, rounded as thresholds are, at least its threshold. A report is a promise about
  the future, so the invariant is about what is printed: `ProposalInv` (each proposed spec matches
  every query claimed for its row, whatever has become of row and firings since) and `CalInv` (a
  threshold about to be set leaves each claimed query to the keywords calibrate read or to the
  similarity that row and query have with the spec it read). `FloorKept` is needed with them:
  calibrate raises to `SIM_THRESHOLD` a proposed threshold that is lower, which keeps a query only
  because no threshold is below it: what scores less does not reach the row and is not claimed.
* `ThresholdsKeepTheirFloor`, `RulesLoseNothing`: the parts of that argument
  which say something by themselves - the floor, and that no rule of propose loses a helpful
  lexical query the spec matched.
* `CalibrationOnlyRaises`: no calibration lowers a threshold. `OnlyRaised` says it of what is about
  to be set: it is not below the threshold in force, because rounding is monotone and leaves what is
  stored as it is.
* `InstallsKeepTheirs`, `OneHookPerEvent`: `PlanInv` follows a run from its read to its write. What
  it is about to write holds all that others had put in the file (except what they put there behind
  its read, which is `excused`), and of settings.json it has one hook of ours for each event. An
  edit while a plan is pending must therefore be excused, as must a file truncated while another run
  was about to fill it (`CrossInv`); what is planned is always a whole file, also where the one read
  was torn. `ServedInv` says the same of the file on disk.
* `MergeSettles`: one merge, over any list of entries with any hooks of older versions,
  duplicates and shared entries, leaves one hook of ours and every hook of others.
* The last three, and the typing of a tightened spec, rest on `OnlyKeeps`: `Only(s, S)` is a sequence of
  just the elements of `s` in `S`. It is an induction over the sequence, and the induction theorems of the
  library cannot be used here (they take an operator as a parameter), so it is proved by
  the least prefix for which it fails (`Least`, from the well-foundedness of `<`), and
  the recursive function is shown to exist in the same way (`KeepsExists`). `CutExists`, for the
  cap, is by the least size that cannot be cut.

Left to TLC: liveness and everything with ENABLED, which the prover does not handle (`LoggedReachesWindow`,
`HandsOver`, `UnreachableLeaves`, `HooksServed`, `RunsEnd`).

## 6. What is not modelled

Tokenising, similarity and signature matching (their outcome is an input or a small table), the
tool_call grammar, the wording and layout of blocks and reports, model detection, log rotation,
numeric training and evaluation of the relevance head, snapshot (one `git commit-tree`), reporting
and export beyond the batch sizes that proposals rest on, argument parsing apart from `add`, the MCP
server's wrapping of verbs, generated seeds, and the dashboard, which reads files and draws them. Of
modelled components: `set_signature`, `set_reach`, scope filters, quoting, Dolt commits, staleness
by git history, calibrate's trend gate, tmux's own reading of session names (dots, prefixes), the
executable bit of the pre-commit hook, and that a v8 store passes the reader's fingerprint though
firings cannot be inserted into it.
