----------------------------- MODULE Instrument -----------------------------
(***************************************************************************)
(* init, instrument and sync (init_sync.py): each merges monition's part   *)
(* into files of a repository that people and other tools edit too. Every  *)
(* file is read, planned and rewritten whole, and the write truncates it   *)
(* first. Runs of several versions overlap, die anywhere and are repeated. *)
(***************************************************************************)
EXTENDS Naturals, Sequences, FiniteSets, SequencesExt, Lists

CONSTANTS
    Processes, Versions,    \* runs, and the versions of the package they are of
    Events,             \* the events of settings.json
    Matchers,           \* the matchers of its entries
    Command, Matcher,   \* what each version registers for each event
    Managed,            \* the packaged skills and docs, a sequence
    Stores, NoStore,    \* the arguments of --store
    Theirs,             \* what other people put in a file: one item per edit
    FirstDisk,          \* the files at the start
    MaxRuns             \* bound: runs started

Fixed == {"store", "settings", "mcp", "local", "readme", "pre-commit"}
Json == {"settings", "mcp", "local"}
Files == Fixed \cup ToSet(Managed)

Hook(v, e) == [event |-> e, command |-> Command[v][e]]
OursFor(e) == {Hook(v, e) : v \in Versions}

(* What a file may hold: nothing, as it is absent or truncated; the content of one run  *)
(* with the tail of another's; or monition's part and theirs. A skill that is somebody's *)
(* own is one whose stamp does not fit its body.                                        *)
Absent == [kind |-> "absent"]
Torn == [kind |-> "torn"]
Mixed == [kind |-> "mixed"]
Entry == [matcher : Matchers, hooks : SUBSET (Theirs \cup UNION {OursFor(e) : e \in Events})]
SettingsFile == [kind : {"whole"}, hooks : [Events -> Seq(Entry)]]
SkillFile == [kind : {"whole"}, stamp : Versions, body : Versions \cup Theirs]
SharedFile == [kind : {"whole"}, own : {"none", "monition", "line", "made", NoStore} \cup Stores,
               theirs : SUBSET Theirs]
Whole(f) == IF f = "settings" THEN SettingsFile
            ELSE IF f \in ToSet(Managed) THEN SkillFile ELSE SharedFile
Content(f) == {Absent, Torn, Mixed} \cup Whole(f)
Contents == {Absent, Torn, Mixed} \cup SettingsFile \cup SkillFile \cup SharedFile

ASSUME InstrumentAssumption ==
    /\ Versions # {} /\ Versions \cap Theirs = {}
    /\ DOMAIN Command = Versions /\ Matcher \in [Versions -> [Events -> Matchers]]
    /\ \A e \in Events : OursFor(e) \cap Theirs = {}
    /\ Managed \in Seq(ToSet(Managed)) /\ ToSet(Managed) \cap Fixed = {}
    /\ FirstDisk \in [Files -> Contents] /\ \A f \in Files : FirstDisk[f] \in Content(f)
    /\ NoStore \notin Stores

-----------------------------------------------------------------------------

VARIABLES
    disk,       \* what each file holds
    run,        \* each process: [version, store, todo, step, plan]
    started,    \* runs so far
    given,      \* <<file, item>>: what other people put where
    (* History *)
    excused,    \* of these: added behind a run's read, read half-written, lost with a kill,
                \* or in a file that two runs wrote at once
    served,     \* settings.json is as a run left or found it
    crossed     \* one run truncated settings.json while another was about to write it
instrumentVars == <<disk, run, started, given, excused, served, crossed>>

\* What others put in content c of file f.
TheirsIn(f, c) ==
    IF c \in {Absent, Torn, Mixed} THEN {}
    ELSE CASE f = "settings" -> Theirs \cap UNION {n.hooks : n \in UNION {ToSet(c.hooks[e]) : e \in Events}}
           [] f \in ToSet(Managed) -> Theirs \cap {c.body}
           [] OTHER -> c.theirs

InstrumentInit ==
    /\ disk = FirstDisk
    /\ run = [r \in Processes |-> [step |-> "none"]]
    /\ started = 0
    /\ given = UNION {{<<f, x>> : x \in TheirsIn(f, FirstDisk[f])} : f \in Files}
    /\ excused = {}
    /\ served = FALSE
    /\ crossed = FALSE

-----------------------------------------------------------------------------
(* What a run makes of what it reads *)

\* Slip: an entry with a stale hook of ours goes, with the others' hooks in it.
Others_WholeEntry(entries, e) == Only(entries, {n \in ToSet(entries) : n.hooks \cap OursFor(e) = {}})

\* Our hooks are taken out, and only the entries that this emptied.
Others(entries, e) ==
    LET kept == Only(entries, {n \in ToSet(entries) : n.hooks = {} \/ ~(n.hooks \subseteq OursFor(e))})
    IN [i \in DOMAIN kept |-> [kept[i] EXCEPT !.hooks = @ \ OursFor(e)]]

\* The hooks of ours, with the place of their entry.
OurHooks(entries, e) ==
    UNION {{<<i, h>> : h \in entries[i].hooks \cap OursFor(e)} : i \in DOMAIN entries}

IsCurrent(v, e, entries) ==
    \E o \in OurHooks(entries, e) :
        /\ OurHooks(entries, e) = {o}
        /\ o[2] = Hook(v, e)
        /\ entries[o[1]].matcher = Matcher[v][e]

\* Slip: the hook is compared by its command alone, and a new one goes beside it.
Refreshed_Beside(v, e, entries) ==
    IF \E o \in OurHooks(entries, e) : o[2] = Hook(v, e) THEN entries
    ELSE Append(entries, [matcher |-> Matcher[v][e], hooks |-> {Hook(v, e)}])

\* _merge_hook_entries.
Refreshed(v, e, entries) ==
    IF IsCurrent(v, e, entries) THEN entries
    ELSE Append(Others(entries, e), [matcher |-> Matcher[v][e], hooks |-> {Hook(v, e)}])

Settings(v, c) ==
    [kind |-> "whole",
     hooks |-> [e \in Events |-> Refreshed(v, e, IF c = Absent THEN <<>> ELSE c.hooks[e])]]

\* _managed_state: without a stamp that fits its body, the file is somebody's own.
ManagedState(c, v) ==
    IF c = Absent THEN "absent"
    ELSE IF c \in {Torn, Mixed} \/ c.stamp # c.body THEN "edited"
    ELSE IF c.body = v THEN "current" ELSE "untouched"

Skill(v, c) ==
    IF ManagedState(c, v) \in {"absent", "untouched"}
    THEN [kind |-> "whole", stamp |-> v, body |-> v] ELSE c

\* The rest: an own part beside theirs. A server already registered stays as it is;
\* the store is re-pointed.
Part(c, own) == [kind |-> "whole", own |-> own, theirs |-> IF c = Absent THEN {} ELSE c.theirs]
Server(c) == IF c # Absent /\ c.own # "none" THEN c ELSE Part(c, "monition")

\* The install line. A truncated README reads as an empty one; of two contents mixed,
\* the one in front has the line.
InstallLine(c) ==
    IF c \in {Absent, Mixed} THEN c
    ELSE IF c = Torn THEN [kind |-> "whole", own |-> "line", theirs |-> {}]
    ELSE IF c.own = "line" THEN c ELSE Part(c, "line")

\* The store and the pre-commit hook are made if nothing is there, torn or not.
Made(c) == IF c = Absent THEN Part(c, "made") ELSE c

Plan(r, f, c) ==
    CASE f = "settings" -> Settings(run[r].version, c)
      [] f = "mcp" -> Server(c)
      [] f = "local" -> Part(c, run[r].store)
      [] f = "readme" -> InstallLine(c)
      [] f \in {"store", "pre-commit"} -> Made(c)
      [] OTHER -> Skill(run[r].version, c)

-----------------------------------------------------------------------------
(* Runs *)

Todo(command, store, dump) ==
    LET merge == <<"settings", "mcp">> \o Managed
        tail == <<"readme">> \o (IF dump THEN <<"pre-commit">> ELSE <<>>)
    IN CASE command = "sync" -> merge
         [] command = "init" -> <<"store">> \o merge \o tail
         [] OTHER -> merge \o (IF store = NoStore THEN <<>> ELSE <<"local">>) \o tail

Start(r, command, v, store, dump) ==
    /\ run[r].step = "none" /\ started < MaxRuns
    /\ started' = started + 1
    /\ run' = [run EXCEPT ![r] = [step |-> "read", version |-> v, store |-> store, plan |-> Absent,
                                  todo |-> Todo(command, store, dump)]]
    /\ UNCHANGED <<disk, given, excused, served, crossed>>

File(r) == Head(run[r].todo)
Filling(r, f) == run[r].step = "fill" /\ File(r) = f
Pending(r, f) == run[r].step \in {"open", "fill"} /\ File(r) = f
GivenIn(f) == {x \in given : x[1] = f}

Onward(r) ==
    LET me == run[r] IN
    run' = [run EXCEPT ![r] =
               IF Len(me.todo) = 1 THEN [step |-> "none"]
               ELSE [me EXCEPT !.step = "read", !.todo = Tail(me.todo), !.plan = Absent]]

\* Read and plan. A torn or mixed JSON file raises and ends the run.
Read(r) ==
    LET f == File(r)
        plan == Plan(r, f, disk[f])
    IN
    /\ run[r].step = "read"
    /\ IF f \in Json /\ disk[f] \in {Torn, Mixed}
       THEN run' = [run EXCEPT ![r] = [step |-> "none"]] /\ served' = served
       ELSE IF plan = disk[f]
       THEN Onward(r) /\ served' = (served \/ f = "settings")
       ELSE run' = [run EXCEPT ![r].step = "open", ![r].plan = plan] /\ served' = served
    /\ excused' = excused \cup (IF \E p \in Processes : Filling(p, f) THEN GivenIn(f) ELSE {})
    /\ UNCHANGED <<disk, started, given, crossed>>

\* open(path, "w") truncates; the content follows.
Open(r) ==
    LET f == File(r)
        crossing == \E p \in Processes \ {r} : Filling(p, f)
    IN
    /\ run[r].step = "open"
    /\ disk' = [disk EXCEPT ![f] = Torn]
    /\ run' = [run EXCEPT ![r].step = "fill"]
    /\ served' = (served /\ f # "settings")
    /\ crossed' = IF f = "settings" THEN crossing ELSE crossed
    /\ excused' = excused \cup (IF crossing THEN GivenIn(f) ELSE {})
    /\ UNCHANGED <<started, given>>

\* The content goes where this run's own file position is, at the start: if somebody has
\* written behind the truncation, and more, their tail stays.
Landed(plan, c) == IF c \in {Torn, plan} THEN {plan} ELSE {plan, Mixed}

Fill(r) ==
    /\ run[r].step = "fill"
    /\ \E c \in Landed(run[r].plan, disk[File(r)]) : disk' = [disk EXCEPT ![File(r)] = c]
    /\ served' = (served \/ File(r) = "settings")
    /\ Onward(r)
    /\ UNCHANGED <<started, given, excused, crossed>>

Kill(r) ==
    /\ run[r].step # "none"
    /\ excused' = excused \cup (IF run[r].step = "fill" THEN GivenIn(File(r)) ELSE {})
    /\ run' = [run EXCEPT ![r] = [step |-> "none"]]
    /\ UNCHANGED <<disk, started, given, served, crossed>>

-----------------------------------------------------------------------------
(* Other people *)

\* A hook goes into an entry of its own, or beside a hook that is there.
WithHook(entries, e, x, i) ==
    IF i = 0 THEN Append(entries, [matcher |-> Matcher[CHOOSE v \in Versions : TRUE][e], hooks |-> {x}])
    ELSE [entries EXCEPT ![i].hooks = @ \cup {x}]

EditedAs(f, x, c) ==
    CASE f = "settings" ->
           UNION {{[c EXCEPT !.hooks[e] = WithHook(@, e, x, i)] : i \in 0 .. Len(c.hooks[e])} : e \in Events}
      [] f \in ToSet(Managed) -> {[c EXCEPT !.body = x]}
      [] OTHER -> {[c EXCEPT !.theirs = @ \cup {x}]}

Edit(f, x) ==
    /\ disk[f].kind = "whole" /\ f \notin {"store", "pre-commit"}
    /\ \A g \in given : g[2] # x
    /\ f \in ToSet(Managed) => disk[f].body \notin Theirs
    /\ \E c \in EditedAs(f, x, disk[f]) : disk' = [disk EXCEPT ![f] = c]
    /\ given' = given \cup {<<f, x>>}
    /\ excused' = excused \cup (IF \E r \in Processes : Pending(r, f) THEN {<<f, x>>} ELSE {})
    /\ UNCHANGED <<run, started, served, crossed>>

\* Somebody removes what a killed run or two crossing ones left.
Delete(f) ==
    /\ disk[f] \in {Torn, Mixed} /\ \A r \in Processes : ~Filling(r, f)
    /\ disk' = [disk EXCEPT ![f] = Absent]
    /\ UNCHANGED <<run, started, given, excused, served, crossed>>

InstrumentNext ==
    \/ \E r \in Processes, command \in {"init", "instrument", "sync"}, v \in Versions,
          store \in Stores \cup {NoStore}, dump \in BOOLEAN : Start(r, command, v, store, dump)
    \/ \E r \in Processes : Read(r) \/ Open(r) \/ Fill(r) \/ Kill(r)
    \/ \E f \in Files, x \in Theirs : Edit(f, x)
    \/ \E f \in Files : Delete(f)

InstrumentSpec == InstrumentInit /\ [][InstrumentNext]_instrumentVars

-----------------------------------------------------------------------------
(* Properties *)

\* Nothing of theirs goes: a foreign hook (in an entry of its own or in one of ours), a
\* foreign server or key, a README line and an edited skill survive every install and
\* upgrade, whatever the versions and however runs overlap short of writing one file at
\* once. What may be lost is what was added between a run's read and its write, was read
\* half-written, or was in a file whose writer died in the middle or that one run
\* truncated while another was about to write it.
TheirsKept ==
    \A x \in given \ excused :
        x[2] \in TheirsIn(x[1], disk[x[1]]) \/ \E r \in Processes : Filling(r, x[1])

\* One process per event: once a run has passed settings.json, each event has one hook
\* of ours, all of one version, whatever stood there and however runs overlapped, but for
\* a file that one run truncated while another was about to write it (it may be no JSON).
OneHookEach ==
    served /\ ~crossed =>
        \E v \in Versions : \A e \in Events : IsCurrent(v, e, disk["settings"].hooks[e])
=============================================================================
