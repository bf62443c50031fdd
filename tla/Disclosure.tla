----------------------------- MODULE Disclosure -----------------------------
(***************************************************************************)
(* The disclosure path of monition: the hook processes the agent harness   *)
(* spawns (fire_hook, prompt_hook, session_brief in hooks.py), the store   *)
(* tables they share (store_write.py), and the per-machine file of         *)
(* compaction markers (session_state.py).                                  *)
(*                                                                         *)
(* Every statement a hook sends to the store is its own transaction and    *)
(* every access to the marker file is unlocked, so each is one action here *)
(* and the hooks of all sessions interleave between them.                  *)
(***************************************************************************)
EXTENDS Scorer, Functions

CONSTANTS
    Sessions,       \* harness session ids
    Rows,           \* takeaways
    Hooks,          \* hook processes; one runs an unbounded series of events
    Owner,          \* the session a hook process belongs to
    NoRow,          \* a value that is no takeaway
    ScoreSessions,  \* what `monition score` is given as --session: a session, none
                    \* (a value that is no session), any other word
    InitTrigger,    \* the trigger_kind each row is created with
    Faults,         \* which of the failures below the environment may cause
    Verbs,          \* which command-line verbs are in use
    MaxFirings      \* bound: no event starts once the log is this long

TriggerKinds == {"edit_path", "session_start", "on_demand", "tool_call"}

AllFaults == {"abort", "batch", "readback", "marker", "torn", "expire", "decisions"}
AllVerbs == {"rate", "retire", "set_trigger"}

ASSUME DisclosureAssumption ==
    /\ IsFiniteSet(Rows)
    /\ NoRow \notin Rows
    /\ Owner \in [Hooks -> Sessions]
    /\ InitTrigger \in [Rows -> TriggerKinds]
    /\ Faults \subseteq AllFaults
    /\ Verbs \subseteq AllVerbs
    /\ MaxFirings \in Nat

VARIABLES
    (* The store *)
    firings,        \* Seq of [row, session, outcome]; the id is the position
    decisions,      \* set of [by, session, row, fire]; by, which the table has not,
                    \* tells a hook's decisions from those of the score verb
    retired,        \* rows whose status is 'retired'
    trigger,        \* each row's trigger_kind
    (* The marker file: each session's dedup floor, 0 when it has no marker *)
    markers,
    (* A hook process *)
    pc,             \* where it is
    flows,          \* trigger kinds it has still to serve, the current one first
    todo,           \* rows it is about to score or to fire
    verdicts,       \* decision rows waiting for write_decisions
    lines,          \* per row, the firing ids of the lines it will print
    refired,        \* the row whose fallback fire() is between its statements
    floorArg,       \* a dedup floor it has read: MAX(firings.id) for the marker
                    \* session_brief writes, the session's marker for dedup
    loaded,         \* the marker file as record_compaction loaded it
    (* Outside monition *)
    window,         \* what a session's context holds: per row, its labels
    observed        \* how often the firing observer was called, per session

storeVars == <<firings, decisions, retired, trigger>>
briefVars == <<floorArg, loaded>>
workVars  == <<flows, todo, verdicts, lines, refired>>
worldVars == <<window, observed>>
vars == <<storeVars, markers, pc, workVars, briefVars, worldVars>>

-----------------------------------------------------------------------------
(* Operators on the shared state *)

Firing(s, r) == [row |-> r, session |-> s, outcome |-> Unrated]

\* Row r has a firing of session s that the dedup query counts above `floor`.
FiredAfter(s, r, floor) ==
    \E i \in DOMAIN firings :
        i > floor /\ firings[i].session = s /\ firings[i].row = r

SessionIds(s) == {i \in DOMAIN firings : firings[i].session = s}

\* ids of SELECT ... WHERE session_id = s ORDER BY id DESC LIMIT n
Newest(s, n) == {i \in SessionIds(s) : Cardinality({j \in SessionIds(s) : j >= i}) <= n}

ReadBack(s, r, n) == {i \in Newest(s, n) : firings[i].row = r}

\* Slip: ids paired by position, whatever row they belong to.
PairedWith_ByPosition(s, r, n, id) == id \in Newest(s, n)

\* The read-back of fire_batch pairs each row with its oldest id among those.
PairedWith(s, r, n, id) ==
    /\ id \in ReadBack(s, r, n)
    /\ \A i \in ReadBack(s, r, n) : id <= i

NoLines == [r \in Rows |-> <<>>]
NoMarkers == [s \in Sessions |-> 0]

\* The trigger kinds one event serves, in the order the executor serves them.
FlowsOf == [ tool   |-> <<"edit_path", "tool_call">>,
             prompt |-> <<"on_demand">>,
             brief  |-> <<"session_start">> ]

Goto(h, label) == pc' = [pc EXCEPT ![h] = label]

-----------------------------------------------------------------------------
Init ==
    /\ firings = <<>>
    /\ decisions = {}
    /\ retired = {}
    /\ trigger = InitTrigger
    /\ markers = NoMarkers
    /\ pc = [h \in Hooks |-> "idle"]
    /\ flows = [h \in Hooks |-> <<>>]
    /\ todo = [h \in Hooks |-> {}]
    /\ verdicts = [h \in Hooks |-> {}]
    /\ lines = [h \in Hooks |-> NoLines]
    /\ refired = [h \in Hooks |-> NoRow]
    /\ floorArg = [h \in Hooks |-> 0]
    /\ loaded = [h \in Hooks |-> NoMarkers]
    /\ window = [s \in Sessions |-> NoLines]
    /\ observed = [s \in Sessions |-> 0]

-----------------------------------------------------------------------------
(* The harness raises an event *)

\* A tool call, a prompt, or the start of a session (source other than compact).
Begin(h, event) ==
    /\ pc[h] = "idle"
    /\ Len(firings) < MaxFirings
    /\ flows' = [flows EXCEPT ![h] = FlowsOf[event]]
    /\ Goto(h, "match")
    /\ UNCHANGED <<storeVars, markers, todo, verdicts, lines, refired, briefVars, worldVars>>

\* The harness compacts the session of h while none of its hooks runs: the text
\* injected so far is gone, and SessionStart fires with source = "compact".
Compact(h) ==
    /\ \A g \in Hooks : Owner[g] = Owner[h] => pc[g] = "idle"
    /\ Len(firings) < MaxFirings
    /\ window' = [window EXCEPT ![Owner[h]] = NoLines]
    /\ flows' = [flows EXCEPT ![h] = FlowsOf["brief"]]
    /\ Goto(h, "readmax")
    /\ UNCHANGED <<storeVars, markers, todo, verdicts, lines, refired, briefVars, observed>>

\* The hook dies: killed by the harness, or any exception that reaches the
\* executor's outer `except Exception: return`.  Nothing is printed.
Reset(h) ==
    /\ Goto(h, "idle")
    /\ flows' = [flows EXCEPT ![h] = <<>>]
    /\ todo' = [todo EXCEPT ![h] = {}]
    /\ verdicts' = [verdicts EXCEPT ![h] = {}]
    /\ lines' = [lines EXCEPT ![h] = NoLines]
    /\ refired' = [refired EXCEPT ![h] = NoRow]
    /\ floorArg' = [floorArg EXCEPT ![h] = 0]
    /\ loaded' = [loaded EXCEPT ![h] = NoMarkers]

Abort(h) ==
    /\ "abort" \in Faults
    /\ pc[h] # "idle"
    /\ Reset(h)
    /\ UNCHANGED <<storeVars, markers, worldVars>>

-----------------------------------------------------------------------------
(* session_brief on compaction: record a marker, or log the failure and go on *)

\* Slip: the next id instead of the last.
ReadMax_NextId(h) ==
    /\ pc[h] = "readmax"
    /\ floorArg' = [floorArg EXCEPT ![h] = Len(firings) + 1]
    /\ Goto(h, "load")
    /\ UNCHANGED <<storeVars, markers, workVars, loaded, worldVars>>

\* Slip: the number of firings before the last.
ReadMax_OneShort(h) ==
    /\ pc[h] = "readmax"
    /\ floorArg' = [floorArg EXCEPT ![h] = IF firings = <<>> THEN 0 ELSE Len(firings) - 1]
    /\ Goto(h, "load")
    /\ UNCHANGED <<storeVars, markers, workVars, loaded, worldVars>>

ReadMax(h) ==
    /\ pc[h] = "readmax"
    /\ floorArg' = [floorArg EXCEPT ![h] = Len(firings)]
    /\ Goto(h, "load")
    /\ UNCHANGED <<storeVars, markers, workVars, loaded, worldVars>>

\* A write truncates the file first: whoever reads it then finds no markers.
ReadableMarkers(h) ==
    {markers} \cup (IF \E g \in Hooks \ {h} : pc[g] = "write" THEN {NoMarkers} ELSE {})

LoadMarkers(h) ==
    /\ pc[h] = "load"
    /\ \E file \in ReadableMarkers(h) : loaded' = [loaded EXCEPT ![h] = file]
    /\ Goto(h, "write")
    /\ UNCHANGED <<storeVars, markers, workVars, floorArg, worldVars>>

\* Slip: the floor recorded for every session in the file.
WriteMarkers_AllSessions(h) ==
    /\ pc[h] = "write"
    /\ markers' = [s \in Sessions |-> floorArg[h]]
    /\ floorArg' = [floorArg EXCEPT ![h] = 0]
    /\ loaded' = [loaded EXCEPT ![h] = NoMarkers]
    /\ Goto(h, "match")
    /\ UNCHANGED <<storeVars, workVars, worldVars>>

\* The markers loaded, less those past MARKER_RETENTION_DAYS, with this
\* session's own set; what other hooks wrote since the load is overwritten.
WriteMarkers(h) ==
    /\ pc[h] = "write"
    /\ \E expired \in SUBSET (IF "expire" \in Faults THEN Sessions ELSE {}) :
         markers' = [s \in Sessions |->
                       IF s = Owner[h] THEN floorArg[h]
                       ELSE IF s \in expired THEN 0 ELSE loaded[h][s]]
    /\ floorArg' = [floorArg EXCEPT ![h] = 0]
    /\ loaded' = [loaded EXCEPT ![h] = NoMarkers]
    /\ Goto(h, "match")
    /\ UNCHANGED <<storeVars, workVars, worldVars>>

\* The query or the write raised: the brief goes on without a marker.  A write
\* that fails half-way leaves a file that no longer parses: no markers at all.
MarkerFails(h) ==
    /\ \/ /\ "marker" \in Faults
          /\ pc[h] \in {"readmax", "load", "write"}
          /\ UNCHANGED markers
       \/ /\ "torn" \in Faults
          /\ pc[h] = "write"
          /\ markers' = NoMarkers
    /\ floorArg' = [floorArg EXCEPT ![h] = 0]
    /\ loaded' = [loaded EXCEPT ![h] = NoMarkers]
    /\ Goto(h, "match")
    /\ UNCHANGED <<storeVars, workVars, worldVars>>

-----------------------------------------------------------------------------
(* Matching: the rows of the current trigger kind, less those already fired *)

\* Which rows match is the event's data.  Whatever the injection cap and the
\* cascade head drop from the hits is a row that "does not match" here.
Match(h) ==
    /\ pc[h] = "match"
    /\ \E hits \in SUBSET {r \in Rows \ retired : trigger[r] = Head(flows[h])} :
         todo' = [todo EXCEPT ![h] = hits]
    /\ Goto(h, "floor")
    /\ UNCHANGED <<storeVars, markers, flows, verdicts, lines, refired, briefVars, worldVars>>

\* _not_yet_fired: the session's floor from the marker file ...
ReadFloor(h) ==
    /\ pc[h] = "floor"
    /\ \E file \in ReadableMarkers(h) :
         floorArg' = [floorArg EXCEPT ![h] = file[Owner[h]]]
    /\ Goto(h, "dedup")
    /\ UNCHANGED <<storeVars, markers, workVars, loaded, worldVars>>

\* Slip: the hits passed on as they are.
Dedup_Skipped(h) ==
    /\ pc[h] = "dedup"
    /\ floorArg' = [floorArg EXCEPT ![h] = 0]
    /\ Goto(h, "score")
    /\ UNCHANGED <<storeVars, markers, workVars, loaded, worldVars>>

\* ... then the firings above it.
Dedup(h) ==
    /\ pc[h] = "dedup"
    /\ todo' = [todo EXCEPT ![h] = {r \in @ : ~FiredAfter(Owner[h], r, floorArg[h])}]
    /\ floorArg' = [floorArg EXCEPT ![h] = 0]
    /\ Goto(h, "score")
    /\ UNCHANGED <<storeVars, markers, flows, verdicts, lines, refired, loaded, worldVars>>

-----------------------------------------------------------------------------
(* _disclose *)

\* The scorer's decision on r, made by a hook of session s or by the verb.
VerdictOn(r, s, by) ==
    [by |-> by, session |-> s, row |-> r, fire |-> Fires(firings, r)]

Verdicts(h) == {VerdictOn(r, Owner[h], "hook") : r \in todo[h]}

\* Slip: the decisions written when they are made, before anything is fired.
Score_DecidesFirst(h) ==
    /\ pc[h] = "score"
    /\ decisions' = decisions \cup Verdicts(h)
    /\ todo' = [todo EXCEPT ![h] = {r \in @ : Fires(firings, r)}]
    /\ Goto(h, IF \E r \in todo[h] : Fires(firings, r) THEN "insert" ELSE "decide")
    /\ UNCHANGED <<firings, retired, trigger, markers, flows, verdicts, lines, refired,
                   briefVars, worldVars>>

\* Slip: the observer called when the hits are chosen.
Score_NotifiesFirst(h) ==
    /\ pc[h] = "score"
    /\ verdicts' = [verdicts EXCEPT ![h] = Verdicts(h)]
    /\ todo' = [todo EXCEPT ![h] = {r \in @ : Fires(firings, r)}]
    /\ observed' = [observed EXCEPT ![Owner[h]] =
                      @ + Cardinality({r \in todo[h] : Fires(firings, r)})]
    /\ Goto(h, IF \E r \in todo[h] : Fires(firings, r) THEN "insert" ELSE "decide")
    /\ UNCHANGED <<storeVars, markers, flows, lines, refired, briefVars, window>>

\* One read of the firings table scores every hit; suppressed hits are dropped.
Score(h) ==
    /\ pc[h] = "score"
    /\ verdicts' = [verdicts EXCEPT ![h] = Verdicts(h)]
    /\ todo' = [todo EXCEPT ![h] = {r \in @ : Fires(firings, r)}]
    /\ Goto(h, IF \E r \in todo[h] : Fires(firings, r) THEN "insert" ELSE "decide")
    /\ UNCHANGED <<storeVars, markers, flows, lines, refired, briefVars, worldVars>>

\* fire_batch: one INSERT for all the rows ...
InsertBatch(h) ==
    /\ pc[h] = "insert"
    /\ \E order \in Bijection(1..Cardinality(todo[h]), todo[h]) :
         firings' = firings \o
                      [i \in 1..Cardinality(todo[h]) |-> Firing(Owner[h], order[i])]
    /\ Goto(h, "readback")
    /\ UNCHANGED <<decisions, retired, trigger, markers, workVars, briefVars, worldVars>>

\* ... then the ids are read back, one observer call and one line per row.
EmitBatch(h) ==
    LET n == Cardinality(todo[h]) IN
    /\ pc[h] = "readback"
    /\ \E id \in [todo[h] -> DOMAIN firings] :
         /\ \A r \in todo[h] : PairedWith(Owner[h], r, n, id[r])
         /\ lines' = [lines EXCEPT ![h] =
                        [r \in Rows |-> IF r \in todo[h] THEN Append(@[r], id[r])
                                        ELSE @[r]]]
    /\ observed' = [observed EXCEPT ![Owner[h]] = @ + n]
    /\ todo' = [todo EXCEPT ![h] = {}]
    /\ Goto(h, "decide")
    /\ UNCHANGED <<storeVars, markers, flows, verdicts, refired, briefVars, window>>

\* Slip: a failed read-back swallowed with the hits it was for.
FallBack_Drops(h) ==
    /\ "readback" \in Faults
    /\ pc[h] = "readback"
    /\ todo' = [todo EXCEPT ![h] = {}]
    /\ Goto(h, "decide")
    /\ UNCHANGED <<storeVars, markers, flows, verdicts, lines, refired, briefVars, worldVars>>

\* Any exception out of fire_batch sends every hit to the per-hit path: the
\* INSERT was rejected, the read-back query failed, or it misses one of the rows.
FallBack(h) ==
    /\ \/ "batch" \in Faults /\ pc[h] = "insert"
       \/ "readback" \in Faults /\ pc[h] = "readback"
       \/ /\ pc[h] = "readback"
          /\ \E r \in todo[h] : ReadBack(Owner[h], r, Cardinality(todo[h])) = {}
    /\ Goto(h, "refire")
    /\ UNCHANGED <<storeVars, markers, workVars, briefVars, worldVars>>

\* fire(): INSERT one row ...
Refire(h, r) ==
    /\ pc[h] = "refire"
    /\ r \in todo[h]
    /\ firings' = Append(firings, Firing(Owner[h], r))
    /\ refired' = [refired EXCEPT ![h] = r]
    /\ Goto(h, "remax")
    /\ UNCHANGED <<decisions, retired, trigger, markers, flows, todo, verdicts,
                   lines, briefVars, worldVars>>

\* ... and label it with SELECT MAX(id), whoever's firing that is by now.
EmitRefired(h) ==
    /\ pc[h] = "remax"
    /\ lines' = [lines EXCEPT ![h][refired[h]] = Append(@, Len(firings))]
    /\ observed' = [observed EXCEPT ![Owner[h]] = @ + 1]
    /\ todo' = [todo EXCEPT ![h] = @ \ {refired[h]}]
    /\ refired' = [refired EXCEPT ![h] = NoRow]
    /\ Goto(h, IF todo[h] = {refired[h]} THEN "decide" ELSE "refire")
    /\ UNCHANGED <<storeVars, markers, flows, verdicts, briefVars, window>>

\* Slip: one flow too many.
WriteDecisions_OffByOne(h) ==
    /\ pc[h] = "decide"
    /\ \/ decisions' = decisions \cup verdicts[h]
       \/ "decisions" \in Faults /\ UNCHANGED decisions
    /\ verdicts' = [verdicts EXCEPT ![h] = {}]
    /\ flows' = [flows EXCEPT ![h] = Tail(@)]
    /\ Goto(h, IF flows[h] = <<>> THEN "print" ELSE "match")
    /\ UNCHANGED <<firings, retired, trigger, markers, todo, lines, refired,
                   briefVars, worldVars>>

\* write_decisions, whose failure is logged and forgotten; then the next
\* trigger kind of the event, if it has one.
WriteDecisions(h) ==
    /\ pc[h] = "decide"
    /\ \/ decisions' = decisions \cup verdicts[h]
       \/ "decisions" \in Faults /\ UNCHANGED decisions
    /\ verdicts' = [verdicts EXCEPT ![h] = {}]
    /\ flows' = [flows EXCEPT ![h] = Tail(@)]
    /\ Goto(h, IF Len(flows[h]) = 1 THEN "print" ELSE "match")
    /\ UNCHANGED <<firings, retired, trigger, markers, todo, lines, refired,
                   briefVars, worldVars>>

\* The executor prints its block, if any, and exits.
Inject(h) ==
    /\ pc[h] = "print"
    /\ window' = [window EXCEPT ![Owner[h]] = [r \in Rows |-> @[r] \o lines[h][r]]]
    /\ Reset(h)
    /\ UNCHANGED <<storeVars, markers, observed>>

-----------------------------------------------------------------------------
(* The command line, between any two steps of any hook *)

Rate(i, outcome) ==
    /\ "rate" \in Verbs
    /\ firings' = [firings EXCEPT ![i].outcome = outcome]
    /\ UNCHANGED <<decisions, retired, trigger, markers, pc, workVars, briefVars, worldVars>>

Retire(r) ==
    /\ "retire" \in Verbs
    /\ retired' = retired \cup {r}
    /\ UNCHANGED <<firings, decisions, trigger, markers, pc, workVars, briefVars, worldVars>>

\* `monition score`: a decision written at once, in the name of the session the
\* verb is given, with nothing fired.  Its read and its write are one
\* step: no action reads the decisions.
ScoreVerb(r, s) ==
    /\ decisions' = decisions \cup {VerdictOn(r, s, "score")}
    /\ UNCHANGED <<firings, retired, trigger, markers, pc, workVars, briefVars, worldVars>>

\* set_trigger moves a row to another trigger kind.
SetTrigger(r, kind) ==
    /\ "set_trigger" \in Verbs
    /\ trigger' = [trigger EXCEPT ![r] = kind]
    /\ UNCHANGED <<firings, decisions, retired, markers, pc, workVars, briefVars, worldVars>>

-----------------------------------------------------------------------------
Disclose(h) ==
    \/ Score(h) \/ InsertBatch(h) \/ EmitBatch(h) \/ FallBack(h)
    \/ \E r \in Rows : Refire(h, r)
    \/ EmitRefired(h) \/ WriteDecisions(h)

HookStep(h) ==
    \/ ReadMax(h) \/ LoadMarkers(h) \/ WriteMarkers(h) \/ MarkerFails(h)
    \/ Match(h) \/ ReadFloor(h) \/ Dedup(h) \/ Disclose(h) \/ Inject(h)

\* Not the code's: where the bound on the log ends the model.
BoundReached ==
    /\ Len(firings) >= MaxFirings
    /\ \A h \in Hooks : pc[h] = "idle"
    /\ UNCHANGED vars

Next ==
    \/ \E h \in Hooks :
         \/ \E event \in DOMAIN FlowsOf : Begin(h, event)
         \/ Compact(h)
         \/ Abort(h)
         \/ HookStep(h)
    \/ \E i \in DOMAIN firings, outcome \in Outcomes : Rate(i, outcome)
    \/ \E r \in Rows : Retire(r)
    \/ \E r \in Rows, s \in ScoreSessions : ScoreVerb(r, s)
    \/ \E r \in Rows, kind \in TriggerKinds : SetTrigger(r, kind)
    \/ BoundReached

Spec == Init /\ [][Next]_vars

-----------------------------------------------------------------------------
(* Properties *)

Verdict == [by : {"hook", "score"}, session : Sessions \cup ScoreSessions, row : Rows,
            fire : BOOLEAN]

StoreType ==
    /\ firings \in Seq([row : Rows, session : Sessions, outcome : Outcomes \cup {Unrated}])
    /\ decisions \subseteq Verdict
    /\ retired \subseteq Rows
    /\ trigger \in [Rows -> TriggerKinds]
    /\ markers \in [Sessions -> Nat]

ControlType ==
    /\ pc \in [Hooks -> {"idle", "readmax", "load", "write", "match", "floor", "dedup",
                         "score", "insert", "readback", "refire", "remax", "decide", "print"}]
    /\ flows \in [Hooks -> Seq(TriggerKinds)]
    /\ \A h \in Hooks : pc[h] \notin {"idle", "print"} => flows[h] # <<>>

WorkType ==
    /\ todo \in [Hooks -> SUBSET Rows]
    /\ verdicts \in [Hooks -> SUBSET Verdict]
    /\ lines \in [Hooks -> [Rows -> Seq(Nat)]]
    /\ refired \in [Hooks -> Rows \cup {NoRow}]

BriefType ==
    /\ floorArg \in [Hooks -> Nat]
    /\ loaded \in [Hooks -> [Sessions -> Nat]]

WorldType ==
    /\ window \in [Sessions -> [Rows -> Seq(Nat)]]
    /\ observed \in [Sessions -> Nat]

TypeOK == StoreType /\ ControlType /\ WorkType /\ BriefType /\ WorldType

Quiet(s) == \A h \in Hooks : Owner[h] = s => pc[h] = "idle"

\* The deduplication contract: a session's context never holds two lines for
\* one row.  Compaction, which empties the context, is what makes a second
\* disclosure legal; a lost, stale or torn marker must never cause one.
AtMostOncePerWindow ==
    \A s \in Sessions, r \in Rows : Len(window[s][r]) <= 1

\* What the agent can see is on the record, where dedup will find it: a row in
\* the context has a firing above whatever floor the marker file gives.
DisclosedIsLogged ==
    \A s \in Sessions, r \in Rows :
        window[s][r] # <<>> => FiredAfter(s, r, markers[s])

\* While nothing kills a hook and markers survive, the converse holds too: a
\* row the context does not hold is armed, so compaction hides nothing for good.
WindowMatchesLog ==
    \A s \in Sessions : Quiet(s) =>
        \A r \in Rows : window[s][r] # <<>> <=> FiredAfter(s, r, markers[s])

\* The [tX/fY] label of a line is what the agent passes to `monition rate`: it
\* must name a firing of that row in that session.
LabelsNameTheirFiring ==
    \A s \in Sessions, r \in Rows : \A k \in DOMAIN window[s][r] :
        /\ window[s][r][k] \in DOMAIN firings
        /\ firings[window[s][r][k]].row = r
        /\ firings[window[s][r][k]].session = s

\* The decisions table is the scorer's history: a 'fire' verdict a hook writes
\* is for a row its session has really fired.  The verb's are for no firing, and
\* the table cannot tell them apart when it was given a session.
FireVerdictHasFiring ==
    \A d \in decisions : d.by = "hook" /\ d.fire => FiredAfter(d.session, d.row, 0)

\* Cold-pause under concurrency: hooks that scored a row from snapshots taken
\* before it reached the limit can still fire it, each at most twice (batch and
\* fallback), so the overrun is bounded by the number of hooks.
PauseOverrunBounded ==
    \A r \in Rows : Rated(firings, r) = {} =>
        Cardinality(FiringsOf(firings, r)) < NUnratedPause + 2 * Cardinality(Hooks)

\* A suppressed row does not start firing again by itself: whatever lifts the
\* suppression is a change of some firing's outcome, never more traffic.
OnlyRatingsLiftSuppression ==
    [][\A r \in Rows : ~Fires(firings, r) /\ Fires(firings', r) =>
         \E i \in DOMAIN firings : firings'[i].outcome # firings[i].outcome]_vars

\* The observer is called after the firing is in the store, so its count never
\* runs ahead of the log.
ObserverNeverAhead ==
    \A s \in Sessions : observed[s] <= Cardinality(SessionIds(s))

\* A hook process, once started, runs to its end.
FairSpec == Spec /\ \A h \in Hooks : WF_vars(HookStep(h))

\* Firings are never dropped silently: unless the hook is killed, a row the log
\* says was fired in the current window reaches the context, or a compaction
\* arms it again.
LoggedReachesWindow ==
    \A s \in Sessions, r \in Rows :
        FiredAfter(s, r, markers[s]) ~>
            (window[s][r] # <<>> \/ ~FiredAfter(s, r, markers[s]))

-----------------------------------------------------------------------------
(* The lifecycle every row goes through, as the abstract specification has it *)

\* Where the hooks hold rows they have passed through dedup.
Choosing == {"score", "insert", "readback", "refire", "remax"}

\* A line of r waits in a hook of session s to be printed.
HasLine(s, r) == \E h \in Hooks : Owner[h] = s /\ lines[h][r] # <<>>

IsChosen(s, r) == \E h \in Hooks : Owner[h] = s /\ pc[h] \in Choosing /\ r \in todo[h]

\* Neither the floor in the file nor one a hook has read leaves r to be fired.
IsCounted(s, r) ==
    /\ FiredAfter(s, r, markers[s])
    /\ \A h \in Hooks : Owner[h] = s /\ pc[h] = "dedup" => FiredAfter(s, r, floorArg[h])

Stage(s, r) ==
    IF Len(window[s][r]) > 1 THEN "shown twice"
    ELSE IF window[s][r] # <<>> THEN "shown"
    ELSE IF HasLine(s, r) THEN "pending"
    ELSE IF IsChosen(s, r) THEN "chosen"
    ELSE IF IsCounted(s, r) THEN "spent"
    ELSE "armed"

Life == [s \in Sessions |-> [r \in Rows |-> Stage(s, r)]]

Lifecycle == INSTANCE RowLifecycle WITH life <- Life

\* With one hook process per session the hooks, the log and the marker file
\* together take every row through that lifecycle, whatever fails.
ImplementsLifecycle == Lifecycle!Spec

-----------------------------------------------------------------------------
(* The inductive invariant behind AtMostOncePerWindow and DisclosedIsLogged *)

Briefing == {"readmax", "load", "write"}

\* Dedup will find a firing of r above every floor session s may be given: the
\* one in the file, one a hook has read, and those that other hooks are about
\* to write back.
Recorded(s, r) ==
    /\ FiredAfter(s, r, markers[s])
    /\ \A g \in Hooks :
         /\ pc[g] = "write" /\ Owner[g] # s => FiredAfter(s, r, loaded[g][s])
         /\ pc[g] = "dedup" /\ Owner[g] = s => FiredAfter(s, r, floorArg[g])

FloorsInLog ==
    /\ \A s \in Sessions : markers[s] <= Len(firings)
    /\ \A h \in Hooks, s \in Sessions : loaded[h][s] <= Len(firings)
    /\ \A h \in Hooks : floorArg[h] <= Len(firings)

WindowOwned ==
    \A s \in Sessions : (\A h \in Hooks : Owner[h] # s) => window[s] = NoLines

\* When a marker is written the context is blank and no line is on its way.
BriefIsBlank(h) ==
    /\ pc[h] \in Briefing => window[Owner[h]] = NoLines
    /\ pc[h] \in Briefing \cup {"idle"} => lines[h] = NoLines

SeenIsRecorded(h) ==
    \A r \in Rows :
        window[Owner[h]][r] # <<>> \/ lines[h][r] # <<>> => Recorded(Owner[h], r)

OnceWithLines(h) ==
    \A r \in Rows : Len(window[Owner[h]][r]) + Len(lines[h][r]) <= 1

\* What a hook has chosen to fire is neither in the context nor among its lines.
ChosenIsUnseen(h) ==
    pc[h] \in Choosing =>
        \A r \in todo[h] : window[Owner[h]][r] = <<>> /\ lines[h][r] = <<>>

InsertedIsRecorded(h) ==
    /\ pc[h] = "readback" => \A r \in todo[h] : Recorded(Owner[h], r)
    /\ pc[h] = "remax" => refired[h] \in todo[h] /\ Recorded(Owner[h], refired[h])

HookInv(h) ==
    /\ BriefIsBlank(h)
    /\ SeenIsRecorded(h)
    /\ OnceWithLines(h)
    /\ ChosenIsUnseen(h)
    /\ InsertedIsRecorded(h)

OnceInv ==
    /\ TypeOK
    /\ FloorsInLog
    /\ WindowOwned
    /\ \A h \in Hooks : HookInv(h)

\* The harness runs the hooks of one session one after the other, which
\* fire_batch relies on ("Sessions write one prompt at a time").
OneHookPerSession == \A g, h \in Hooks : Owner[g] = Owner[h] => g = h
=============================================================================
