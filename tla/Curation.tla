------------------------------ MODULE Curation ------------------------------
(***************************************************************************)
(* How rows come into a store and what is held against them: the birth     *)
(* gates of `add` and their resolutions (cli.py, store_write.py), the      *)
(* import of a lessons file (adopt.py) and the evaluation of a finished    *)
(* session (evaluate.py).  Every statement commits by itself; two people,  *)
(* or an agent and a job, may be at it at once and be killed in between.   *)
(***************************************************************************)
EXTENDS Scorer

CONSTANTS
    Clients,        \* processes running the command line
    Lessons,        \* one-liners
    Details,        \* pieces of full content
    SameLine,       \* pairs of one-liners the duplicate gate takes for near-duplicates
    SameText,       \* pairs of texts (one-liner and content) that the resurrection gate
                    \* takes for the same lesson
    File,           \* the lessons file: [lesson, words] in order, Malformed where one is not
    Malformed,
    Sessions,       \* finished sessions an evaluator is given
    FirstRows,      \* the rows of the store at the start: the possible choices
    MaxRows,        \* bound: rows
    MaxCalls,       \* bound: commands
    MaxFirings,     \* bound: firings
    Kills

Wordings == Lessons \cup Details

Row == [lesson : Lessons, active : BOOLEAN, signature : BOOLEAN,
        born : SUBSET Wordings, words : SUBSET Wordings]

\* A row's full content starts as the one it was added with.
ASSUME CurationAssumption ==
    /\ Malformed \notin Sessions
    /\ FirstRows \subseteq {rs \in Seq(Row) : \A i \in DOMAIN rs : rs[i].born \subseteq rs[i].words}
    /\ \A m \in Lessons : <<m, m>> \in SameLine
    /\ File \in Seq([lesson : Lessons, words : SUBSET Wordings] \cup {Malformed})
    /\ MaxRows \in Nat /\ MaxCalls \in Nat /\ MaxFirings \in Nat
    /\ Kills \in BOOLEAN

VARIABLES
    rows,       \* takeaways, by id: [lesson, active, signature, born, words], with the
                \* pieces of the full content it was born with and those it has now
    latest,     \* each row's latest decision: "none", "fire" or "suppress"
    firings,    \* the firings, by id: [row, session, outcome]
    violations, \* the violations table: a sequence of <<row, session>>
    me,         \* each client: where it is and what it has read; as history, the
                \* rows that were twins of its lesson at its first read, and those
                \* that changed between its reads
    calls,
    (* History *)
    merged,     \* <<row, wording>> reported as merged
    crossed     \* rows and sessions two clients were merging or evaluating at once

vars == <<rows, latest, firings, violations, me, calls, merged, crossed>>
history == <<merged, crossed>>
store == <<rows, latest, firings, violations>>

Idle == [pc |-> "idle", lesson |-> Malformed, words |-> {}, forced |-> FALSE, id |-> 0,
         suppressed |-> {}, seen |-> {}, session |-> Malformed, left |-> {}, block |-> 0,
         twins |-> {}, stirred |-> {}]

Init ==
    /\ rows \in FirstRows
    /\ latest \in [DOMAIN rows -> {"fire", "suppress"}]
    /\ firings = <<>>
    /\ violations = <<>>
    /\ me = [c \in Clients |-> Idle]
    /\ calls = 0
    /\ merged = {}
    /\ crossed = {}

At(c, step) == me[c].pc = step
Goto(c, step) == me' = [me EXCEPT ![c].pc = step]
Done(c) == me' = [me EXCEPT ![c] = Idle]
Text(entry) == {entry.lesson} \cup entry.words
FiredIn(s) == {i \in DOMAIN rows : \E k \in FiringsOf(firings, i) : firings[k].session = s}

Begin(c, state) ==
    /\ At(c, "idle")
    /\ calls < MaxCalls
    /\ calls' = calls + 1
    /\ me' = [me EXCEPT ![c] = state]
    /\ UNCHANGED <<store, merged>>

-----------------------------------------------------------------------------
(* add: the resurrection gate, the duplicate gate, the insert *)

\* --force skips the duplicate gate; --resolve goes past both.
StartAdd(c, lesson, words, forced) ==
    /\ Begin(c, [Idle EXCEPT !.pc = "gate 1", !.lesson = lesson, !.words = words,
                             !.forced = forced])
    /\ UNCHANGED crossed

HeldBack == {i \in DOMAIN rows : latest[i] = "suppress"}

\* The active rows that the gate in charge of them takes for what c adds: of those
\* held back the ones with a like text, of the others the ones with a like one-liner.
Twins(c) ==
    {i \in DOMAIN rows :
        /\ rows[i].active
        /\ IF i \in HeldBack THEN <<Text(me[c]), Text(rows[i])>> \in SameText
           ELSE <<me[c].lesson, rows[i].lesson>> \in SameLine}

\* _latest_decisions(), read anew by each gate.
ReadDecisions(c) ==
    /\ \/ /\ At(c, "gate 1")
          /\ me' = [me EXCEPT ![c].pc = "resurrection", ![c].suppressed = HeldBack,
                              ![c].twins = Twins(c)]
       \/ /\ At(c, "gate 2")
          /\ me' = [me EXCEPT ![c].pc = "duplicate", ![c].suppressed = HeldBack]
    /\ UNCHANGED <<store, calls, history>>

\* Among the rows the decisions hold back: one-liner and full content compared.
Resurrectable(c) ==
    {i \in me[c].suppressed : rows[i].active /\ <<Text(me[c]), Text(rows[i])>> \in SameText}

\* find_resurrection: an active row held back by the scorer says the same.  The
\* author is asked, and nothing is added.
Resurrection(c) ==
    /\ At(c, "resurrection")
    /\ IF Resurrectable(c) # {} THEN Done(c)
       ELSE Goto(c, IF me[c].forced THEN "insert" ELSE "gate 2")
    /\ UNCHANGED <<store, calls, history>>

\* Slip: only rows the scorer has decided on are compared.
Duplicates_Decided(c) ==
    {i \in (DOMAIN rows) \ me[c].suppressed :
        /\ rows[i].active /\ <<me[c].lesson, rows[i].lesson>> \in SameLine
        /\ latest[i] = "fire"}

\* Among all other rows: one-liners alone compared.
Duplicates(c) ==
    {i \in (DOMAIN rows) \ me[c].suppressed :
        rows[i].active /\ <<me[c].lesson, rows[i].lesson>> \in SameLine}

\* find_active_duplicate.
Duplicate(c) ==
    /\ At(c, "duplicate")
    /\ IF Duplicates(c) # {} THEN Done(c) ELSE Goto(c, "insert")
    /\ UNCHANGED <<store, calls, history>>

NewRow(lesson, words) ==
    /\ Len(rows) < MaxRows
    /\ rows' = Append(rows, [lesson |-> lesson, active |-> TRUE, signature |-> FALSE,
                             born |-> words, words |-> words])
    /\ latest' = Append(latest, "none")

Insert(c) ==
    /\ At(c, "insert")
    /\ NewRow(me[c].lesson, me[c].words)
    /\ Done(c)
    /\ UNCHANGED <<firings, violations, calls, history>>

-----------------------------------------------------------------------------
(* resolve_add: new | merge:ID | log-helpful:ID *)

ResolveNew(c, lesson, words) ==
    /\ At(c, "idle") /\ calls < MaxCalls
    /\ calls' = calls + 1
    /\ NewRow(lesson, words)
    /\ UNCHANGED <<firings, violations, me, history>>

\* merge_resurrection reads the content ...
StartMerge(c, id, lesson, words) ==
    /\ id \in DOMAIN rows
    /\ Begin(c, [Idle EXCEPT !.pc = "merge", !.lesson = lesson, !.words = words, !.id = id,
                             !.seen = rows[id].words])
    /\ crossed' = crossed \cup {id : d \in {d \in Clients : At(d, "merge") /\ me[d].id = id}}

\* Slip: the new wording in place of the old.
Merged_Replaces(c) == Text(me[c])

Merged(c) == me[c].seen \cup Text(me[c])

\* Clients at the gates, one of whose twins is no longer what it was at their first
\* read.
Reading == {"resurrection", "gate 2", "duplicate"}

Stirred(id) ==
    [c \in Clients |-> IF me[c].pc \in Reading /\ id \in me[c].twins
                       THEN [me[c] EXCEPT !.stirred = @ \cup {id}] ELSE me[c]]

\* ... and writes it back with the new wording.
Merge(c) ==
    /\ At(c, "merge")
    /\ rows' = [rows EXCEPT ![me[c].id].words = Merged(c)]
    /\ merged' = merged \cup {<<me[c].id, w>> : w \in Text(me[c])}
    /\ me' = [Stirred(me[c].id) EXCEPT ![c] = Idle]
    /\ UNCHANGED <<latest, firings, violations, calls, crossed>>

NewFiring(id, s) ==
    /\ Len(firings) < MaxFirings
    /\ firings' = Append(firings, [row |-> id, session |-> s, outcome |-> Unrated])

\* log_helpful_equivalent: a firing of no session ...
StartRevive(c, id) ==
    /\ At(c, "idle") /\ calls < MaxCalls
    /\ id \in DOMAIN rows
    /\ calls' = calls + 1
    /\ NewFiring(id, Malformed)
    /\ me' = [me EXCEPT ![c] = [Idle EXCEPT !.pc = "revive"]]
    /\ UNCHANGED <<rows, latest, violations, history>>

\* ... whose id is read as the highest there is ...
NewestFiring(c) ==
    /\ At(c, "revive")
    /\ me' = [me EXCEPT ![c].pc = "rate", ![c].id = Len(firings)]
    /\ UNCHANGED <<store, calls, history>>

\* ... and which is then rated.  The decision that holds the row back stays what it
\* is until a hook scores the row again.
RateHelpful(c) ==
    /\ At(c, "rate")
    /\ firings' = [firings EXCEPT ![me[c].id].outcome = "helpful"]
    /\ Done(c)
    /\ UNCHANGED <<rows, latest, violations, calls, history>>

SetSignature(c, id, on) ==
    /\ id \in DOMAIN rows
    /\ rows[id].signature # on
    /\ At(c, "idle") /\ calls < MaxCalls
    /\ calls' = calls + 1
    /\ rows' = [rows EXCEPT ![id].signature = on]
    /\ UNCHANGED <<latest, firings, violations, me, history>>

-----------------------------------------------------------------------------
(* adopt: every well-formed block becomes a row, past all gates *)

StartAdopt(c) ==
    /\ File # <<>>
    /\ Begin(c, [Idle EXCEPT !.pc = "adopt", !.block = 1])
    /\ UNCHANGED crossed

AdoptBlock(c) ==
    /\ At(c, "adopt")
    /\ LET b == me[c].block IN
         /\ IF File[b] = Malformed THEN UNCHANGED <<rows, latest>>
            ELSE NewRow(File[b].lesson, File[b].words)
         /\ IF b = Len(File) THEN Done(c) ELSE me' = [me EXCEPT ![c].block = b + 1]
    /\ UNCHANGED <<firings, violations, calls, history>>

-----------------------------------------------------------------------------
(* evaluate_session: which signature-bearing rows were violated, not fired *)

\* The firings of the session are read first ...
StartEvaluate(c, s) ==
    /\ Begin(c, [Idle EXCEPT !.pc = "evaluate", !.session = s,
                             !.seen = FiredIn(s)])
    /\ crossed' = crossed \cup {s : d \in {d \in Clients : me[d].session = s}}

\* ... then the rows: those that bear a signature the transcript matches (any set of
\* them) and did not fire.
ReadRows(c) ==
    /\ At(c, "evaluate")
    /\ \E hit \in SUBSET {i \in DOMAIN rows : rows[i].active /\ rows[i].signature} :
         me' = [me EXCEPT ![c].pc = "check", ![c].left = hit \ me[c].seen]
    /\ UNCHANGED <<store, calls, history>>

\* Slip: log_violation without its look for an earlier one.
Unlogged_Unasked(c, id) == TRUE

Unlogged(c, id) == \A k \in DOMAIN violations : violations[k] # <<id, me[c].session>>

Check(c) ==
    /\ At(c, "check")
    /\ IF me[c].left = {} THEN Done(c)
       ELSE LET id == CHOOSE i \in me[c].left : \A j \in me[c].left : i <= j IN
            me' = IF Unlogged(c, id)
                  THEN [me EXCEPT ![c].pc = "log", ![c].id = id]
                  ELSE [me EXCEPT ![c].left = @ \ {id}]
    /\ UNCHANGED <<store, calls, history>>

LogViolation(c) ==
    /\ At(c, "log")
    /\ violations' = Append(violations, <<me[c].id, me[c].session>>)
    /\ me' = [me EXCEPT ![c].pc = "check", ![c].left = @ \ {me[c].id}]
    /\ UNCHANGED <<rows, latest, firings, calls, history>>

-----------------------------------------------------------------------------
Kill(c) ==
    /\ Kills /\ ~At(c, "idle")
    /\ Done(c)
    /\ UNCHANGED <<store, calls, history>>

(* The rest of the system: hooks fire and score rows, people rate and retire. *)

Verdict(id) == IF Fires(firings, id) THEN "fire" ELSE "suppress"

\* The decision about row id, which may move it from one gate's half to the other's.
Decide(id) ==
    /\ latest' = [latest EXCEPT ![id] = Verdict(id)]
    /\ me' = IF (Verdict(id) = "suppress") # (id \in HeldBack) THEN Stirred(id) ELSE me

\* A hook discloses a row that has not fired in its session, or holds it back.
HookScores(id, s) ==
    /\ id \in DOMAIN rows /\ rows[id].active
    /\ id \notin FiredIn(s)
    /\ Decide(id)
    /\ IF Verdict(id) = "fire" THEN NewFiring(id, s) ELSE UNCHANGED firings
    /\ UNCHANGED <<rows, violations, calls, history>>

\* `monition score` decides and fires nothing.
ScoreVerb(id) ==
    /\ id \in DOMAIN rows
    /\ Decide(id)
    /\ UNCHANGED <<rows, firings, violations, calls, history>>

RateNoise(k) ==
    /\ k \in DOMAIN firings
    /\ firings' = [firings EXCEPT ![k].outcome = "noise"]
    /\ UNCHANGED <<rows, latest, violations, me, calls, history>>

Retire(id) ==
    /\ id \in DOMAIN rows /\ rows[id].active
    /\ rows' = [rows EXCEPT ![id].active = FALSE]
    /\ me' = Stirred(id)
    /\ UNCHANGED <<latest, firings, violations, calls, history>>

Ids == 1 .. MaxRows

Next ==
    \/ \E c \in Clients :
         \/ \E m \in Lessons, w \in SUBSET Details :
              \/ ResolveNew(c, m, w)
              \/ \E f \in BOOLEAN : StartAdd(c, m, w, f)
              \/ \E i \in Ids : StartMerge(c, i, m, w)
         \/ \E i \in Ids : StartRevive(c, i) \/ (\E on \in BOOLEAN : SetSignature(c, i, on))
         \/ StartAdopt(c) \/ (\E s \in Sessions : StartEvaluate(c, s))
         \/ ReadDecisions(c) \/ Resurrection(c) \/ Duplicate(c) \/ Insert(c)
         \/ Merge(c) \/ NewestFiring(c) \/ RateHelpful(c) \/ AdoptBlock(c)
         \/ ReadRows(c) \/ Check(c) \/ LogViolation(c) \/ Kill(c)
    \/ \E i \in Ids, s \in Sessions : HookScores(i, s)
    \/ \E i \in Ids : ScoreVerb(i) \/ Retire(i)
    \/ \E k \in 1 .. MaxFirings : RateNoise(k)

Spec == Init /\ [][Next]_vars

-----------------------------------------------------------------------------
(* Properties *)

Adding == {"gate 1", "resurrection", "gate 2", "duplicate", "insert"}
Evaluating == {"evaluate", "check", "log"}

Client == [pc : {"idle", "merge", "revive", "rate", "adopt"} \cup Adding \cup Evaluating,
           lesson : Lessons \cup {Malformed}, words : SUBSET Wordings, forced : BOOLEAN,
           id : Nat, suppressed : SUBSET Nat, seen : SUBSET (Nat \cup Wordings),
           session : Sessions \cup {Malformed}, left : SUBSET Nat, block : Nat,
           twins : SUBSET Nat, stirred : SUBSET Nat]

\* Every variable has its type, every row has a latest decision (or "none"), and
\* whoever is about to write has the row and the wording for it.
TypeOK ==
    /\ rows \in Seq(Row)
    /\ latest \in Seq({"none", "fire", "suppress"})
    /\ Len(latest) = Len(rows)
    /\ firings \in Seq([row : Nat, session : Sessions \cup {Malformed},
                       outcome : Outcomes \cup {Unrated}])
    /\ violations \in Seq(Nat \X Sessions)
    /\ me \in [Clients -> Client]
    /\ calls \in Nat
    /\ merged \subseteq (DOMAIN rows) \X Wordings
    /\ \A c \in Clients :
         /\ me[c].pc \in Adding \cup {"merge"} => me[c].lesson \in Lessons
         /\ me[c].pc = "merge" => me[c].id \in DOMAIN rows /\ me[c].seen \subseteq Wordings
         /\ me[c].pc = "rate" => me[c].id \in DOMAIN firings
         /\ me[c].pc = "revive" => Len(firings) > 0
         /\ me[c].pc \in Evaluating => me[c].session \in Sessions
         /\ me[c].pc = "adopt" => me[c].block \in DOMAIN File
         /\ me[c].twins \subseteq DOMAIN rows

\* The two gates cover for each other: an author about to add without --force was
\* shown every active row that, when add first read the decisions, the gate in charge
\* of it took for the same.  A row that is held back or revived, retired or merged into
\* between the two gates' reads is excused (it may be in neither half); so is, at any
\* time, a row held back that shares the one-liner and not the text: no gate is made
\* for it.
NoUnnoticedTwin ==
    \A c \in Clients :
        At(c, "insert") /\ ~me[c].forced => me[c].twins \subseteq me[c].stirred

\* One violation per row and session, however often a session is evaluated and
\* evaluations are killed, while no two evaluate it at the same time (log_violation
\* looks and inserts in two statements).
OneViolationEach ==
    \A j, k \in DOMAIN violations :
        violations[j] = violations[k] /\ violations[j][2] \notin crossed => j = k

\* No wording is lost: what a merge reported, and the content the row was born with,
\* stays, in every row into which no two merges have ever overlapped.
MergesKept ==
    /\ \A m \in merged : m[1] \notin crossed => m[2] \in rows[m[1]].words
    /\ \A i \in DOMAIN rows \ crossed : rows[i].born \subseteq rows[i].words
=============================================================================
