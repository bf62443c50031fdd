------------------------------ MODULE Mutations ------------------------------
(***************************************************************************)
(* The verbs that rewrite a row's trigger (store_write.py): set_trigger,   *)
(* retarget and set_threshold.  Each reads the row, updates it, and then   *)
(* inserts one event-grain row into the mutations table: three statements, *)
(* three transactions, with other command-line processes in between.       *)
(***************************************************************************)
EXTENDS Naturals, Sequences, FiniteSets

CONSTANTS
    Clients,        \* command-line processes
    Rows,           \* takeaways
    Kinds,          \* the trigger_kinds in use
    TextSpecs,      \* trigger_specs that are globs or keyword lists
    ToolSpecs,      \* trigger_specs validate_tool_call_spec accepts
    NoSpec,         \* a NULL or empty trigger_spec
    Thresholds,     \* values of sem_threshold in [0, 1]
    NoThreshold,    \* a NULL sem_threshold: the global default
    InitRows,       \* the trigger states rows are created in
    Crashes,        \* whether a verb may die between its statements
    MaxMutations    \* bound: no verb starts once the log is this long

AllKinds == {"edit_path", "session_start", "on_demand", "tool_call"}
Fields == {"trigger_kind", "trigger_spec", "sem_threshold"}
Specs == TextSpecs \cup ToolSpecs \cup {NoSpec}

\* The columns' domains.
Column(f) == CASE f = "trigger_kind" -> Kinds
               [] f = "trigger_spec" -> Specs
               [] OTHER              -> Thresholds \cup {NoThreshold}

AnyValue == UNION {Column(f) : f \in Fields}

TriggerState ==
    {t \in [Fields -> AnyValue] : \A f \in Fields : t[f] \in Column(f)}

\* add() validates the spec of a tool_call row before it inserts it.
SpecFits(t) == t["trigger_kind"] = "tool_call" => t["trigger_spec"] \in ToolSpecs

ASSUME MutationsAssumption ==
    /\ Kinds \subseteq AllKinds
    /\ NoSpec \notin TextSpecs \cup ToolSpecs
    /\ TextSpecs \cap ToolSpecs = {}
    /\ InitRows \subseteq TriggerState
    /\ \A t \in InitRows : SpecFits(t)
    /\ Crashes \in BOOLEAN
    /\ MaxMutations \in Nat

VARIABLES
    rows,       \* the takeaways table: each row's trigger state
    mutations,  \* the mutations table: Seq of [row, verb, changes]
    pc,         \* where each client is
    call,       \* the [row, verb, changes] a client is carrying out
    (* History *)
    past,       \* the takeaways table as it was created and as each mutation
                \* left it: past[k + 1] goes with the k-th mutation
    overlapped, \* rows two verbs have worked on at the same time
    killed      \* rows a verb has changed without living to record it

historyVars == <<past, overlapped, killed>>
vars == <<rows, mutations, pc, call, historyVars>>

NoCall == [row |-> NoSpec, verb |-> "none", changes |-> <<>>]

-----------------------------------------------------------------------------
Init ==
    /\ rows \in [Rows -> InitRows]
    /\ mutations = <<>>
    /\ pc = [c \in Clients |-> "idle"]
    /\ call = [c \in Clients |-> NoCall]
    /\ past = <<rows>>
    /\ overlapped = {}
    /\ killed = {}

\* A client is between the first and the last statement of a verb on row r.
WorksOn(c, r) == pc[c] # "idle" /\ call[c].row = r

\* The changes JSON: for each field the verb writes, what it read and writes.
Changes(r, new) == [f \in DOMAIN new |-> [old |-> rows[r][f], new |-> new[f]]]

\* A verb's SELECT, once its arguments and the row it read pass the checks.
Select(c, r, verb, new) ==
    /\ pc[c] = "idle"
    /\ Len(mutations) < MaxMutations
    /\ call' = [call EXCEPT ![c] =
                  [row |-> r, verb |-> verb, changes |-> Changes(r, new)]]
    /\ pc' = [pc EXCEPT ![c] = "update"]
    /\ overlapped' = IF \E d \in Clients : WorksOn(d, r) THEN overlapped \cup {r}
                     ELSE overlapped
    /\ UNCHANGED <<rows, mutations, past, killed>>

\* The specs the authoring gate lets through for a kind.
Accepted(kind) ==
    CASE kind = "session_start" -> {NoSpec}
      [] kind = "tool_call"     -> ToolSpecs
      [] OTHER                  -> TextSpecs \cup ToolSpecs

SetTrigger(c, r, kind, spec) ==
    /\ spec \in Accepted(kind)
    /\ Select(c, r, "migrate_kind",
              [f \in {"trigger_kind", "trigger_spec"} |->
                 IF f = "trigger_kind" THEN kind ELSE spec])

Retarget(c, r, spec) ==
    /\ rows[r]["trigger_kind"] # "session_start"
    /\ spec \in Accepted(rows[r]["trigger_kind"])
    /\ spec # rows[r]["trigger_spec"]
    /\ Select(c, r, "retarget", [f \in {"trigger_spec"} |-> spec])

SetThreshold(c, r, value) ==
    /\ rows[r]["trigger_kind"] = "on_demand"
    /\ Select(c, r, "tune", [f \in {"sem_threshold"} |-> value])

\* Slip: the new kind and the new spec each in the other's column.
Update_Swapped(c) ==
    LET r == call[c].row
        changes == call[c].changes
        other(f) == IF DOMAIN changes # {"trigger_kind", "trigger_spec"} THEN f
                    ELSE IF f = "trigger_kind" THEN "trigger_spec" ELSE "trigger_kind"
    IN
    /\ pc[c] = "update"
    /\ rows' = [rows EXCEPT ![r] =
                  [f \in Fields |-> IF f \in DOMAIN changes THEN changes[other(f)].new ELSE @[f]]]
    /\ pc' = [pc EXCEPT ![c] = "insert"]
    /\ UNCHANGED <<mutations, call, historyVars>>

\* Slip: of a kind migration only the kind is written.
Update_KindOnly(c) ==
    LET r == call[c].row  changes == call[c].changes IN
    /\ pc[c] = "update"
    /\ rows' = [rows EXCEPT ![r] =
                  [f \in Fields |-> IF f \in DOMAIN changes \ {"trigger_spec"}
                                    THEN changes[f].new ELSE @[f]]]
    /\ pc' = [pc EXCEPT ![c] = "insert"]
    /\ UNCHANGED <<mutations, call, historyVars>>

\* UPDATE takeaways SET ... WHERE id = r, whatever the row holds by now ...
Update(c) ==
    LET r == call[c].row  changes == call[c].changes IN
    /\ pc[c] = "update"
    /\ rows' = [rows EXCEPT ![r] =
                  [f \in Fields |-> IF f \in DOMAIN changes THEN changes[f].new ELSE @[f]]]
    /\ pc' = [pc EXCEPT ![c] = "insert"]
    /\ UNCHANGED <<mutations, call, historyVars>>

\* Slip: the mutation not recorded.
Insert_Skipped(c) ==
    /\ pc[c] = "insert"
    /\ pc' = [pc EXCEPT ![c] = "idle"]
    /\ call' = [call EXCEPT ![c] = NoCall]
    /\ UNCHANGED <<rows, mutations, historyVars>>

\* Slip: of a kind migration only the kind is recorded.
Insert_KindOnly(c) ==
    LET m == call[c]
        kept == IF m.verb = "migrate_kind" THEN {"trigger_kind"} ELSE DOMAIN m.changes
    IN
    /\ pc[c] = "insert"
    /\ mutations' = Append(mutations, [m EXCEPT !.changes = [f \in kept |-> @[f]]])
    /\ past' = Append(past, rows)
    /\ pc' = [pc EXCEPT ![c] = "idle"]
    /\ call' = [call EXCEPT ![c] = NoCall]
    /\ UNCHANGED <<rows, overlapped, killed>>

\* ... then INSERT INTO mutations.
Insert(c) ==
    /\ pc[c] = "insert"
    /\ mutations' = Append(mutations, call[c])
    /\ past' = Append(past, rows)
    /\ pc' = [pc EXCEPT ![c] = "idle"]
    /\ call' = [call EXCEPT ![c] = NoCall]
    /\ UNCHANGED <<rows, overlapped, killed>>

\* The process dies, or its next statement raises: what it did stays.
Crash(c) ==
    /\ Crashes
    /\ pc[c] # "idle"
    /\ killed' = IF pc[c] = "insert" THEN killed \cup {call[c].row} ELSE killed
    /\ pc' = [pc EXCEPT ![c] = "idle"]
    /\ call' = [call EXCEPT ![c] = NoCall]
    /\ UNCHANGED <<rows, mutations, past, overlapped>>

Call(c) ==
    \E r \in Rows :
        \/ \E kind \in Kinds, spec \in Specs : SetTrigger(c, r, kind, spec)
        \/ \E spec \in Specs : Retarget(c, r, spec)
        \/ \E value \in Thresholds \cup {NoThreshold} : SetThreshold(c, r, value)

\* Not the code's: where the bound on the log ends the model.
BoundReached ==
    /\ Len(mutations) >= MaxMutations
    /\ \A c \in Clients : pc[c] = "idle"
    /\ UNCHANGED vars

Next ==
    \/ \E c \in Clients : Call(c) \/ Update(c) \/ Insert(c) \/ Crash(c)
    \/ BoundReached

Spec == Init /\ [][Next]_vars

-----------------------------------------------------------------------------
(* Properties *)

Mutation ==
    {m \in [ row : Rows,
             verb : {"migrate_kind", "retarget", "tune"},
             changes : UNION {[D -> [old : AnyValue, new : AnyValue]] : D \in SUBSET Fields} ] :
        \A f \in DOMAIN m.changes :
            m.changes[f].old \in Column(f) /\ m.changes[f].new \in Column(f)}

TypeOK ==
    /\ rows \in [Rows -> TriggerState]
    /\ mutations \in Seq(Mutation)
    /\ past \in Seq([Rows -> TriggerState])
    /\ Len(past) = Len(mutations) + 1
    /\ overlapped \subseteq Rows
    /\ killed \subseteq Rows
    /\ pc \in [Clients -> {"idle", "update", "insert"}]
    /\ call \in [Clients -> Mutation \cup {NoCall}]
    /\ \A c \in Clients : pc[c] # "idle" => call[c] \in Mutation

\* The entries after the k-th that touch field f of row r.
Later(r, f, k) ==
    {i \in k + 1 .. Len(mutations) : mutations[i].row = r /\ f \in DOMAIN mutations[i].changes}

\* v is what the contract's reconstruction rule gives for field f of row r as of
\* the k-th mutation: undoing newest first, the old value of the oldest later
\* entry has the last word.
Undone(r, f, k, v) ==
    /\ Later(r, f, k) = {} => v = rows[r][f]
    /\ \A i \in Later(r, f, k) :
         (\A j \in Later(r, f, k) : i <= j) => v = mutations[i].changes[f].old

\* When row r was created (0), and its mutations.
Moments(r) == {k \in 0 .. Len(mutations) : k > 0 => mutations[k].row = r}

Settled(r) == \A c \in Clients : ~WorksOn(c, r)

Rebuilt(r) ==
    \A k \in Moments(r), f \in Fields : Undone(r, f, k, past[k + 1][r][f])

\* The reconstruction rule of the mutations table: undoing a row's entries from
\* the present gives every earlier state of its trigger, whatever other verbs do
\* to other rows, unless two verbs on that row overlapped or one was killed.
Reconstructs ==
    \A r \in Rows \ (overlapped \cup killed) : Settled(r) => Rebuilt(r)

\* A tool_call row holds a spec its matcher can parse, killed verbs or not: the
\* authoring gate looks at the kind the row has when the spec is stored, unless
\* verbs on that row overlap.
SpecFitsKind == \A r \in Rows \ overlapped : SpecFits(rows[r])

\* v is a value field f of r was created with, or one a recorded verb wrote.
Explained(r, f, v) ==
    \/ v = past[1][r][f]
    \/ \E i \in DOMAIN mutations :
         /\ mutations[i].row = r
         /\ f \in DOMAIN mutations[i].changes
         /\ mutations[i].changes[f].new = v

\* What survives overlapping verbs: the chain of a row's entries may be broken,
\* but every value the row holds, and every old value an entry claims, was put
\* there by a mutation on record, unless a verb was killed.
NothingUnexplained ==
    \A r \in Rows \ killed : Settled(r) =>
        \A f \in Fields :
            /\ Explained(r, f, rows[r][f])
            /\ \A i \in Later(r, f, 0) : Explained(r, f, mutations[i].changes[f].old)
=============================================================================
