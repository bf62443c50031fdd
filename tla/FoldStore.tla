----------------------------- MODULE FoldStore -----------------------------
(***************************************************************************)
(* fold_store (init_sync.py): the rows of a per-repository store, once it  *)
(* is migrated (DoltLadder), copied into the hub under new ids.  Every     *)
(* SELECT and every INSERT is a statement of its own, without a lock on    *)
(* either store, while sessions may use both.                              *)
(***************************************************************************)
EXTENDS DoltLadder, SequencesExt

CONSTANTS
    Folders,        \* fold processes
    Children,       \* the tables that refer to takeaways, in the code's order
    MaxKids,        \* bound: sessions add to a child table that has fewer rows than this
    MaxNative,      \* bound: rows sessions add to the hub
    LiveSource,     \* whether sessions may use the source while it is folded
    FoldsMayDie

ASSUME FoldStoreAssumption ==
    /\ Children \in Seq(ToSet(Children)) /\ "takeaways" \notin ToSet(Children)
    /\ MaxKids \in Nat /\ MaxNative \in Nat
    /\ LiveSource \in BOOLEAN /\ FoldsMayDie \in BOOLEAN

Tables == <<"takeaways">> \o Children
N == Len(Tables)

\* A row of any table: its id, the takeaway it refers to (its own id, in the
\* takeaways table), its origin, and, as history, the takeaway it is really about.
VARIABLES
    kids,       \* the source's child tables: per table, rows [id, row]
    hub,        \* the hub's tables: per table, rows [id, row, origin, about]
    fold,       \* each fold process: [pc, k, read, todo, base, before]
    outcome,
    (* History *)
    muddled     \* two folds overlapped, one died or failed part of the way, or it
                \* folded rows whose origin was never filled

foldVars == <<kids, hub, fold, outcome, muddled>>
vars == <<ladderVars, foldVars>>

None == [t \in ToSet(Tables) |-> {}]
Idle == [pc |-> "idle", k |-> 1, read |-> None, todo |-> None,
         base |-> [t \in ToSet(Tables) |-> 0], before |-> [t \in ToSet(Tables) |-> 0]]

InitFold ==
    /\ Init
    /\ kids \in [ToSet(Children) ->
                   {{}} \cup {{[id |-> 1, row |-> i]} : i \in {i \in Ids : status[i] # Absent}}]
    /\ hub = None
    /\ fold = [f \in Folders |-> Idle]
    /\ outcome = [f \in Folders |-> "none"]
    /\ muddled = FALSE

MaxId(rows) == Max({0} \cup {r.id : r \in rows})

\* The source's table as a SELECT returns it.
Source(t) ==
    IF t = "takeaways"
    THEN {[id |-> i, row |-> i, origin |-> origin[i], about |-> <<"source", i>>] :
             i \in {i \in Ids : status[i] # Absent}}
    ELSE {[id |-> c.id, row |-> c.row, origin |-> Null, about |-> <<"source", c.row>>] : c \in kids[t]}

Busy == \E f \in Folders : fold[f].pc # "idle"

-----------------------------------------------------------------------------
(* One fold *)

\* On to the next table, or to the next phase.
Advance(f, next) ==
    IF fold[f].k < N THEN [fold[f] EXCEPT !.k = @ + 1]
    ELSE [fold[f] EXCEPT !.k = 1, !.pc = next]

End(f, result) ==
    /\ fold' = [fold EXCEPT ![f] = Idle]
    /\ outcome' = [outcome EXCEPT ![f] = result]

\* Slip: the hub is not asked whether it holds the source already.
Guard_Unasked(f) ==
    /\ fold[f].pc = "idle" /\ outcome[f] = "none"
    /\ plan = {}
    /\ {"reach", "signature"} \subseteq has
    /\ fold' = [fold EXCEPT ![f].pc = "read"]
    /\ muddled' = (muddled \/ Busy \/ unfilled)
    /\ UNCHANGED <<kids, hub, outcome>>

\* The source must have the v6 and v7 columns of takeaways, the hub must pass the
\* reader, and the hub must hold no row of this repository.
Guard(f) ==
    /\ fold[f].pc = "idle" /\ outcome[f] = "none"
    /\ plan = {}
    /\ IF {"reach", "signature"} \subseteq has
       THEN IF \E r \in hub["takeaways"] : r.origin = Repo
            THEN End(f, "already") /\ UNCHANGED muddled
            ELSE /\ fold' = [fold EXCEPT ![f].pc = "read"]
                 /\ muddled' = (muddled \/ Busy \/ unfilled)
                 /\ UNCHANGED outcome
       ELSE End(f, "not v7") /\ UNCHANGED muddled
    /\ UNCHANGED <<kids, hub>>

\* SELECT * of each table in turn; violations came with v7 and may be missing.
Read(f) ==
    LET t == Tables[fold[f].k] IN
    /\ fold[f].pc = "read"
    /\ IF t \in {"decisions", "violations"} \ has
       THEN End(f, "error")
       ELSE /\ fold' = [fold EXCEPT ![f] = [Advance(f, "max") EXCEPT !.read[t] = Source(t)]]
            /\ UNCHANGED outcome
    /\ UNCHANGED <<kids, hub, muddled>>

ReadMax(f) ==
    LET t == Tables[fold[f].k] IN
    /\ fold[f].pc = "max"
    /\ fold' = [fold EXCEPT ![f] = [Advance(f, "count") EXCEPT !.base[t] = MaxId(hub[t])]]
    /\ UNCHANGED <<kids, hub, outcome, muddled>>

Count(f) ==
    LET t == Tables[fold[f].k]  next == Advance(f, "insert") IN
    /\ fold[f].pc = "count"
    /\ fold' = [fold EXCEPT ![f] = [next EXCEPT !.before[t] = Cardinality(hub[t]),
                                                !.todo = fold[f].read]]
    /\ UNCHANGED <<kids, hub, outcome, muddled>>

\* Slip: child rows keep the takeaway id they had in the source.
Renumbered_ChildrenKept(f, t, r) ==
    [r EXCEPT !.id = @ + fold[f].base[t],
              !.row = IF t = "takeaways" THEN @ + fold[f].base["takeaways"] ELSE @]

Renumbered(f, t, r) ==
    [r EXCEPT !.id = @ + fold[f].base[t], !.row = @ + fold[f].base["takeaways"]]

\* Slip: child tables before the table they refer to.
Current_ChildrenFirst(f) == Tables[N + 1 - fold[f].k]

Current(f) == Tables[fold[f].k]

\* INSERT, a chunk of one row at a time (the code's is 100): an id that is taken by
\* now is a duplicate key, which ends the fold where it is.
Insert(f) ==
    LET t == Current(f)
        left == fold[f].todo[t]
    IN
    /\ fold[f].pc = "insert"
    /\ \/ /\ left = {}
          /\ fold' = [fold EXCEPT ![f] = Advance(f, "after")]
          /\ UNCHANGED <<hub, outcome, muddled>>
       \/ \E r \in left : LET new == Renumbered(f, t, r) IN
          /\ \A q \in left : r.id <= q.id
          /\ IF \E q \in hub[t] : q.id = new.id
             THEN /\ End(f, "error")
                  /\ muddled' = TRUE
                  /\ UNCHANGED hub
             ELSE /\ hub' = [hub EXCEPT ![t] = @ \cup {new}]
                  /\ fold' = [fold EXCEPT ![f].todo[t] = @ \ {r}]
                  /\ UNCHANGED <<outcome, muddled>>
    /\ UNCHANGED kids

Conserved(f, t) == Cardinality(hub[t]) = fold[f].before[t] + Cardinality(fold[f].read[t])

\* The counts again, and the commit.  A count that is off is an error, but what
\* was inserted stays.
CountAfter(f) ==
    LET t == Tables[fold[f].k] IN
    /\ fold[f].pc = "after"
    /\ IF ~Conserved(f, t) THEN End(f, "not conserved")
       ELSE IF fold[f].k < N
            THEN fold' = [fold EXCEPT ![f].k = @ + 1] /\ UNCHANGED outcome
            ELSE End(f, "folded")
    /\ UNCHANGED <<kids, hub, muddled>>

FoldDies(f) ==
    /\ FoldsMayDie
    /\ fold[f].pc # "idle"
    /\ End(f, "killed")
    /\ muddled' = TRUE
    /\ UNCHANGED <<kids, hub>>

\* A fold that was told to migrate first is run again (after any other end, the
\* next fold is that of another folder).
Again(f) ==
    /\ outcome[f] = "not v7"
    /\ outcome' = [outcome EXCEPT ![f] = "none"]
    /\ UNCHANGED <<kids, hub, fold, muddled>>

FoldStep(f) ==
    \/ Guard(f) \/ Read(f) \/ ReadMax(f) \/ Count(f)
    \/ Insert(f) \/ CountAfter(f) \/ FoldDies(f) \/ Again(f)

-----------------------------------------------------------------------------
(* The sessions of the two stores: each statement takes the next free id. *)

HubAdd(o) ==
    /\ Cardinality({r \in hub["takeaways"] : r.about[1] = "hub"}) < MaxNative
    /\ LET id == MaxId(hub["takeaways"]) + 1 IN
       hub' = [hub EXCEPT !["takeaways"] =
                 @ \cup {[id |-> id, row |-> id, origin |-> o, about |-> <<"hub", id>>]}]
    /\ UNCHANGED <<ladderVars, kids, fold, outcome, muddled>>

HubFire(t, r) ==
    /\ Cardinality(hub[t]) < MaxKids
    /\ hub' = [hub EXCEPT ![t] = @ \cup {[id |-> MaxId(@) + 1, row |-> r.id,
                                          origin |-> Null, about |-> r.about]}]
    /\ UNCHANGED <<ladderVars, kids, fold, outcome, muddled>>

SourceInUse == Fingerprint /\ plan = {} /\ (LiveSource \/ ~Busy)

SourceAdd(i) ==
    /\ SourceInUse
    /\ status[i] = Absent
    /\ \A j \in Ids : j < i => status[j] # Absent
    /\ status' = [status EXCEPT ![i] = "active"]
    /\ origin' = [origin EXCEPT ![i] = Repo]
    /\ UNCHANGED <<has, domain, mirror, plan, migrations, was, unfilled, foldVars>>

SourceFire(t, i) ==
    /\ SourceInUse
    /\ status[i] # Absent
    /\ Cardinality(kids[t]) < MaxKids
    /\ kids' = [kids EXCEPT ![t] = @ \cup {[id |-> MaxId(@) + 1, row |-> i]}]
    /\ UNCHANGED <<ladderVars, hub, fold, outcome, muddled>>

\* The reader of a child table raises on these.
Orphans(t) == {c \in hub[t] : \A r \in hub["takeaways"] : r.id # c.row}

\* Bound: the source is migrated before it is first folded, as fold asks.
BeforeFold == \A f \in Folders : fold[f].pc = "idle" /\ outcome[f] \in {"none", "not v7"}

Next ==
    \/ Migrate /\ BeforeFold /\ UNCHANGED foldVars
    \/ \E f \in Folders : FoldStep(f) /\ UNCHANGED ladderVars
    \/ \E o \in {Null, Repo} : HubAdd(o)
    \/ \E t \in ToSet(Children), r \in hub["takeaways"] : HubFire(t, r)
    \/ \E i \in Ids : SourceAdd(i)
    \/ \E t \in ToSet(Children), i \in Ids : SourceFire(t, i)

Spec == InitFold /\ [][Next]_vars

-----------------------------------------------------------------------------
(* Properties *)

Names == ToSet(Tables)
Row == [id : Nat, row : Nat, origin : {Null, Repo}, about : {"source", "hub"} \X Nat]
Progress == [pc : {"idle", "read", "max", "count", "insert", "after"}, k : 1 .. N,
             read : [Names -> SUBSET Row], todo : [Names -> SUBSET Row],
             base : [Names -> Nat], before : [Names -> Nat]]

\* The values the rows of the two stores and the progress of a fold can take.
TypeOK ==
    /\ LadderTypeOK
    /\ kids \in [ToSet(Children) -> SUBSET [id : Nat, row : Ids]]
    /\ hub \in [Names -> SUBSET Row]
    /\ fold \in [Folders -> Progress]
    /\ outcome \in [Folders -> {"none", "already", "not v7", "error", "not conserved",
                               "folded", "killed"}]
    /\ muddled \in BOOLEAN

\* Every child row of the hub refers to a takeaway, at every moment of a fold and
\* after one that died: the reader raises on the first orphan, for every session of
\* the hub.  It needs a source nobody writes to between the reads.
NoOrphans ==
    \A t \in ToSet(Children) : Orphans(t) = {}

\* No evidence changes hands: the takeaway a child row refers to is the one it was
\* written about, whatever ids the hub's sessions took while the fold was reading.
\* It too needs a source nobody writes to between the reads.
RightParent ==
    \A t \in ToSet(Children), r \in hub["takeaways"] : \A c \in hub[t] :
        r.id = c.row => r.about = c.about

\* A source is folded once: however often fold is started, no source row is in the
\* hub twice, unless folds overlapped, one broke off, or origins were never filled.
FoldedOnce ==
    ~muddled =>
        \A r, q \in hub["takeaways"] : r.about = q.about => r = q
=============================================================================
