-------------------------- MODULE Mutations_proofs --------------------------
(***************************************************************************)
(* The reconstruction rule of the mutations table and the authoring gate,  *)
(* proved for any clients, rows, specs, thresholds and length of the log.  *)
(***************************************************************************)
EXTENDS Mutations, TLAPS

\* Client c has changed field f of row r and not recorded it yet.
Unrecorded(c, r, f) ==
    pc[c] = "insert" /\ call[c].row = r /\ f \in DOMAIN call[c].changes

\* v is the value of the field before any change that is not recorded yet.
Base(r, f, v) ==
    /\ (\A c \in Clients : ~Unrecorded(c, r, f)) => v = rows[r][f]
    /\ \A c \in Clients : Unrecorded(c, r, f) => v = call[c].changes[f].old

\* The reconstruction rule at every moment, a verb under way or not.
UndoneToBase(r, f, k, v) ==
    /\ Later(r, f, k) = {} => Base(r, f, v)
    /\ \A i \in Later(r, f, k) :
         (\A j \in Later(r, f, k) : i <= j) => v = mutations[i].changes[f].old

\* Two verbs at work on one row have overlapped.
OneVerbPerRow ==
    \A c, d \in Clients, r \in Rows :
        WorksOn(c, r) /\ WorksOn(d, r) /\ r \notin overlapped => c = d

\* What a verb has read is what the table holds until the verb changes it.
ReadsAreFresh ==
    \A c \in Clients : pc[c] = "update" /\ call[c].row \notin overlapped =>
        \A f \in DOMAIN call[c].changes : call[c].changes[f].old = rows[call[c].row][f]

RebuiltToBase(r) ==
    \A k \in Moments(r), f \in Fields : UndoneToBase(r, f, k, past[k + 1][r][f])

RebuildInv ==
    /\ TypeOK
    /\ OneVerbPerRow
    /\ ReadsAreFresh
    /\ \A r \in Rows \ (overlapped \cup killed) : RebuiltToBase(r)

LEMMA InitType == Init => TypeOK
<1> SUFFICES ASSUME Init PROVE TypeOK
    OBVIOUS
<1>1. rows \in [Rows -> TriggerState]
    BY MutationsAssumption DEF Init
<1>2. past \in Seq([Rows -> TriggerState]) /\ Len(past) = 1 /\ Len(mutations) = 0
    BY <1>1 DEF Init
<1> QED
    BY <1>1, <1>2 DEF Init, TypeOK

\* A verb's change request is well formed.
LEMMA ChangesType ==
    ASSUME TypeOK, NEW r \in Rows, NEW D \in SUBSET Fields, NEW new \in [D -> AnyValue],
           \A f \in D : new[f] \in Column(f)
    PROVE  /\ DOMAIN Changes(r, new) = D
           /\ \A f \in D : /\ Changes(r, new)[f].old = rows[r][f]
                           /\ Changes(r, new)[f].old \in Column(f)
                           /\ Changes(r, new)[f].new \in Column(f)
<1>1. rows[r] \in TriggerState
    BY DEF TypeOK
<1>2. \A f \in D : rows[r][f] \in Column(f)
    BY <1>1 DEF TriggerState
<1> QED
    BY <1>2 DEF Changes

\* What the three verbs have in common: they read, and change nothing yet.
SelectedCall(c, m) ==
    /\ pc[c] = "idle"
    /\ m \in Mutation
    /\ \A f \in DOMAIN m.changes : m.changes[f].old = rows[m.row][f]
    /\ call' = [call EXCEPT ![c] = m]
    /\ pc' = [pc EXCEPT ![c] = "update"]
    /\ overlapped' = IF \E d \in Clients : WorksOn(d, m.row) THEN overlapped \cup {m.row}
                     ELSE overlapped
    /\ UNCHANGED <<rows, mutations, past, killed>>

LEMMA SelectMakesCall ==
    ASSUME TypeOK, NEW c \in Clients, NEW r \in Rows, NEW verb \in {"migrate_kind", "retarget", "tune"},
           NEW D \in SUBSET Fields, NEW new \in [D -> AnyValue],
           \A f \in D : new[f] \in Column(f), Select(c, r, verb, new)
    PROVE  \E m : SelectedCall(c, m)
<1> DEFINE m == [row |-> r, verb |-> verb, changes |-> Changes(r, new)]
<1>1. /\ DOMAIN m.changes = D
      /\ m.row = r /\ m.verb = verb
      /\ \A f \in D : /\ m.changes[f].old = rows[r][f]
                      /\ m.changes[f].old \in Column(f)
                      /\ m.changes[f].new \in Column(f)
    BY ChangesType
<1>2. m \in Mutation
    <2>1. \A f \in D : Column(f) \subseteq AnyValue
        BY DEF AnyValue
    <2>2. m.changes \in [D -> [old : AnyValue, new : AnyValue]]
        BY <2>1, ChangesType DEF Changes
    <2> QED
        BY <1>1, <2>2 DEF Mutation
<1>3. SelectedCall(c, m)
    BY <1>1, <1>2 DEF SelectedCall, Select
<1> QED
    BY <1>3

LEMMA CallSelects ==
    ASSUME TypeOK, NEW c \in Clients, Call(c)
    PROVE  \E m : SelectedCall(c, m)
<1> PICK r \in Rows :
        \/ \E kind \in Kinds, spec \in Specs : SetTrigger(c, r, kind, spec)
        \/ \E spec \in Specs : Retarget(c, r, spec)
        \/ \E value \in Thresholds \cup {NoThreshold} : SetThreshold(c, r, value)
    BY DEF Call
<1>0. \A f \in Fields : Column(f) \subseteq AnyValue
    BY DEF AnyValue
<1>1. ASSUME NEW kind \in Kinds, NEW spec \in Specs, SetTrigger(c, r, kind, spec)
      PROVE  \E m : SelectedCall(c, m)
    <2> DEFINE D == {"trigger_kind", "trigger_spec"}
               new == [f \in D |-> IF f = "trigger_kind" THEN kind ELSE spec]
    <2>1. \A f \in D : new[f] \in Column(f)
        BY DEF Column
    <2>2. D \in SUBSET Fields /\ new \in [D -> AnyValue]
        BY <1>0, <2>1 DEF Fields
    <2>3. Select(c, r, "migrate_kind", new)
        BY <1>1 DEF SetTrigger
    <2> QED
        BY <2>1, <2>2, <2>3, SelectMakesCall
<1>2. ASSUME NEW spec \in Specs, Retarget(c, r, spec)
      PROVE  \E m : SelectedCall(c, m)
    <2> DEFINE D == {"trigger_spec"}
               new == [f \in D |-> spec]
    <2>1. \A f \in D : new[f] \in Column(f)
        BY DEF Column
    <2>2. D \in SUBSET Fields /\ new \in [D -> AnyValue]
        BY <1>0, <2>1 DEF Fields
    <2>3. Select(c, r, "retarget", new)
        BY <1>2 DEF Retarget
    <2> QED
        BY <2>1, <2>2, <2>3, SelectMakesCall
<1>3. ASSUME NEW value \in Thresholds \cup {NoThreshold}, SetThreshold(c, r, value)
      PROVE  \E m : SelectedCall(c, m)
    <2> DEFINE D == {"sem_threshold"}
               new == [f \in D |-> value]
    <2>1. \A f \in D : new[f] \in Column(f)
        BY DEF Column
    <2>2. D \in SUBSET Fields /\ new \in [D -> AnyValue]
        BY <1>0, <2>1 DEF Fields
    <2>3. Select(c, r, "tune", new)
        BY <1>3 DEF SetThreshold
    <2> QED
        BY <2>1, <2>2, <2>3, SelectMakesCall
<1> QED
    BY <1>1, <1>2, <1>3

LEMMA TypeStep == TypeOK /\ [Next]_vars => TypeOK'
<1> SUFFICES ASSUME TypeOK, [Next]_vars PROVE TypeOK'
    OBVIOUS
<1>1. ASSUME NEW c \in Clients, Call(c) PROVE TypeOK'
    <2> PICK m : SelectedCall(c, m)
        BY <1>1, CallSelects
    <2>1. m.row \in Rows /\ overlapped' \subseteq Rows
        BY DEF SelectedCall, TypeOK, Mutation
    <2> QED
        BY <2>1 DEF SelectedCall, TypeOK
<1>2. ASSUME NEW c \in Clients, Update(c) PROVE TypeOK'
    <2> DEFINE r == call[c].row
               changes == call[c].changes
               t == [f \in Fields |-> IF f \in DOMAIN changes THEN changes[f].new ELSE rows[r][f]]
    <2>1. call[c] \in Mutation
        BY <1>2 DEF Update, TypeOK
    <2>2. r \in Rows /\ rows[r] \in TriggerState
        BY <2>1 DEF Mutation, TypeOK
    <2>3. \A f \in Fields : t[f] \in Column(f)
        BY <2>1, <2>2 DEF Mutation, TriggerState
    <2>4. t \in TriggerState
        BY <2>3 DEF TriggerState, AnyValue
    <2>5. rows' \in [Rows -> TriggerState]
        BY <1>2, <2>2, <2>4 DEF Update, TypeOK
    <2> QED
        BY <1>2, <2>5 DEF Update, TypeOK, historyVars
<1>3. ASSUME NEW c \in Clients, Insert(c) PROVE TypeOK'
    <2>1. call[c] \in Mutation
        BY <1>3 DEF Insert, TypeOK
    <2> QED
        BY <1>3, <2>1 DEF Insert, TypeOK
<1>4. ASSUME NEW c \in Clients, Crash(c) PROVE TypeOK'
    <2>1. pc[c] = "insert" => call[c].row \in Rows
        BY DEF TypeOK, Mutation
    <2> QED
        BY <1>4, <2>1 DEF Crash, TypeOK
<1>5. CASE UNCHANGED vars
    BY <1>5 DEF vars, historyVars, TypeOK
<1> QED
    BY <1>1, <1>2, <1>3, <1>4, <1>5 DEF Next, BoundReached

\* Every variable keeps its type.
THEOREM TypeCorrect == Spec => []TypeOK
<1> QED
    BY InitType, TypeStep, PTL DEF Spec

LEMMA RebuildInit == Init => RebuildInv
<1> SUFFICES ASSUME Init PROVE RebuildInv
    OBVIOUS
<1>1. TypeOK
    BY InitType
<1>2. OneVerbPerRow /\ ReadsAreFresh
    BY DEF Init, OneVerbPerRow, ReadsAreFresh, WorksOn
<1>3. ASSUME NEW r \in Rows, NEW k \in Moments(r), NEW f \in Fields
      PROVE  UndoneToBase(r, f, k, past[k + 1][r][f])
    <2>1. k = 0 /\ Len(mutations) = 0 /\ past[k + 1] = rows
        BY DEF Init, Moments
    <2>2. Later(r, f, k) = {}
        BY <2>1 DEF Later
    <2> QED
        BY <2>1, <2>2 DEF Init, UndoneToBase, Base, Unrecorded
<1> QED
    BY <1>1, <1>2, <1>3 DEF RebuildInv, RebuiltToBase

\* As long as the log is the same, only the base matters.
LEMMA SameLog ==
    ASSUME NEW r \in Rows, RebuiltToBase(r), UNCHANGED <<mutations, past>>,
           \A f \in Fields : \A v : Base(r, f, v) => Base(r, f, v)'
    PROVE  RebuiltToBase(r)'
<1> SUFFICES ASSUME NEW k \in Moments(r), NEW f \in Fields
             PROVE  UndoneToBase(r, f, k, past[k + 1][r][f])'
    BY DEF RebuiltToBase, Moments
<1>1. Later(r, f, k)' = Later(r, f, k)
    BY DEF Later
<1>2. UndoneToBase(r, f, k, past[k + 1][r][f])
    BY DEF RebuiltToBase
<1> QED
    BY <1>1, <1>2 DEF UndoneToBase

\* The invariant for one row survives a step that starts, ends or kills no verb
\* on it and leaves it alone.
LEMMA OtherRow ==
    ASSUME NEW r \in Rows, RebuiltToBase(r), UNCHANGED <<mutations, past>>, rows'[r] = rows[r],
           \A c \in Clients, f \in Fields :
              /\ Unrecorded(c, r, f)' <=> Unrecorded(c, r, f)
              /\ Unrecorded(c, r, f) => call'[c] = call[c]
    PROVE  RebuiltToBase(r)'
<1>1. \A f \in Fields : \A v : Base(r, f, v) => Base(r, f, v)'
    BY DEF Base
<1> QED
    BY <1>1, SameLog

LEMMA RebuildStep == RebuildInv /\ [Next]_vars => RebuildInv'
<1> SUFFICES ASSUME RebuildInv, [Next]_vars PROVE RebuildInv'
    OBVIOUS
<1>0. TypeOK /\ TypeOK' /\ OneVerbPerRow /\ ReadsAreFresh
    BY TypeStep DEF RebuildInv
<1>1. ASSUME NEW c \in Clients, Call(c) PROVE RebuildInv'
    <2> PICK m : SelectedCall(c, m)
        BY <1>0, <1>1, CallSelects
    <2>1. /\ pc[c] = "idle" /\ pc'[c] = "update" /\ call'[c] = m
          /\ m.row \in Rows /\ overlapped \subseteq overlapped'
          /\ \A d \in Clients : WorksOn(d, m.row) => m.row \in overlapped'
          /\ \A d \in Clients \ {c} : pc'[d] = pc[d] /\ call'[d] = call[d]
          /\ UNCHANGED <<rows, mutations, past, killed>>
        BY <1>0 DEF SelectedCall, TypeOK, Mutation
    <2>2. ReadsAreFresh'
        BY <1>0, <2>1 DEF SelectedCall, ReadsAreFresh
    <2>3. OneVerbPerRow'
        BY <1>0, <2>1 DEF OneVerbPerRow, WorksOn
    <2>4. ASSUME NEW r \in Rows, RebuiltToBase(r) PROVE RebuiltToBase(r)'
        <3>1. \A d \in Clients, f \in Fields :
                  /\ Unrecorded(d, r, f)' <=> Unrecorded(d, r, f)
                  /\ Unrecorded(d, r, f) => call'[d] = call[d]
            BY <2>1 DEF Unrecorded
        <3> QED
            BY <2>1, <2>4, <3>1, OtherRow
    <2> QED
        BY <1>0, <2>1, <2>2, <2>3, <2>4 DEF RebuildInv
<1>2. ASSUME NEW c \in Clients, Update(c) PROVE RebuildInv'
    <2> DEFINE own == call[c].row
    <2>1. /\ pc[c] = "update" /\ pc'[c] = "insert" /\ own \in Rows
          /\ \A d \in Clients \ {c} : pc'[d] = pc[d]
          /\ \A r \in Rows \ {own} : rows'[r] = rows[r]
          /\ \A f \in Fields : f \notin DOMAIN call[c].changes => rows'[own][f] = rows[own][f]
          /\ UNCHANGED <<mutations, past, call, overlapped, killed>>
        BY <1>0, <1>2 DEF Update, TypeOK, Mutation, historyVars
    <2>2. OneVerbPerRow'
        BY <1>0, <2>1 DEF OneVerbPerRow, WorksOn
    <2>3. ReadsAreFresh'
        <3>1. \A d \in Clients : pc'[d] = "update" =>
                  d # c /\ pc[d] = "update" /\ call[d].row \in Rows
            BY <1>0, <2>1 DEF TypeOK, Mutation
        <3>2. \A d \in Clients : pc'[d] = "update" /\ call[d].row \notin overlapped =>
                  call[d].row # own
            BY <1>0, <2>1, <3>1 DEF OneVerbPerRow, WorksOn
        <3> QED
            BY <1>0, <2>1, <3>1, <3>2 DEF ReadsAreFresh
    <2>4. ASSUME NEW r \in Rows \ (overlapped \cup killed), RebuiltToBase(r), r # own
          PROVE  RebuiltToBase(r)'
        <3>1. \A d \in Clients, f \in Fields :
                  /\ Unrecorded(d, r, f)' <=> Unrecorded(d, r, f)
                  /\ Unrecorded(d, r, f) => call'[d] = call[d]
            BY <2>1, <2>4 DEF Unrecorded
        <3> QED
            BY <2>1, <2>4, <3>1, OtherRow
    <2>5. ASSUME own \notin overlapped \cup killed, RebuiltToBase(own)
          PROVE  RebuiltToBase(own)'
        <3>1. \A d \in Clients : WorksOn(d, own) => d = c
            BY <1>0, <2>1, <2>5 DEF OneVerbPerRow, WorksOn
        <3>2. \A f \in Fields, d \in Clients : ~Unrecorded(d, own, f)
            BY <2>1, <3>1 DEF Unrecorded, WorksOn
        <3>3. \A f \in Fields, d \in Clients \ {c} : ~Unrecorded(d, own, f)'
            BY <2>1, <3>2 DEF Unrecorded
        <3>4. \A f \in Fields : \A v : Base(own, f, v) => v = rows[own][f]
            BY <3>2 DEF Base
        <3>5. \A f \in Fields :
                 /\ ~Unrecorded(c, own, f)' => rows'[own][f] = rows[own][f]
                 /\ Unrecorded(c, own, f)' => call'[c].changes[f].old = rows[own][f]
            BY <1>0, <2>1, <2>5 DEF Unrecorded, ReadsAreFresh
        <3>6. \A f \in Fields : \A v : Base(own, f, v) => Base(own, f, v)'
            BY <2>1, <3>3, <3>4, <3>5 DEF Base
        <3> QED
            BY <2>1, <2>5, <3>6, SameLog
    <2> QED
        BY <1>0, <2>1, <2>2, <2>3, <2>4, <2>5 DEF RebuildInv
<1>3. ASSUME NEW c \in Clients, Insert(c) PROVE RebuildInv'
    <2> DEFINE n == Len(mutations)
               own == call[c].row
    <2>1. /\ pc[c] = "insert" /\ pc'[c] = "idle" /\ own \in Rows
          /\ \A d \in Clients \ {c} : pc'[d] = pc[d] /\ call'[d] = call[d]
          /\ n \in Nat /\ Len(mutations') = n + 1
          /\ \A i \in 1 .. n : mutations'[i] = mutations[i]
          /\ mutations'[n + 1] = call[c]
          /\ \A k \in 0 .. n : past'[k + 1] = past[k + 1]
          /\ past'[n + 2] = rows
          /\ UNCHANGED <<rows, overlapped, killed>>
        BY <1>0, <1>3 DEF Insert, TypeOK, Mutation
    <2>2. ReadsAreFresh'
        BY <1>0, <2>1 DEF ReadsAreFresh
    <2>3. OneVerbPerRow'
        BY <1>0, <2>1 DEF OneVerbPerRow, WorksOn
    <2>4. ASSUME NEW r \in Rows \ (overlapped \cup killed), RebuiltToBase(r), r # own,
                 NEW k \in Moments(r)', NEW f \in Fields
          PROVE  UndoneToBase(r, f, k, past[k + 1][r][f])'
        <3>1. k \in Moments(r) /\ k \in 0 .. n
            BY <2>1, <2>4 DEF Moments
        <3>2. UndoneToBase(r, f, k, past[k + 1][r][f])
            BY <2>4, <3>1 DEF RebuiltToBase
        <3>3. Later(r, f, k)' = Later(r, f, k)
            BY <2>1, <2>4, <3>1 DEF Later
        <3>4. \A i \in Later(r, f, k) : mutations'[i] = mutations[i]
            BY <2>1, <3>1 DEF Later
        <3>5. \A v : Base(r, f, v) => Base(r, f, v)'
            BY <2>1, <2>4 DEF Base, Unrecorded
        <3>6. past'[k + 1] = past[k + 1]
            BY <2>1, <3>1
        <3> QED
            BY <3>2, <3>3, <3>4, <3>5, <3>6 DEF UndoneToBase
    <2>5. ASSUME NEW r \in Rows \ (overlapped \cup killed), RebuiltToBase(r), r = own,
                 NEW k \in Moments(r)', NEW f \in Fields
          PROVE  UndoneToBase(r, f, k, past[k + 1][r][f])'
        <3>0. \A d \in Clients : Unrecorded(d, r, f) => d = c
            BY <1>0, <2>1, <2>5 DEF OneVerbPerRow, WorksOn, Unrecorded
        <3>a. \A d \in Clients : ~Unrecorded(d, r, f)'
            BY <2>1, <3>0 DEF Unrecorded
        <3>b. Base(r, f, rows[r][f])'
            BY <3>a DEF Base
        <3>c. k \in 0 .. n + 1
            BY <2>1 DEF Moments
        <3>1. CASE k = n + 1
            <4>1. Later(r, f, k)' = {}
                BY <2>1, <3>1 DEF Later
            <4>2. past'[k + 1] = rows
                BY <2>1, <3>1
            <4> QED
                BY <2>1, <3>b, <4>1, <4>2 DEF UndoneToBase
        <3>2. CASE k \in 0 .. n
            <4> DEFINE v == past[k + 1][r][f]
            <4>0. k \in Moments(r)
                BY <2>1, <2>5, <3>2 DEF Moments
            <4>1. UndoneToBase(r, f, k, v)
                BY <2>5, <4>0 DEF RebuiltToBase
            <4>2. past'[k + 1][r][f] = v
                BY <2>1, <3>2
            <4>3. \A i \in Later(r, f, k) : i \in 1 .. n /\ i \in Later(r, f, k)'
                BY <2>1, <3>2 DEF Later
            <4>4. \A i \in Later(r, f, k)' :
                     \/ i \in Later(r, f, k)
                     \/ i = n + 1 /\ Unrecorded(c, r, f)
                BY <2>1, <2>5, <3>2 DEF Later, Unrecorded
            <4>5. Unrecorded(c, r, f) => n + 1 \in Later(r, f, k)'
                BY <2>1, <2>5, <3>2 DEF Later, Unrecorded
            <4>6. CASE Later(r, f, k) = {}
                <5>1. Base(r, f, v)
                    BY <4>1, <4>6 DEF UndoneToBase
                <5>2. CASE Unrecorded(c, r, f)
                    <6>1. v = call[c].changes[f].old
                        BY <5>1, <5>2 DEF Base
                    <6>2. Later(r, f, k)' = {n + 1}
                        BY <4>4, <4>5, <4>6, <5>2
                    <6> QED
                        BY <2>1, <4>2, <6>1, <6>2 DEF UndoneToBase
                <5>3. CASE ~Unrecorded(c, r, f)
                    <6>1. v = rows[r][f]
                        BY <3>0, <5>1, <5>3 DEF Base
                    <6>2. Later(r, f, k)' = {}
                        BY <4>4, <4>6, <5>3
                    <6> QED
                        BY <2>1, <3>b, <4>2, <6>1, <6>2 DEF UndoneToBase
                <5> QED
                    BY <5>2, <5>3
            <4>7. CASE Later(r, f, k) # {}
                <5>1. PICK j : j \in Later(r, f, k)
                    BY <4>7
                <5>2. j \in 1 .. n /\ j \in Later(r, f, k)'
                    BY <4>3, <5>1
                <5>3. ASSUME NEW i \in Later(r, f, k)',
                             \A l \in Later(r, f, k)' : i <= l
                      PROVE  v = mutations'[i].changes[f].old
                    <6>1. i <= j /\ i # n + 1
                        BY <2>1, <5>2, <5>3
                    <6>2. i \in Later(r, f, k)
                        BY <4>4, <6>1
                    <6>3. \A l \in Later(r, f, k) : i <= l
                        BY <4>3, <5>3
                    <6>4. v = mutations[i].changes[f].old
                        BY <4>1, <6>2, <6>3 DEF UndoneToBase
                    <6> QED
                        BY <2>1, <4>3, <6>2, <6>4
                <5> QED
                    BY <4>2, <5>2, <5>3 DEF UndoneToBase
            <4> QED
                BY <4>6, <4>7
        <3> QED
            BY <2>1, <3>c, <3>1, <3>2
    <2>6. \A r \in Rows \ (overlapped \cup killed) : RebuiltToBase(r) => RebuiltToBase(r)'
        BY <2>4, <2>5 DEF RebuiltToBase
    <2> QED
        BY <1>0, <2>1, <2>2, <2>3, <2>6 DEF RebuildInv
<1>4. ASSUME NEW c \in Clients, Crash(c) PROVE RebuildInv'
    <2>1. /\ pc[c] # "idle" /\ pc'[c] = "idle"
          /\ \A d \in Clients \ {c} : pc'[d] = pc[d] /\ call'[d] = call[d]
          /\ pc[c] = "insert" => call[c].row \in killed'
          /\ killed \subseteq killed'
          /\ UNCHANGED <<rows, mutations, past, overlapped>>
        BY <1>0, <1>4 DEF Crash, TypeOK
    <2>2. ReadsAreFresh' /\ OneVerbPerRow'
        BY <1>0, <2>1 DEF ReadsAreFresh, OneVerbPerRow, WorksOn
    <2>3. ASSUME NEW r \in Rows \ killed', RebuiltToBase(r) PROVE RebuiltToBase(r)'
        <3>1. \A d \in Clients, f \in Fields :
                  /\ Unrecorded(d, r, f)' <=> Unrecorded(d, r, f)
                  /\ Unrecorded(d, r, f) => call'[d] = call[d]
            BY <2>1, <2>3 DEF Unrecorded
        <3> QED
            BY <2>1, <2>3, <3>1, OtherRow
    <2> QED
        BY <1>0, <2>1, <2>2, <2>3 DEF RebuildInv
<1>5. CASE UNCHANGED vars
    <2>1. ReadsAreFresh' /\ OneVerbPerRow'
        BY <1>0, <1>5 DEF vars, historyVars, ReadsAreFresh, OneVerbPerRow, WorksOn
    <2>2. ASSUME NEW r \in Rows, RebuiltToBase(r) PROVE RebuiltToBase(r)'
        <3>1. \A d \in Clients, f \in Fields :
                  /\ Unrecorded(d, r, f)' <=> Unrecorded(d, r, f)
                  /\ Unrecorded(d, r, f) => call'[d] = call[d]
            BY <1>5 DEF vars, Unrecorded
        <3> QED
            BY <1>5, <2>2, <3>1, OtherRow DEF vars, historyVars
    <2> QED
        BY <1>0, <1>5, <2>1, <2>2 DEF RebuildInv, vars, historyVars
<1> QED
    BY <1>1, <1>2, <1>3, <1>4, <1>5 DEF Next, BoundReached

LEMMA RebuildImplies == RebuildInv => Reconstructs
<1> SUFFICES ASSUME RebuildInv, NEW r \in Rows \ (overlapped \cup killed), Settled(r),
                    NEW k \in Moments(r), NEW f \in Fields
             PROVE  Undone(r, f, k, past[k + 1][r][f])
    BY DEF Reconstructs, Rebuilt
<1>1. UndoneToBase(r, f, k, past[k + 1][r][f])
    BY DEF RebuildInv, RebuiltToBase
<1>2. \A v : Base(r, f, v) => v = rows[r][f]
    BY DEF Base, Unrecorded, Settled, WorksOn
<1> QED
    BY <1>1, <1>2 DEF UndoneToBase, Undone

\* The contract's reconstruction rule: undoing a row's mutations from the present
\* gives every earlier state of its trigger, unless two verbs on that row have
\* overlapped or one was killed between its update and its record.
THEOREM Reconstruction == Spec => []Reconstructs
<1> QED
    BY RebuildInit, RebuildStep, RebuildImplies, PTL DEF Spec

\* The row as the verb under way at c will leave it.
Applied(c) ==
    [f \in Fields |-> IF f \in DOMAIN call[c].changes THEN call[c].changes[f].new
                      ELSE rows[call[c].row][f]]

FitInv ==
    /\ RebuildInv
    /\ SpecFitsKind
    /\ \A c \in Clients :
         pc[c] = "update" /\ call[c].row \notin overlapped => SpecFits(Applied(c))

\* What a verb accepts fits the kind the row will have.
LEMMA CallFits ==
    ASSUME TypeOK, SpecFitsKind, NEW c \in Clients, Call(c), call'[c].row \notin overlapped
    PROVE  SpecFits(Applied(c))'
<1> PICK r \in Rows :
        \/ \E kind \in Kinds, spec \in Specs : SetTrigger(c, r, kind, spec)
        \/ \E spec \in Specs : Retarget(c, r, spec)
        \/ \E value \in Thresholds \cup {NoThreshold} : SetThreshold(c, r, value)
    BY DEF Call
<1>0. /\ r \notin overlapped => SpecFits(rows[r])
      /\ "trigger_kind" \in Fields /\ "trigger_spec" \in Fields
      /\ call \in [Clients -> Mutation \cup {NoCall}]
    BY DEF SpecFitsKind, Fields, TypeOK
<1>1. ASSUME NEW verb, NEW D, NEW new, DOMAIN new = D, Select(c, r, verb, new)
      PROVE  /\ rows' = rows /\ call'[c].row = r /\ DOMAIN call'[c].changes = D
             /\ \A f \in D : call'[c].changes[f].new = new[f]
    BY <1>0, <1>1 DEF Select, Changes
<1>2. ASSUME NEW kind \in Kinds, NEW spec \in Specs, SetTrigger(c, r, kind, spec)
      PROVE  SpecFits(Applied(c))'
    <2> DEFINE D == {"trigger_kind", "trigger_spec"}
               new == [f \in D |-> IF f = "trigger_kind" THEN kind ELSE spec]
    <2>1. DOMAIN new = D /\ new["trigger_kind"] = kind /\ new["trigger_spec"] = spec
        OBVIOUS
    <2>2. Select(c, r, "migrate_kind", new) /\ spec \in Accepted(kind)
        BY <1>2 DEF SetTrigger
    <2> HIDE DEF new
    <2>3. DOMAIN call'[c].changes = D /\ \A f \in D : call'[c].changes[f].new = new[f]
        BY <1>1, <2>1, <2>2
    <2>4. Applied(c)'["trigger_kind"] = kind /\ Applied(c)'["trigger_spec"] = spec
        BY <1>0, <2>1, <2>3 DEF Applied
    <2> QED
        BY <2>2, <2>4 DEF SpecFits, Accepted
<1>3. ASSUME NEW spec \in Specs, Retarget(c, r, spec)
      PROVE  SpecFits(Applied(c))'
    <2> DEFINE D == {"trigger_spec"}
               new == [f \in D |-> spec]
    <2>1. DOMAIN new = D /\ new["trigger_spec"] = spec
        OBVIOUS
    <2>2. Select(c, r, "retarget", new) /\ spec \in Accepted(rows[r]["trigger_kind"])
        BY <1>3 DEF Retarget
    <2> HIDE DEF new
    <2>3. /\ rows' = rows /\ call'[c].row = r
          /\ DOMAIN call'[c].changes = D /\ \A f \in D : call'[c].changes[f].new = new[f]
        BY <1>1, <2>1, <2>2
    <2>4. /\ Applied(c)'["trigger_kind"] = rows[r]["trigger_kind"]
          /\ Applied(c)'["trigger_spec"] = spec
        BY <1>0, <2>1, <2>3 DEF Applied
    <2> QED
        BY <2>2, <2>4 DEF SpecFits, Accepted
<1>4. ASSUME NEW value \in Thresholds \cup {NoThreshold}, SetThreshold(c, r, value)
      PROVE  SpecFits(Applied(c))'
    <2> DEFINE D == {"sem_threshold"}
               new == [f \in D |-> value]
    <2>1. DOMAIN new = D
        OBVIOUS
    <2>2. Select(c, r, "tune", new)
        BY <1>4 DEF SetThreshold
    <2> HIDE DEF new
    <2>3. rows' = rows /\ call'[c].row = r /\ DOMAIN call'[c].changes = D
        BY <1>1, <2>1, <2>2
    <2>4. /\ Applied(c)'["trigger_kind"] = rows[r]["trigger_kind"]
          /\ Applied(c)'["trigger_spec"] = rows[r]["trigger_spec"]
        BY <1>0, <2>3 DEF Applied
    <2> QED
        BY <1>0, <2>3, <2>4 DEF SpecFits
<1> QED
    BY <1>2, <1>3, <1>4

LEMMA FitStep == FitInv /\ [Next]_vars => FitInv'
<1> SUFFICES ASSUME FitInv, [Next]_vars PROVE FitInv'
    OBVIOUS
<1>0. TypeOK /\ OneVerbPerRow /\ SpecFitsKind /\ RebuildInv'
    BY RebuildStep DEF FitInv, RebuildInv
<1>1. ASSUME NEW c \in Clients, Call(c) PROVE FitInv'
    <2> PICK m : SelectedCall(c, m)
        BY <1>0, <1>1, CallSelects
    <2>1. /\ rows' = rows /\ overlapped \subseteq overlapped'
          /\ \A d \in Clients \ {c} : pc'[d] = pc[d] /\ call'[d] = call[d]
        BY <1>0 DEF SelectedCall, TypeOK
    <2>2. call'[c].row \notin overlapped => SpecFits(Applied(c))'
        BY <1>0, <1>1, CallFits
    <2>3. \A d \in Clients \ {c} : Applied(d)' = Applied(d)
        BY <2>1 DEF Applied
    <2> QED
        BY <1>0, <2>1, <2>2, <2>3 DEF FitInv, SpecFitsKind
<1>2. ASSUME NEW c \in Clients, Update(c) PROVE FitInv'
    <2> DEFINE own == call[c].row
    <2>1. /\ pc[c] = "update" /\ pc'[c] = "insert" /\ own \in Rows
          /\ own \notin overlapped => SpecFits(Applied(c))
          /\ \A d \in Clients \ {c} : pc'[d] = pc[d]
          /\ UNCHANGED <<call, overlapped>>
        BY <1>0, <1>2 DEF Update, FitInv, TypeOK, Mutation, historyVars
    <2>2. rows' = [rows EXCEPT ![own] = Applied(c)]
        BY <1>2 DEF Update, Applied
    <2>3. SpecFitsKind'
        BY <1>0, <2>1, <2>2 DEF SpecFitsKind, TypeOK
    <2>4. ASSUME NEW d \in Clients, pc'[d] = "update", call[d].row \notin overlapped
          PROVE  SpecFits(Applied(d))'
        <3>1. d # c /\ pc[d] = "update" /\ call[d].row \in Rows
            BY <1>0, <2>1, <2>4 DEF TypeOK, Mutation
        <3>2. call[d].row # own
            BY <1>0, <2>1, <2>4, <3>1 DEF OneVerbPerRow, WorksOn
        <3>3. Applied(d)' = Applied(d)
            BY <1>0, <2>1, <2>2, <3>1, <3>2 DEF Applied, TypeOK
        <3> QED
            BY <2>4, <3>1, <3>3 DEF FitInv
    <2> QED
        BY <1>0, <2>1, <2>3, <2>4 DEF FitInv
<1>3. ASSUME NEW c \in Clients, Insert(c) \/ Crash(c) PROVE FitInv'
    <2>1. /\ rows' = rows /\ pc'[c] = "idle" /\ overlapped' = overlapped
          /\ \A d \in Clients \ {c} : pc'[d] = pc[d] /\ call'[d] = call[d]
        BY <1>0, <1>3 DEF Insert, Crash, TypeOK
    <2>2. \A d \in Clients \ {c} : Applied(d)' = Applied(d)
        BY <2>1 DEF Applied
    <2> QED
        BY <1>0, <2>1, <2>2 DEF FitInv, SpecFitsKind
<1>4. CASE UNCHANGED vars
    BY <1>0, <1>4 DEF vars, historyVars, FitInv, SpecFitsKind, Applied
<1> QED
    BY <1>1, <1>2, <1>3, <1>4 DEF Next, BoundReached

\* The authoring gate: whatever other verbs do to other rows, and whichever verbs
\* are killed, a tool_call row holds a spec its matcher can parse, unless two verbs
\* on that very row have overlapped.
THEOREM SpecsFit == Spec => []SpecFitsKind
<1>1. Init => FitInv
    BY RebuildInit, MutationsAssumption DEF Init, FitInv, SpecFitsKind
<1>2. FitInv /\ [Next]_vars => FitInv'
    BY FitStep
<1>3. FitInv => SpecFitsKind
    BY DEF FitInv
<1> QED
    BY <1>1, <1>2, <1>3, PTL DEF Spec
\* v is on record for field f of row r, or a verb that has written it is about to
\* record it.
Accountable(r, f, v) ==
    \/ Explained(r, f, v)
    \/ \E c \in Clients : Unrecorded(c, r, f) /\ call[c].changes[f].new = v

\* v is accounted for after the step.
AccountableNext(r, f, v) ==
    \/ v = past'[1][r][f]
    \/ \E i \in DOMAIN mutations' :
         /\ mutations'[i].row = r
         /\ f \in DOMAIN mutations'[i].changes
         /\ mutations'[i].changes[f].new = v
    \/ \E c \in Clients : /\ pc'[c] = "insert" /\ call'[c].row = r
                          /\ f \in DOMAIN call'[c].changes
                          /\ call'[c].changes[f].new = v

AllAccountable(r, f) ==
    /\ Accountable(r, f, rows[r][f])
    /\ \A i \in Later(r, f, 0) : Accountable(r, f, mutations[i].changes[f].old)
    /\ \A c \in Clients : WorksOn(c, r) /\ f \in DOMAIN call[c].changes =>
          Accountable(r, f, call[c].changes[f].old)

ExplainInv ==
    /\ TypeOK
    /\ \A r \in Rows \ killed, f \in Fields : AllAccountable(r, f)

\* What is accounted for stays so, as long as no verb dies between its update and
\* its record.
LEMMA StaysAccountable ==
    ASSUME TypeOK, [Next]_vars, NEW r \in Rows \ killed', NEW f \in Fields, NEW v,
           Accountable(r, f, v)
    PROVE  Accountable(r, f, v)'
<1>1. ASSUME UNCHANGED <<mutations, past>>,
             \A d \in Clients : Unrecorded(d, r, f) => Unrecorded(d, r, f)' /\ call'[d] = call[d]
      PROVE  Accountable(r, f, v)'
    BY <1>1 DEF Accountable, Explained
<1>2. ASSUME NEW c \in Clients, Call(c)
      PROVE  Accountable(r, f, v)'
    <2> PICK m : SelectedCall(c, m)
        BY <1>2, CallSelects
    <2>1. /\ pc[c] = "idle" /\ UNCHANGED <<mutations, past>>
          /\ \A d \in Clients \ {c} : pc'[d] = pc[d] /\ call'[d] = call[d]
        BY DEF SelectedCall, TypeOK
    <2> QED
        BY <1>1, <2>1 DEF Unrecorded
<1>3. ASSUME NEW c \in Clients, Update(c)
      PROVE  Accountable(r, f, v)'
    <2>1. /\ pc[c] = "update" /\ UNCHANGED <<mutations, past, call>>
          /\ \A d \in Clients \ {c} : pc'[d] = pc[d]
        BY <1>3 DEF Update, historyVars, TypeOK
    <2> QED
        BY <1>1, <2>1 DEF Unrecorded
<1>4. ASSUME NEW c \in Clients, Insert(c)
      PROVE  Accountable(r, f, v)'
    <2> DEFINE n == Len(mutations)
    <2>1. /\ \A d \in Clients \ {c} : pc'[d] = pc[d] /\ call'[d] = call[d]
          /\ n \in Nat /\ DOMAIN mutations = 1 .. n /\ DOMAIN mutations' = 1 .. n + 1
          /\ \A i \in 1 .. n : mutations'[i] = mutations[i]
          /\ mutations'[n + 1] = call[c]
          /\ past'[1] = past[1]
        BY <1>4 DEF Insert, TypeOK
    <2> HIDE DEF n
    <2>2. CASE Explained(r, f, v)
        <3>1. Explained(r, f, v)'
            BY <2>1, <2>2 DEF Explained
        <3> QED
            BY <3>1 DEF Accountable
    <2>3. ASSUME NEW d \in Clients, Unrecorded(d, r, f), call[d].changes[f].new = v
          PROVE  Accountable(r, f, v)'
        <3>1. CASE d = c
            <4>1. Explained(r, f, v)'
                BY <2>1, <2>3, <3>1 DEF Explained, Unrecorded
            <4> QED
                BY <4>1 DEF Accountable
        <3>2. CASE d # c
            BY <2>1, <2>3, <3>2 DEF Accountable, Unrecorded
        <3> QED
            BY <3>1, <3>2
    <2> QED
        BY <2>2, <2>3 DEF Accountable
<1>5. ASSUME NEW c \in Clients, Crash(c)
      PROVE  Accountable(r, f, v)'
    <2>1. /\ UNCHANGED <<mutations, past>>
          /\ pc[c] = "insert" => call[c].row \in killed'
          /\ \A d \in Clients \ {c} : pc'[d] = pc[d] /\ call'[d] = call[d]
        BY <1>5 DEF Crash, TypeOK
    <2> QED
        BY <1>1, <2>1 DEF Unrecorded
<1>6. CASE UNCHANGED vars
    BY <1>1, <1>6 DEF vars, historyVars, Unrecorded
<1> QED
    BY <1>2, <1>3, <1>4, <1>5, <1>6 DEF Next, BoundReached

LEMMA ExplainStep == ExplainInv /\ [Next]_vars => ExplainInv'
<1> SUFFICES ASSUME ExplainInv, [Next]_vars PROVE ExplainInv'
    OBVIOUS
<1>0. TypeOK /\ TypeOK'
    BY TypeStep DEF ExplainInv
<1>1. ASSUME NEW r \in Rows \ killed', NEW f \in Fields
      PROVE  AllAccountable(r, f)'
    <2>1. killed \subseteq killed'
        BY <1>0 DEF Next, Call, SetTrigger, Retarget, SetThreshold, Select, Update, Insert,
               Crash, BoundReached, vars, historyVars
    <2>2. AllAccountable(r, f)
        BY <1>1, <2>1 DEF ExplainInv
    <2>3. \A v : Accountable(r, f, v) => AccountableNext(r, f, v)
        <3> SUFFICES ASSUME NEW v, Accountable(r, f, v)
                     PROVE  AccountableNext(r, f, v)
            OBVIOUS
        <3>1. Accountable(r, f, v)'
            BY <1>0, <1>1, StaysAccountable
        <3> QED
            BY <3>1 DEF Accountable, Explained, Unrecorded, AccountableNext
    <2> DEFINE Table == AccountableNext(r, f, rows'[r][f])
               Log == \A i \in 1 .. Len(mutations') :
                         mutations'[i].row = r /\ f \in DOMAIN mutations'[i].changes =>
                             AccountableNext(r, f, mutations'[i].changes[f].old)
               Calls == \A d \in Clients :
                           /\ pc'[d] # "idle" /\ call'[d].row = r
                           /\ f \in DOMAIN call'[d].changes
                           => AccountableNext(r, f, call'[d].changes[f].old)
    <2> SUFFICES Table /\ Log /\ Calls
        BY DEF AllAccountable, Accountable, Explained, Unrecorded, Later, WorksOn, AccountableNext
    <2>4. ASSUME rows'[r] = rows[r]
          PROVE  Table
        BY <2>2, <2>3, <2>4 DEF AllAccountable
    <2>5. \A i \in 1 .. Len(mutations) :
             mutations[i].row = r /\ f \in DOMAIN mutations[i].changes =>
                 AccountableNext(r, f, mutations[i].changes[f].old)
        BY <1>0, <2>2, <2>3 DEF AllAccountable, Later, TypeOK
    <2>6. \A d \in Clients :
             /\ pc[d] # "idle" /\ call[d].row = r /\ f \in DOMAIN call[d].changes
             => AccountableNext(r, f, call[d].changes[f].old)
        BY <2>2, <2>3 DEF AllAccountable, WorksOn
    <2>7. ASSUME \A d \in Clients : pc'[d] # "idle" => pc[d] # "idle" /\ call'[d] = call[d]
          PROVE  Calls
        BY <2>6, <2>7
    <2>8. ASSUME NEW c \in Clients, Call(c)
          PROVE  Table /\ Log /\ Calls
        <3> PICK m : SelectedCall(c, m)
            BY <1>0, <2>8, CallSelects
        <3>1. /\ UNCHANGED <<rows, mutations>>
              /\ call'[c] = m /\ m.row \in Rows
              /\ f \in DOMAIN m.changes => m.changes[f].old = rows[m.row][f]
              /\ \A d \in Clients \ {c} : pc'[d] = pc[d] /\ call'[d] = call[d]
            BY <1>0 DEF SelectedCall, TypeOK, Mutation
        <3>2. AccountableNext(r, f, rows[r][f])
            BY <2>2, <2>3 DEF AllAccountable
        <3>3. Calls
            BY <2>6, <3>1, <3>2
        <3> QED
            BY <2>4, <2>5, <3>1, <3>3
    <2>9. ASSUME NEW c \in Clients, Update(c)
          PROVE  Table /\ Log /\ Calls
        <3> DEFINE own == call[c].row
        <3>1. /\ pc[c] = "update" /\ pc'[c] = "insert" /\ own \in Rows
              /\ UNCHANGED <<mutations, call>>
              /\ \A d \in Clients \ {c} : pc'[d] = pc[d]
              /\ r # own => rows'[r] = rows[r]
              /\ r = own => rows'[r][f] = IF f \in DOMAIN call[c].changes
                                         THEN call[c].changes[f].new ELSE rows[r][f]
            BY <1>0, <2>9 DEF Update, historyVars, TypeOK, Mutation
        <3>2. Table
            <4>1. AccountableNext(r, f, rows[r][f])
                BY <2>2, <2>3 DEF AllAccountable
            <4>2. ASSUME r = own, f \in DOMAIN call[c].changes
                  PROVE  AccountableNext(r, f, call[c].changes[f].new)
                BY <3>1, <4>2 DEF AccountableNext
            <4> QED
                BY <3>1, <4>1, <4>2
        <3>3. Calls
            BY <2>7, <3>1
        <3> QED
            BY <2>5, <3>1, <3>2, <3>3
    <2>10. ASSUME NEW c \in Clients, Insert(c)
           PROVE  Table /\ Log /\ Calls
        <3> DEFINE n == Len(mutations)
        <3>1. /\ pc[c] = "insert" /\ rows' = rows
              /\ n \in Nat /\ Len(mutations') = n + 1
              /\ \A i \in 1 .. n : mutations'[i] = mutations[i]
              /\ mutations'[n + 1] = call[c]
              /\ \A d \in Clients : pc'[d] # "idle" => pc[d] # "idle" /\ call'[d] = call[d]
            BY <1>0, <2>10 DEF Insert, TypeOK
        <3> HIDE DEF n
        <3>2. call[c].row = r /\ f \in DOMAIN call[c].changes =>
                  AccountableNext(r, f, call[c].changes[f].old)
            BY <2>6, <3>1
        <3>3. Log
            BY <2>5, <3>1, <3>2 DEF n
        <3> QED
            BY <2>4, <2>7, <3>1, <3>3
    <2>11. ASSUME NEW c \in Clients, Crash(c)
           PROVE  Table /\ Log /\ Calls
        <3>1. /\ UNCHANGED <<rows, mutations>>
              /\ \A d \in Clients : pc'[d] # "idle" => pc[d] # "idle" /\ call'[d] = call[d]
            BY <1>0, <2>11 DEF Crash, TypeOK
        <3> QED
            BY <2>4, <2>5, <2>7, <3>1
    <2>12. ASSUME UNCHANGED vars
           PROVE  Table /\ Log /\ Calls
        BY <2>4, <2>5, <2>7, <2>12 DEF vars
    <2> HIDE DEF Table, Log, Calls
    <2> QED
        BY <2>8, <2>9, <2>10, <2>11, <2>12 DEF Next, BoundReached
<1> QED
    BY <1>0, <1>1 DEF ExplainInv

\* However verbs overlap on a row, every value it holds and every old value one of
\* its mutations claims is one it was created with or one a mutation on record put
\* there, unless a verb died between its update and its record.
THEOREM OnRecord == Spec => []NothingUnexplained
<1>1. Init => ExplainInv
    <2> SUFFICES ASSUME Init, NEW r \in Rows, NEW f \in Fields
                 PROVE  AllAccountable(r, f)
        BY InitType DEF ExplainInv
    <2>1. past[1] = rows /\ Len(mutations) = 0
        BY DEF Init
    <2>2. Later(r, f, 0) = {} /\ \A c \in Clients : ~WorksOn(c, r)
        BY <2>1 DEF Init, Later, WorksOn
    <2> QED
        BY <2>1, <2>2 DEF AllAccountable, Accountable, Explained
<1>2. ExplainInv /\ [Next]_vars => ExplainInv'
    BY ExplainStep
<1>3. ExplainInv => NothingUnexplained
    <2> SUFFICES ASSUME ExplainInv, NEW r \in Rows \ killed, Settled(r), NEW f \in Fields
                 PROVE  /\ Explained(r, f, rows[r][f])
                        /\ \A i \in Later(r, f, 0) :
                              Explained(r, f, mutations[i].changes[f].old)
        BY DEF NothingUnexplained
    <2>1. \A v : Accountable(r, f, v) => Explained(r, f, v)
        BY DEF Accountable, Unrecorded, Settled, WorksOn
    <2> QED
        BY <2>1 DEF ExplainInv, AllAccountable
<1> QED
    BY <1>1, <1>2, <1>3, PTL DEF Spec
=============================================================================
