--------------------------- MODULE Curation_proofs ---------------------------
(***************************************************************************)
(* What the gates, the merges and the violations of a store guarantee,     *)
(* proved for any clients, lessons, sessions and lessons file.             *)
(***************************************************************************)
EXTENDS Curation, WellFoundedInduction, SequenceTheorems, TLAPS

Decision == {"none", "fire", "suppress"}

\* The least of some natural numbers, as the code takes the next row to look at.
LEMMA LeastChosen ==
    ASSUME NEW S \in SUBSET Nat, S # {}
    PROVE  (CHOOSE i \in S : \A j \in S : i <= j) \in S
<1>1. \E x \in S : \A y \in S : ~ (<<y, x>> \in OpToRel(<, Nat))
    BY NatLessThanWellFounded, WFMin
<1>2. PICK x \in S : \A y \in S : ~ (<<y, x>> \in OpToRel(<, Nat))
    BY <1>1
<1>3. ASSUME NEW y \in S
      PROVE  x <= y
    <2>1. ~ (y < x)
        BY <1>2, Zenon DEF OpToRel
    <2> QED
        BY <2>1
<1> QED
    BY <1>3

Commands(c) ==
    \/ \E m \in Lessons, w \in SUBSET Details :
         \/ ResolveNew(c, m, w)
         \/ \E f \in BOOLEAN : StartAdd(c, m, w, f)
         \/ \E i \in Ids : StartMerge(c, i, m, w)
    \/ \E i \in Ids : StartRevive(c, i) \/ (\E on \in BOOLEAN : SetSignature(c, i, on))
    \/ StartAdopt(c) \/ (\E s \in Sessions : StartEvaluate(c, s))

Steps(c) ==
    \/ ReadDecisions(c) \/ Resurrection(c) \/ Duplicate(c) \/ Insert(c)
    \/ Merge(c) \/ NewestFiring(c) \/ RateHelpful(c) \/ AdoptBlock(c)
    \/ ReadRows(c) \/ Check(c) \/ LogViolation(c) \/ Kill(c)

Others ==
    \/ \E i \in Ids, s \in Sessions : HookScores(i, s)
    \/ \E i \in Ids : ScoreVerb(i) \/ Retire(i)
    \/ \E k \in 1 .. MaxFirings : RateNoise(k)

LEMMA WhoActs ==
    ASSUME Next
    PROVE  (\E c \in Clients : Commands(c) \/ Steps(c)) \/ Others
    BY DEF Next, Commands, Steps, Others

-----------------------------------------------------------------------------
(* Types *)

Firing == [row : Nat, session : Sessions \cup {Malformed}, outcome : Outcomes \cup {Unrated}]

\* What a client at work may be.
Fits(st) ==
    /\ st \in Client
    /\ st.pc \in Adding \cup {"merge"} => st.lesson \in Lessons
    /\ st.pc = "merge" => st.id \in DOMAIN rows /\ st.seen \subseteq Wordings
    /\ st.pc = "rate" => st.id \in DOMAIN firings
    /\ st.pc = "revive" => Len(firings) > 0
    /\ st.pc \in Evaluating => st.session \in Sessions
    /\ st.pc = "adopt" => st.block \in DOMAIN File
    /\ st.twins \subseteq DOMAIN rows

ClientsType == me \in [Clients -> Client] /\ \A c \in Clients : Fits(me[c])

StoreType ==
    /\ rows \in Seq(Row)
    /\ latest \in Seq(Decision)
    /\ Len(latest) = Len(rows)
    /\ firings \in Seq(Firing)
    /\ violations \in Seq(Nat \X Sessions)
    /\ calls \in Nat
    /\ merged \subseteq (DOMAIN rows) \X Wordings

LEMMA TypeSplit == /\ TypeOK <=> ClientsType /\ StoreType
                   /\ TypeOK' <=> ClientsType' /\ StoreType'
    BY DEF TypeOK, ClientsType, StoreType, Decision, Firing, Fits

LEMMA IdleTyped == Idle \in Client /\ Idle.pc = "idle" /\ Idle.twins = {}
    BY DEF Idle, Client

LEMMA IdleFits == Fits(Idle)
    BY IdleTyped DEF Fits, Adding, Evaluating

LEMMA TypeInit == Init => TypeOK
<1> SUFFICES ASSUME Init
             PROVE  TypeOK
    OBVIOUS
<1>1. rows \in Seq(Row)
    BY CurationAssumption DEF Init
<1>2. latest \in Seq(Decision) /\ Len(latest) = Len(rows)
    <2>1. latest \in [1 .. Len(rows) -> {"fire", "suppress"}] /\ Len(rows) \in Nat
        BY <1>1 DEF Init
    <2>2. latest = [i \in 1 .. Len(rows) |-> latest[i]]
        BY <2>1
    <2>3. [i \in 1 .. Len(rows) |-> latest[i]] \in Seq(Decision)
        BY <2>1, IsASeq DEF Decision
    <2> QED
        BY <2>1, <2>2, <2>3
<1>3. ClientsType
    BY IdleTyped, IdleFits DEF Init, ClientsType
<1>4. StoreType
    BY <1>1, <1>2 DEF Init, StoreType
<1> QED
    BY <1>3, <1>4, TypeSplit

LEMMA NewRowTyped ==
    ASSUME TypeOK, NEW m \in Lessons, NEW w \in SUBSET Wordings, NewRow(m, w)
    PROVE  /\ rows' \in Seq(Row) /\ latest' \in Seq(Decision)
           /\ Len(rows') = Len(rows) + 1 /\ Len(latest') = Len(rows')
           /\ \A i \in DOMAIN rows : rows'[i] = rows[i] /\ latest'[i] = latest[i]
           /\ rows'[Len(rows')].born = w /\ rows'[Len(rows')].words = w
<1> DEFINE new == [lesson |-> m, active |-> TRUE, signature |-> FALSE,
                   born |-> w, words |-> w]
<1>1. new \in Row
    BY DEF Row
<1>2. rows' = Append(rows, new) /\ latest' = Append(latest, "none")
    BY DEF NewRow
<1>3. rows \in Seq(Row) /\ latest \in Seq(Decision) /\ Len(latest) = Len(rows)
    BY TypeSplit DEF StoreType
<1>4. new.born = w /\ new.words = w /\ "none" \in Decision
    BY DEF Decision
<1> HIDE DEF new
<1> QED
    BY <1>1, <1>2, <1>3, <1>4

LEMMA NewFiringTyped ==
    ASSUME TypeOK, NEW id \in Nat, NEW s \in Sessions \cup {Malformed}, NewFiring(id, s)
    PROVE  firings' \in Seq(Firing) /\ Len(firings') = Len(firings) + 1
<1> DEFINE new == [row |-> id, session |-> s, outcome |-> Unrated]
<1>1. new \in Firing
    BY DEF Firing
<1>2. firings' = Append(firings, new) /\ firings \in Seq(Firing)
    BY TypeSplit DEF NewFiring, StoreType
<1> HIDE DEF new
<1> QED
    BY <1>1, <1>2

\* Rating a firing.
LEMMA RatedTyped ==
    ASSUME TypeOK, NEW k \in DOMAIN firings, NEW o \in Outcomes,
           firings' = [firings EXCEPT ![k].outcome = o]
    PROVE  firings' \in Seq(Firing) /\ Len(firings') = Len(firings)
<1> DEFINE new == [firings[k] EXCEPT !.outcome = o]
<1>1. firings \in Seq(Firing) /\ firings[k] \in Firing
    BY TypeSplit DEF StoreType
<1>2. new \in Firing /\ firings' = [firings EXCEPT ![k] = new]
    BY <1>1 DEF Firing
<1> HIDE DEF new
<1> QED
    BY <1>1, <1>2

\* An UPDATE of one row keeps the others.
LEMMA UpdateTyped ==
    ASSUME TypeOK, NEW id \in DOMAIN rows, NEW row \in Row,
           rows' = [rows EXCEPT ![id] = row]
    PROVE  /\ rows' \in Seq(Row) /\ Len(rows') = Len(rows)
           /\ DOMAIN rows' = DOMAIN rows
           /\ rows'[id] = row
           /\ \A i \in DOMAIN rows : i # id => rows'[i] = rows[i]
    BY DEF TypeOK

LEMMA RowFacts ==
    ASSUME TypeOK, NEW i \in DOMAIN rows
    PROVE  i \in Nat /\ rows[i] \in Row /\ DOMAIN rows = 1 .. Len(rows)
    BY DEF TypeOK

LEMMA FitsMe == ASSUME TypeOK, NEW c \in Clients PROVE Fits(me[c])
    BY TypeSplit DEF ClientsType

\* No statement takes a row or a firing away.
TablesGrow ==
    /\ DOMAIN rows \subseteq DOMAIN rows'
    /\ firings' \in Seq(Firing)
    /\ Len(firings) <= Len(firings')

LEMMA SameTablesGrow ==
    ASSUME TypeOK, DOMAIN rows' = DOMAIN rows, firings' = firings
    PROVE  TablesGrow
<1>1. firings \in Seq(Firing)
    BY TypeSplit DEF StoreType
<1> QED
    BY <1>1 DEF TablesGrow

LEMMA AllMove ==
    ASSUME TypeOK, me' \in [Clients -> Client], \A d \in Clients : Fits(me'[d]), TablesGrow
    PROVE  ClientsType'
<1>1. firings \in Seq(Firing) /\ Len(firings) \in Nat
    BY TypeSplit DEF StoreType
<1>2. DOMAIN firings \subseteq DOMAIN firings' /\ (Len(firings) > 0 => Len(firings') > 0)
    BY <1>1 DEF TablesGrow
<1>3. ASSUME NEW d \in Clients
      PROVE  Fits(me[d])'
    BY <1>2 DEF Fits, TablesGrow
<1> QED
    BY <1>3 DEF ClientsType

LEMMA ClientMoves ==
    ASSUME TypeOK, NEW c \in Clients, NEW st, Fits(st), me' = [me EXCEPT ![c] = st], TablesGrow
    PROVE  ClientsType'
<1>1. me \in [Clients -> Client] /\ \A d \in Clients : Fits(me[d])
    BY FitsMe DEF TypeOK
<1>2. st \in Client
    BY DEF Fits
<1>3. me' \in [Clients -> Client] /\ \A d \in Clients : Fits(me'[d])
    BY <1>1, <1>2
<1> QED
    BY <1>3, AllMove

LEMMA DoneMoves ==
    ASSUME TypeOK, NEW c \in Clients, Done(c), TablesGrow
    PROVE  ClientsType'
    BY IdleFits, ClientMoves DEF Done

LEMMA GotoMoves ==
    ASSUME TypeOK, NEW c \in Clients, NEW step \in Adding, me[c].pc \in Adding,
           Goto(c, step), TablesGrow
    PROVE  ClientsType'
<1> DEFINE st == [me[c] EXCEPT !.pc = step]
<1>1. Fits(me[c])
    BY FitsMe
<1>2. Fits(st)
    BY <1>1 DEF Fits, Client, Adding, Evaluating
<1>3. me' = [me EXCEPT ![c] = st]
    BY DEF Goto
<1> HIDE DEF st
<1> QED
    BY <1>2, <1>3, ClientMoves

\* Marking those at the gates leaves everyone fit.
LEMMA StirredFits ==
    ASSUME TypeOK, NEW id \in DOMAIN rows
    PROVE  Stirred(id) \in [Clients -> Client] /\ \A d \in Clients : Fits(Stirred(id)[d])
<1>1. me \in [Clients -> Client] /\ id \in Nat
    BY RowFacts DEF TypeOK
<1>2. ASSUME NEW d \in Clients
      PROVE  Fits(Stirred(id)[d])
    <2>1. Fits(me[d])
        BY FitsMe
    <2>2. Fits([me[d] EXCEPT !.stirred = @ \cup {id}])
        BY <1>1, <2>1 DEF Fits, Client
    <2>3. Stirred(id)[d] = [me[d] EXCEPT !.stirred = @ \cup {id}] \/ Stirred(id)[d] = me[d]
        BY DEF Stirred
    <2> QED
        BY <2>1, <2>2, <2>3
<1>3. \A d \in Clients : Stirred(id)[d] \in Client
    BY <1>2 DEF Fits
<1> QED
    BY <1>2, <1>3 DEF Stirred

LEMMA StirredFacts ==
    ASSUME me \in [Clients -> Client], NEW id, NEW d \in Clients
    PROVE  /\ Stirred(id)[d].pc = me[d].pc /\ Stirred(id)[d].id = me[d].id
           /\ Stirred(id)[d].seen = me[d].seen /\ Stirred(id)[d].session = me[d].session
           /\ me[d].pc \in Reading /\ id \in me[d].twins => id \in Stirred(id)[d].stirred
<1>1. Stirred(id)[d] = IF me[d].pc \in Reading /\ id \in me[d].twins
                       THEN [me[d] EXCEPT !.stirred = @ \cup {id}] ELSE me[d]
    BY DEF Stirred
<1>2. me[d] \in Client
    OBVIOUS
<1>3. CASE me[d].pc \in Reading /\ id \in me[d].twins
    BY <1>1, <1>2, <1>3 DEF Client
<1>4. CASE ~ (me[d].pc \in Reading /\ id \in me[d].twins)
    BY <1>1, <1>4
<1> QED
    BY <1>3, <1>4

LEMMA TypeCommands ==
    ASSUME TypeOK, NEW c \in Clients, Commands(c)
    PROVE  TypeOK'
<1> USE TypeSplit
<1>1. StoreType /\ ClientsType
    OBVIOUS
<1>2. ASSUME NEW m \in Lessons, NEW w \in SUBSET Details, ResolveNew(c, m, w)
      PROVE  TypeOK'
    <2>1. NewRow(m, w) /\ UNCHANGED <<firings, violations, me, merged>> /\ calls' = calls + 1
        BY <1>2 DEF ResolveNew, history
    <2>2. w \in SUBSET Wordings
        BY DEF Wordings
    <2>3. /\ rows' \in Seq(Row) /\ latest' \in Seq(Decision) /\ Len(latest') = Len(rows')
          /\ DOMAIN rows \subseteq DOMAIN rows'
        BY <1>1, <2>1, <2>2, NewRowTyped DEF StoreType
    <2>4. TablesGrow
        BY <1>1, <2>1, <2>3 DEF StoreType, TablesGrow
    <2>5. ClientsType'
        BY <1>1, <2>1, <2>4, AllMove DEF ClientsType
    <2>6. StoreType'
        BY <1>1, <2>1, <2>3 DEF StoreType
    <2> QED
        BY <2>5, <2>6
<1>3. ASSUME NEW st, Begin(c, st), Fits(st)
      PROVE  TypeOK'
    <2>1. me' = [me EXCEPT ![c] = st] /\ calls' = calls + 1 /\ UNCHANGED <<store, merged>>
        BY <1>3 DEF Begin
    <2>2. ClientsType'
        BY <1>3, <2>1, SameTablesGrow, ClientMoves DEF store
    <2>3. StoreType'
        BY <1>1, <2>1 DEF StoreType, store
    <2> QED
        BY <2>2, <2>3
<1>7. ASSUME NEW i \in Ids, NEW on \in BOOLEAN, SetSignature(c, i, on)
      PROVE  TypeOK'
    <2>1. i \in DOMAIN rows /\ rows' = [rows EXCEPT ![i] = [rows[i] EXCEPT !.signature = on]]
        BY <1>7 DEF SetSignature
    <2>2. [rows[i] EXCEPT !.signature = on] \in Row
        BY <2>1, RowFacts DEF Row
    <2>3. rows' \in Seq(Row) /\ Len(rows') = Len(rows) /\ DOMAIN rows' = DOMAIN rows
        BY <2>1, <2>2, UpdateTyped
    <2>4. UNCHANGED <<latest, firings, violations, me, merged>> /\ calls' = calls + 1
        BY <1>7 DEF SetSignature, history
    <2>5. ClientsType'
        BY <1>1, <2>3, <2>4, SameTablesGrow, AllMove DEF ClientsType
    <2>6. StoreType'
        BY <1>1, <2>3, <2>4 DEF StoreType
    <2> QED
        BY <2>5, <2>6
<1>6. ASSUME NEW i \in Ids, StartRevive(c, i)
      PROVE  TypeOK'
    <2> DEFINE st == [Idle EXCEPT !.pc = "revive"]
    <2>1. i \in Nat /\ NewFiring(i, Malformed) /\ me' = [me EXCEPT ![c] = st]
          /\ UNCHANGED <<rows, latest, violations, merged>> /\ calls' = calls + 1
        BY <1>6, RowFacts DEF StartRevive, history
    <2>2. firings' \in Seq(Firing) /\ Len(firings') = Len(firings) + 1 /\ Len(firings) \in Nat
        BY <1>1, <2>1, NewFiringTyped DEF StoreType
    <2>3. TablesGrow
        BY <2>1, <2>2 DEF TablesGrow
    <2>4. me' \in [Clients -> Client]
        BY <1>1, <2>1 DEF ClientsType, Client, Idle
    <2>5. Len(firings') > 0 /\ DOMAIN firings \subseteq DOMAIN firings'
        BY <1>1, <2>2 DEF StoreType
    <2>6. ASSUME NEW d \in Clients
          PROVE  Fits(me[d])'
        <3>1. CASE d = c
            <4>1. me'[d].pc = "revive" /\ me'[d].twins = {}
                BY <1>1, <2>1, <3>1 DEF ClientsType, Idle
            <4> QED
                BY <2>4, <2>5, <4>1 DEF Fits, Adding, Evaluating
        <3>2. CASE d # c
            <4>1. me'[d] = me[d] /\ Fits(me[d])
                BY <1>1, <2>1, <3>2 DEF ClientsType
            <4>2. Len(firings) > 0 => Len(firings') > 0
                BY <2>5
            <4> QED
                BY <2>1, <2>5, <4>1, <4>2 DEF Fits
        <3> QED
            BY <3>1, <3>2
    <2>7. StoreType'
        BY <1>1, <2>1, <2>2 DEF StoreType
    <2> QED
        BY <2>4, <2>6, <2>7 DEF ClientsType
<1> USE DEF Client, Idle, Adding, Evaluating, Fits
<1>4. ASSUME NEW m \in Lessons, NEW w \in SUBSET Details, NEW f \in BOOLEAN, StartAdd(c, m, w, f)
      PROVE  TypeOK'
    <2> DEFINE st == [Idle EXCEPT !.pc = "gate 1", !.lesson = m, !.words = w, !.forced = f]
    <2>1. Fits(st)
        BY DEF Wordings
    <2>2. Begin(c, st)
        BY <1>4 DEF StartAdd
    <2> HIDE DEF st
    <2> QED
        BY <1>3, <2>1, <2>2
<1>5. ASSUME NEW i \in Ids, NEW m \in Lessons, NEW w \in SUBSET Details, StartMerge(c, i, m, w)
      PROVE  TypeOK'
    <2> DEFINE st == [Idle EXCEPT !.pc = "merge", !.lesson = m, !.words = w, !.id = i,
                                  !.seen = rows[i].words]
    <2>1. i \in DOMAIN rows /\ i \in Nat /\ rows[i].words \subseteq Wordings
        <3>1. i \in DOMAIN rows
            BY <1>5 DEF StartMerge
        <3>2. rows[i] \in Row /\ i \in Nat
            BY <3>1, RowFacts
        <3> QED
            BY <3>1, <3>2 DEF Row
    <2>2. Fits(st)
        BY <2>1 DEF Wordings
    <2>3. Begin(c, st)
        BY <1>5 DEF StartMerge
    <2> HIDE DEF st
    <2> QED
        BY <1>3, <2>2, <2>3
<1>8. ASSUME StartAdopt(c)
      PROVE  TypeOK'
    <2> DEFINE st == [Idle EXCEPT !.pc = "adopt", !.block = 1]
    <2>1. 1 \in DOMAIN File
        BY <1>8, CurationAssumption DEF StartAdopt
    <2>2. Fits(st)
        BY <2>1
    <2>3. Begin(c, st)
        BY <1>8 DEF StartAdopt
    <2> HIDE DEF st
    <2> QED
        BY <1>3, <2>2, <2>3
<1>9. ASSUME NEW s \in Sessions, StartEvaluate(c, s)
      PROVE  TypeOK'
    <2> DEFINE seen == FiredIn(s)
    <2> DEFINE st == [Idle EXCEPT !.pc = "evaluate", !.session = s, !.seen = seen]
    <2>1. seen \subseteq Nat
        BY <1>1 DEF StoreType, FiredIn
    <2> HIDE DEF seen
    <2>2. Fits(st)
        BY <2>1
    <2>3. Begin(c, st)
        BY <1>9 DEF StartEvaluate, seen
    <2> HIDE DEF st
    <2> QED
        BY <1>3, <2>2, <2>3
<1> QED
    BY <1>2, <1>4, <1>5, <1>6, <1>7, <1>8, <1>9 DEF Commands

LEMMA TypeSteps ==
    ASSUME TypeOK, NEW c \in Clients, Steps(c)
    PROVE  TypeOK'
<1> USE TypeSplit
<1>1. Fits(me[c]) /\ StoreType /\ ClientsType
    BY FitsMe
<1>2. ASSUME UNCHANGED <<store, calls, history>>, ClientsType'
      PROVE  TypeOK'
    BY <1>1, <1>2 DEF StoreType, store, history
<1>0. ASSUME UNCHANGED <<rows, firings>>
      PROVE  TablesGrow
    BY <1>0, SameTablesGrow
<1>3. CASE ReadDecisions(c)
    <2> DEFINE held == HeldBack
               twins == Twins(c)
    <2>1. held \subseteq Nat /\ twins \subseteq DOMAIN rows /\ DOMAIN rows \subseteq Nat
        BY <1>1 DEF StoreType, HeldBack, Twins
    <2> DEFINE st1 == [me[c] EXCEPT !.pc = "resurrection", !.suppressed = held, !.twins = twins]
               st2 == [me[c] EXCEPT !.pc = "duplicate", !.suppressed = held]
    <2>2. /\ me[c].pc \in Adding
          /\ me' = [me EXCEPT ![c] = st1] \/ me' = [me EXCEPT ![c] = st2]
        BY <1>3 DEF ReadDecisions, At, Adding
    <2> HIDE DEF held, twins
    <2>4. Fits(st1) /\ Fits(st2)
        BY <1>1, <2>1, <2>2 DEF Fits, Client, Adding, Evaluating
    <2> HIDE DEF st1, st2
    <2>5. UNCHANGED <<store, calls, history>>
        BY <1>3 DEF ReadDecisions
    <2> QED
        BY <1>0, <1>2, <2>2, <2>4, <2>5, ClientMoves DEF store
<1>4. CASE Resurrection(c) \/ Duplicate(c)
    <2>1. UNCHANGED <<store, calls, history>>
        BY <1>4 DEF Resurrection, Duplicate
    <2>2. me[c].pc \in Adding
        BY <1>4 DEF Resurrection, Duplicate, At, Adding
    <2>3. Done(c) \/ Goto(c, "insert") \/ Goto(c, "gate 2")
        BY <1>4 DEF Resurrection, Duplicate
    <2>4. "insert" \in Adding /\ "gate 2" \in Adding
        BY DEF Adding
    <2> QED
        BY <1>0, <1>2, <2>1, <2>2, <2>3, <2>4, DoneMoves, GotoMoves DEF store
<1>5. CASE Insert(c)
    <2>1. /\ NewRow(me[c].lesson, me[c].words) /\ Done(c)
          /\ UNCHANGED <<firings, violations, calls, merged>>
        BY <1>5 DEF Insert, history
    <2>2. me[c].lesson \in Lessons /\ me[c].words \in SUBSET Wordings
        BY <1>1, <1>5 DEF Insert, At, Fits, Adding, Client
    <2>3. /\ rows' \in Seq(Row) /\ latest' \in Seq(Decision) /\ Len(latest') = Len(rows')
          /\ DOMAIN rows \subseteq DOMAIN rows'
        BY <1>1, <2>1, <2>2, NewRowTyped DEF StoreType
    <2>4. TablesGrow
        BY <1>1, <2>1, <2>3 DEF StoreType, TablesGrow
    <2>5. ClientsType'
        BY <2>1, <2>4, DoneMoves
    <2>6. StoreType'
        BY <1>1, <2>1, <2>3 DEF StoreType
    <2> QED
        BY <2>5, <2>6
<1>6. CASE Merge(c)
    <2> DEFINE id == me[c].id
               row == [rows[id] EXCEPT !.words = Merged(c)]
    <2>1. /\ rows' = [rows EXCEPT ![id] = row]
          /\ merged' = merged \cup {<<id, w>> : w \in Text(me[c])}
          /\ me' = [Stirred(id) EXCEPT ![c] = Idle]
          /\ UNCHANGED <<latest, firings, violations, calls>>
        BY <1>6 DEF Merge
    <2>2. id \in DOMAIN rows /\ Text(me[c]) \subseteq Wordings /\ me[c].seen \subseteq Wordings
        BY <1>1, <1>6 DEF Fits, Merge, At, Text, Client, Wordings
    <2>3. rows[id] \in Row
        BY <2>2, RowFacts
    <2>5. row \in Row
        BY <2>2, <2>3 DEF Row, Merged
    <2> HIDE DEF row
    <2>6. rows' \in Seq(Row) /\ Len(rows') = Len(rows) /\ DOMAIN rows' = DOMAIN rows
        BY <2>1, <2>2, <2>5, UpdateTyped
    <2>7. Stirred(id) \in [Clients -> Client] /\ \A d \in Clients : Fits(Stirred(id)[d])
        BY <2>2, StirredFits
    <2> HIDE DEF id
    <2>8. me' \in [Clients -> Client] /\ \A d \in Clients : Fits(me'[d])
        BY <2>1, <2>7, IdleFits, IdleTyped
    <2>9. ClientsType'
        BY <2>1, <2>6, <2>8, SameTablesGrow, AllMove
    <2>10. merged' \subseteq (DOMAIN rows) \X Wordings
        BY <1>1, <2>1, <2>2 DEF StoreType
    <2>11. StoreType'
        BY <1>1, <2>1, <2>6, <2>10 DEF StoreType
    <2> QED
        BY <2>9, <2>11
<1>13. CASE NewestFiring(c)
    <2> DEFINE st == [me[c] EXCEPT !.pc = "rate", !.id = Len(firings)]
    <2>1. me' = [me EXCEPT ![c] = st] /\ UNCHANGED <<store, calls, history>> /\ Len(firings) > 0
        BY <1>1, <1>13 DEF NewestFiring, At, Fits
    <2>2. Len(firings) \in Nat /\ Len(firings) \in DOMAIN firings
        BY <1>1, <2>1 DEF StoreType
    <2>3. Fits(st)
        BY <1>1, <2>2 DEF Fits, Client, Adding, Evaluating
    <2> HIDE DEF st
    <2> QED
        BY <1>0, <1>2, <2>1, <2>3, ClientMoves DEF store
<1>7. CASE RateHelpful(c)
    <2>1. me[c].id \in DOMAIN firings /\ firings' = [firings EXCEPT ![me[c].id].outcome = "helpful"]
          /\ UNCHANGED <<rows, latest, violations, calls, merged>> /\ Done(c)
        BY <1>1, <1>7 DEF Fits, RateHelpful, At, history
    <2>2. firings' \in Seq(Firing) /\ Len(firings') = Len(firings) /\ Len(firings) \in Nat
        <3>1. "helpful" \in Outcomes
            BY DEF Outcomes
        <3>2. firings' \in Seq(Firing) /\ Len(firings') = Len(firings)
            BY TypeOK, <2>1, <3>1, RatedTyped
        <3>3. Len(firings) \in Nat
            BY <1>1 DEF StoreType
        <3> QED
            BY <3>2, <3>3
    <2>3. ClientsType'
        BY <2>1, <2>2, DoneMoves DEF TablesGrow
    <2>4. StoreType'
        BY <1>1, <2>1, <2>2 DEF StoreType
    <2> QED
        BY <2>3, <2>4
<1>8. CASE AdoptBlock(c)
    <2> DEFINE b == me[c].block
               st == [me[c] EXCEPT !.block = b + 1]
    <2>1. /\ b \in DOMAIN File /\ b \in Nat /\ Len(File) \in Nat /\ DOMAIN File = 1 .. Len(File)
          /\ UNCHANGED <<firings, violations, calls, merged>>
        BY <1>1, <1>8, CurationAssumption DEF Fits, AdoptBlock, At, history
    <2>2. \/ UNCHANGED <<rows, latest>>
          \/ /\ File[b].lesson \in Lessons /\ File[b].words \in SUBSET Wordings
             /\ NewRow(File[b].lesson, File[b].words)
        BY <1>8, <2>1, CurationAssumption DEF AdoptBlock
    <2>3. /\ rows' \in Seq(Row) /\ latest' \in Seq(Decision)
          /\ Len(latest') = Len(rows') /\ DOMAIN rows \subseteq DOMAIN rows'
        BY <1>1, <2>2, NewRowTyped DEF StoreType
    <2>8. TablesGrow
        BY <1>1, <2>1, <2>3 DEF StoreType, TablesGrow
    <2>4. ASSUME b = Len(File), Done(c)
          PROVE  ClientsType'
        BY <2>8, <2>4, DoneMoves
    <2>5. ASSUME b # Len(File), me' = [me EXCEPT ![c] = st]
          PROVE  ClientsType'
        <3>1. b + 1 \in DOMAIN File
            BY <2>1, <2>5
        <3>2. Fits(st)
            BY <1>1, <3>1, <2>1 DEF Fits, Client
        <3> HIDE DEF st
        <3> QED
            BY <2>8, <2>5, <3>2, ClientMoves
    <2>6. ClientsType'
        BY <1>8, <2>4, <2>5 DEF AdoptBlock
    <2>7. StoreType'
        BY <1>1, <2>1, <2>3 DEF StoreType
    <2> QED
        BY <2>6, <2>7
<1>9. CASE ReadRows(c)
    <2>1. PICK hit \in SUBSET {i \in DOMAIN rows : rows[i].active /\ rows[i].signature} :
             me' = [me EXCEPT ![c].pc = "check", ![c].left = hit \ me[c].seen]
        BY <1>9 DEF ReadRows
    <2> DEFINE st == [me[c] EXCEPT !.pc = "check", !.left = hit \ me[c].seen]
    <2>2. hit \subseteq Nat /\ me' = [me EXCEPT ![c] = st]
        <3>1. hit \subseteq Nat
            BY RowFacts
        <3>2. me' = [me EXCEPT ![c] = st]
            BY <2>1
        <3> QED
            BY <3>1, <3>2
    <2>3. me[c].pc = "evaluate"
        BY <1>9 DEF ReadRows, At
    <2>4. Fits(st)
        BY <1>1, <2>2, <2>3 DEF Fits, Client, Adding, Evaluating
    <2> HIDE DEF st
    <2>5. UNCHANGED <<store, calls, history>>
        BY <1>9 DEF ReadRows
    <2> QED
        BY <1>0, <1>2, <2>2, <2>4, <2>5, ClientMoves DEF store
<1>10. CASE Check(c)
    <2>1. UNCHANGED <<store, calls, history>> /\ me[c].pc = "check" /\ me[c].left \subseteq Nat
        BY <1>1, <1>10 DEF Check, At, Fits, Client
    <2>2. CASE me[c].left = {}
        BY <1>0, <1>2, <1>10, <2>1, <2>2, DoneMoves DEF Check, store
    <2>3. CASE me[c].left # {}
        <3> DEFINE id == CHOOSE i \in me[c].left : \A j \in me[c].left : i <= j
                   st == [me[c] EXCEPT !.pc = "log", !.id = id]
                   on == [me[c] EXCEPT !.left = @ \ {id}]
        <3>1. id \in Nat
            BY <2>1, <2>3, LeastChosen
        <3>2. me' = [me EXCEPT ![c] = st] \/ me' = [me EXCEPT ![c] = on]
            BY <1>10, <2>3 DEF Check
        <3> HIDE DEF id
        <3>3. Fits(st) /\ Fits(on)
            BY <1>1, <2>1, <3>1 DEF Fits, Client, Adding, Evaluating
        <3> HIDE DEF st, on
        <3> QED
            BY <1>0, <1>2, <2>1, <3>2, <3>3, ClientMoves DEF store
    <2> QED
        BY <2>2, <2>3
<1>11. CASE LogViolation(c)
    <2> DEFINE st == [me[c] EXCEPT !.pc = "check", !.left = @ \ {me[c].id}]
               new == <<me[c].id, me[c].session>>
    <2>1. /\ me[c].pc = "log" /\ me' = [me EXCEPT ![c] = st] /\ violations' = Append(violations, new)
          /\ UNCHANGED <<rows, latest, firings, calls, merged>>
        BY <1>11 DEF LogViolation, At, history
    <2>2. Fits(st)
        BY <1>1, <2>1 DEF Fits, Client, Adding, Evaluating
    <2>3. new \in Nat \X Sessions
        BY <1>1, <2>1 DEF Fits, Client, Evaluating
    <2> HIDE DEF st, new
    <2>4. ClientsType'
        BY <1>0, <2>1, <2>2, ClientMoves
    <2>5. StoreType'
        BY <1>1, <2>1, <2>3 DEF StoreType
    <2> QED
        BY <2>4, <2>5
<1>12. CASE Kill(c)
    BY <1>0, <1>2, <1>12, DoneMoves DEF Kill, store
<1> QED
    BY <1>3, <1>4, <1>5, <1>6, <1>7, <1>8, <1>9, <1>10, <1>11, <1>12, <1>13 DEF Steps

LEMMA TypeOthers ==
    ASSUME TypeOK, Others
    PROVE  TypeOK'
<1> USE TypeSplit
<1>0. StoreType /\ ClientsType
    OBVIOUS
<1>1. ASSUME NEW id \in DOMAIN rows, me' = Stirred(id) \/ me' = me, TablesGrow
      PROVE  ClientsType'
    BY <1>0, <1>1, StirredFits, AllMove DEF ClientsType
<1>2. ASSUME NEW id \in DOMAIN rows, Decide(id)
      PROVE  /\ latest' \in Seq(Decision) /\ Len(latest') = Len(latest)
             /\ me' = Stirred(id) \/ me' = me
    <2>1. latest' = [latest EXCEPT ![id] = Verdict(id)] /\ Verdict(id) \in Decision
        BY <1>2 DEF Decide, Verdict, Decision
    <2>2. latest' \in Seq(Decision) /\ Len(latest') = Len(latest)
        BY <1>0, <2>1 DEF StoreType
    <2> QED
        BY <1>2, <2>2 DEF Decide
<1>3. ASSUME NEW id \in Ids, NEW s \in Sessions, HookScores(id, s)
      PROVE  TypeOK'
    <2>1. id \in DOMAIN rows /\ UNCHANGED <<rows, violations, calls, merged>> /\ Decide(id) /\ id \in Nat
        BY <1>3, RowFacts DEF HookScores, history
    <2>2. firings' \in Seq(Firing) /\ Len(firings) <= Len(firings')
        <3>1. NewFiring(id, s) \/ firings' = firings
            BY <1>3 DEF HookScores
        <3>2. firings \in Seq(Firing) /\ Len(firings) \in Nat
            BY <1>0 DEF StoreType
        <3> QED
            BY <2>1, <3>1, <3>2, NewFiringTyped
    <2>3. TablesGrow
        BY <2>1, <2>2 DEF TablesGrow
    <2>4. StoreType'
        BY <1>0, <1>2, <2>1, <2>2 DEF StoreType
    <2> QED
        BY <1>1, <1>2, <2>1, <2>3, <2>4
<1>4. ASSUME NEW id \in Ids, ScoreVerb(id)
      PROVE  TypeOK'
    <2>1. id \in DOMAIN rows /\ UNCHANGED <<rows, firings, violations, calls, merged>> /\ Decide(id)
        BY <1>4 DEF ScoreVerb, history
    <2>2. StoreType'
        BY <1>0, <1>2, <2>1 DEF StoreType
    <2> QED
        BY <1>1, <1>2, <2>1, <2>2, SameTablesGrow
<1>5. ASSUME NEW k, RateNoise(k)
      PROVE  TypeOK'
    <2>1. /\ k \in DOMAIN firings /\ firings' = [firings EXCEPT ![k].outcome = "noise"]
          /\ UNCHANGED <<rows, latest, violations, me, calls, merged>>
        BY <1>5 DEF RateNoise, history
    <2>2. firings' \in Seq(Firing) /\ Len(firings') = Len(firings) /\ Len(firings) \in Nat
        <3>1. "noise" \in Outcomes
            BY DEF Outcomes
        <3>2. firings' \in Seq(Firing) /\ Len(firings') = Len(firings)
            BY TypeOK, <2>1, <3>1, RatedTyped
        <3>3. Len(firings) \in Nat
            BY <1>0 DEF StoreType
        <3> QED
            BY <3>2, <3>3
    <2>3. ClientsType'
        BY <1>0, <2>1, <2>2, AllMove DEF ClientsType, TablesGrow
    <2>4. StoreType'
        BY <1>0, <2>1, <2>2 DEF StoreType
    <2> QED
        BY <2>3, <2>4
<1>6. ASSUME NEW id \in Ids, Retire(id)
      PROVE  TypeOK'
    <2> DEFINE row == [rows[id] EXCEPT !.active = FALSE]
    <2>1. /\ id \in DOMAIN rows /\ rows' = [rows EXCEPT ![id] = row] /\ me' = Stirred(id)
          /\ UNCHANGED <<latest, firings, violations, calls, merged>>
        BY <1>6 DEF Retire, history
    <2>2. row \in Row
        BY <2>1, RowFacts DEF Row
    <2> HIDE DEF row
    <2>3. rows' \in Seq(Row) /\ Len(rows') = Len(rows) /\ DOMAIN rows' = DOMAIN rows
        BY <2>1, <2>2, UpdateTyped
    <2>4. StoreType'
        BY <1>0, <2>1, <2>3 DEF StoreType
    <2> QED
        BY <1>1, <2>1, <2>3, <2>4, SameTablesGrow
<1> QED
    BY <1>3, <1>4, <1>5, <1>6 DEF Others

LEMMA TypeStep == ASSUME TypeOK, [Next]_vars PROVE TypeOK'
<1>1. CASE UNCHANGED vars
    BY <1>1 DEF TypeOK, vars
<1> QED
    BY <1>1, WhoActs, TypeCommands, TypeSteps, TypeOthers

\* Every variable keeps its type: in particular the decisions stay aligned with the
\* rows, and no statement writes to a row that is not there.
THEOREM TypeCorrect == Spec => []TypeOK
    BY TypeInit, TypeStep, PTL DEF Spec

-----------------------------------------------------------------------------
(* Violations *)

Overlaps ==
    \A c, d \in Clients :
        /\ c # d
        /\ me[c].pc \in Evaluating /\ me[d].pc \in Evaluating
        /\ me[c].session = me[d].session
        => me[c].session \in crossed

\* Between log_violation's look and its INSERT the violation is still missing.
StillUnlogged ==
    \A c \in Clients : me[c].pc = "log" =>
        \A k \in DOMAIN violations :
            violations[k] = <<me[c].id, me[c].session>> => me[c].session \in crossed

ViolationInv == TypeOK /\ Overlaps /\ StillUnlogged /\ OneViolationEach

\* A step that is not an evaluator's leaves every evaluator where it is.
SameEvaluators ==
    /\ \A d \in Clients : me'[d].pc \in Evaluating =>
          me'[d].pc = me[d].pc /\ me'[d].session = me[d].session /\ me'[d].id = me[d].id
    /\ violations' = violations
    /\ crossed \subseteq crossed'

LEMMA CommandsKeepEvaluators ==
    ASSUME TypeOK, NEW c \in Clients, Commands(c)
    PROVE  SameEvaluators \/ \E s \in Sessions : StartEvaluate(c, s)
<1> USE DEF SameEvaluators, Evaluating
<1>1. me \in [Clients -> Client]
    BY DEF TypeOK
<1>2. ASSUME NEW st, Begin(c, st), st.pc \notin Evaluating, crossed \subseteq crossed'
      PROVE  SameEvaluators
    BY <1>1, <1>2 DEF Begin, store
<1>3. ASSUME NEW m \in Lessons, NEW w \in SUBSET Details, ResolveNew(c, m, w)
      PROVE  SameEvaluators
    BY <1>3 DEF ResolveNew, history
<1>4. ASSUME NEW m \in Lessons, NEW w \in SUBSET Details, NEW f \in BOOLEAN, StartAdd(c, m, w, f)
      PROVE  SameEvaluators
    BY <1>2, <1>4 DEF StartAdd, Idle
<1>5. ASSUME NEW i \in Ids, NEW m \in Lessons, NEW w \in SUBSET Details, StartMerge(c, i, m, w)
      PROVE  SameEvaluators
    BY <1>2, <1>5 DEF StartMerge, Idle
<1>6. ASSUME NEW i \in Ids, StartRevive(c, i)
      PROVE  SameEvaluators
    BY <1>1, <1>6 DEF StartRevive, Idle, history
<1>7. ASSUME NEW i \in Ids, NEW on \in BOOLEAN, SetSignature(c, i, on)
      PROVE  SameEvaluators
    BY <1>7 DEF SetSignature, history
<1>8. ASSUME StartAdopt(c)
      PROVE  SameEvaluators
    BY <1>2, <1>8 DEF StartAdopt, Idle
<1> QED
    BY <1>3, <1>4, <1>5, <1>6, <1>7, <1>8 DEF Commands

LEMMA StepsKeepEvaluators ==
    ASSUME TypeOK, NEW c \in Clients, Steps(c)
    PROVE  SameEvaluators \/ ReadRows(c) \/ Check(c) \/ LogViolation(c)
<1> USE DEF SameEvaluators, Evaluating, store, history
<1>1. me \in [Clients -> Client]
    BY DEF TypeOK
<1>2. ASSUME Done(c), violations' = violations, crossed' = crossed
      PROVE  SameEvaluators
    BY <1>1, <1>2 DEF Done, Idle
<1>3. ASSUME NEW step, Goto(c, step), step \notin Evaluating, violations' = violations, crossed' = crossed
      PROVE  SameEvaluators
    BY <1>1, <1>3 DEF Goto, Client
<1>4. CASE ReadDecisions(c)
    <2>1. violations' = violations /\ crossed' = crossed /\ \A d \in Clients : d # c => me'[d] = me[d]
        BY <1>1, <1>4 DEF ReadDecisions
    <2>2. me'[c].pc = "resurrection" \/ me'[c].pc = "duplicate"
        BY <1>1, <1>4 DEF ReadDecisions, Client
    <2> QED
        BY <2>1, <2>2
<1>5. CASE Resurrection(c) \/ Duplicate(c)
    <2>1. Done(c) \/ Goto(c, "insert") \/ Goto(c, "gate 2")
        BY <1>5 DEF Resurrection, Duplicate
    <2>2. violations' = violations /\ crossed' = crossed
        BY <1>5 DEF Resurrection, Duplicate
    <2> QED
        BY <1>2, <1>3, <2>1, <2>2
<1>6. CASE Insert(c) \/ RateHelpful(c) \/ Kill(c)
    BY <1>2, <1>6 DEF Insert, RateHelpful, Kill
<1>8. CASE Merge(c)
    <2>1. me' = [Stirred(me[c].id) EXCEPT ![c] = Idle] /\ violations' = violations /\ crossed' = crossed
        BY <1>8 DEF Merge
    <2>2. \A d \in Clients : me'[d] = IF d = c THEN Idle ELSE Stirred(me[c].id)[d]
        BY <2>1 DEF Stirred
    <2> QED
        BY <1>1, <2>1, <2>2, StirredFacts DEF Idle
<1>9. CASE NewestFiring(c)
    BY <1>1, <1>9 DEF NewestFiring, At, Client
<1>7. CASE AdoptBlock(c)
    <2>1. Done(c) \/ (me[c].pc = "adopt" /\ me' = [me EXCEPT ![c].block = me[c].block + 1])
        BY <1>7 DEF AdoptBlock, At
    <2>2. violations' = violations /\ crossed' = crossed
        BY <1>7 DEF AdoptBlock
    <2> QED
        BY <1>1, <1>2, <2>1, <2>2 DEF Client
<1> QED
    BY <1>4, <1>5, <1>6, <1>7, <1>8, <1>9 DEF Steps

LEMMA OthersKeepEvaluators == ASSUME TypeOK, Others PROVE SameEvaluators
<1> USE DEF SameEvaluators, history
<1>1. ASSUME NEW id, me' = Stirred(id) \/ me' = me, violations' = violations, crossed' = crossed
      PROVE  SameEvaluators
    BY <1>1, StirredFacts DEF TypeOK
<1> QED
    BY <1>1 DEF Others, HookScores, ScoreVerb, Decide, RateNoise, Retire

LEMMA ViolationStep == ASSUME ViolationInv, [Next]_vars PROVE ViolationInv'
<1> USE DEF ViolationInv
<1>1. TypeOK'
    BY TypeStep
<1>2. me \in [Clients -> Client] /\ violations \in Seq(Nat \X Sessions)
    BY DEF TypeOK
<1>3. CASE SameEvaluators
    BY <1>1, <1>3 DEF SameEvaluators, Overlaps, StillUnlogged, OneViolationEach, Evaluating
<1>4. CASE UNCHANGED vars
    <2>1. SameEvaluators
        BY <1>4 DEF SameEvaluators, vars
    <2> QED
        BY <1>3, <2>1
<1>5. ASSUME NEW c \in Clients, NEW s \in Sessions, StartEvaluate(c, s)
      PROVE  ViolationInv'
    <2> DEFINE st == [Idle EXCEPT !.pc = "evaluate", !.session = s,
                                  !.seen = FiredIn(s)]
    <2>1. me' = [me EXCEPT ![c] = st] /\ violations' = violations /\ st.pc = "evaluate" /\ st.session = s
        BY <1>5 DEF StartEvaluate, Begin, Idle, store
    <2> HIDE DEF st
    <2>2. crossed' = crossed \cup {s : d \in {d \in Clients : me[d].session = s}}
        BY <1>5 DEF StartEvaluate
    <2>3. crossed \subseteq crossed' /\ \A d \in Clients : me[d].session = s => s \in crossed'
        BY <2>2
    <2>4. \A d \in Clients : me'[d] = IF d = c THEN st ELSE me[d]
        BY <1>2, <2>1
    <2>5. Overlaps'
        BY <2>1, <2>3, <2>4 DEF Overlaps, Evaluating
    <2>6. StillUnlogged'
        BY <2>1, <2>3, <2>4 DEF StillUnlogged
    <2>7. OneViolationEach'
        BY <2>1, <2>3 DEF OneViolationEach
    <2> QED
        BY <1>1, <2>5, <2>6, <2>7
<1>6. ASSUME NEW c \in Clients, ReadRows(c)
      PROVE  ViolationInv'
    <2>1. /\ me[c].pc = "evaluate" /\ me'[c].pc = "check" /\ me'[c].session = me[c].session
          /\ \A d \in Clients : d # c => me'[d] = me[d]
          /\ violations' = violations /\ crossed' = crossed
        BY <1>2, <1>6 DEF ReadRows, At, Client, store, history
    <2> QED
        BY <1>1, <2>1 DEF Overlaps, StillUnlogged, OneViolationEach, Evaluating
<1>7. ASSUME NEW c \in Clients, Check(c)
      PROVE  ViolationInv'
    <2>1. /\ me[c].pc = "check" /\ \A d \in Clients : d # c => me'[d] = me[d]
          /\ violations' = violations /\ crossed' = crossed
        BY <1>2, <1>7 DEF Check, At, Done, store, history
    <2>2. \/ me'[c].pc = "idle"
          \/ me'[c].pc = "check" /\ me'[c].session = me[c].session
          \/ /\ me'[c].pc = "log" /\ me'[c].session = me[c].session
             /\ \A k \in DOMAIN violations : violations[k] # <<me'[c].id, me[c].session>>
        BY <1>2, <1>7 DEF Check, At, Done, Idle, Client, Unlogged
    <2> QED
        BY <1>1, <2>1, <2>2 DEF Overlaps, StillUnlogged, OneViolationEach, Evaluating
<1>8. ASSUME NEW c \in Clients, LogViolation(c)
      PROVE  ViolationInv'
    <2> DEFINE new == <<me[c].id, me[c].session>>
               n == Len(violations)
    <2>1. /\ me[c].pc = "log" /\ me'[c].pc = "check" /\ me'[c].session = me[c].session
          /\ \A d \in Clients : d # c => me'[d] = me[d]
          /\ violations' = Append(violations, new) /\ crossed' = crossed
        BY <1>2, <1>8 DEF LogViolation, At, Client, history
    <2>2. new \in Nat \X Sessions /\ new[2] = me[c].session
        BY <2>1 DEF TypeOK, Client, Evaluating
    <2> HIDE DEF new
    <2>3. /\ n \in Nat /\ DOMAIN violations = 1 .. n /\ DOMAIN violations' = 1 .. n + 1
          /\ \A k \in 1 .. n : violations'[k] = violations[k]
          /\ violations'[n + 1] = new
        BY <1>2, <2>1, <2>2
    <2>4. Overlaps'
        BY <2>1 DEF Overlaps, Evaluating
    <2>5. StillUnlogged'
        <3> SUFFICES ASSUME NEW d \in Clients, me'[d].pc = "log", NEW k \in 1 .. n + 1,
                            violations'[k] = <<me'[d].id, me'[d].session>>
                     PROVE  me'[d].session \in crossed'
            BY <2>3 DEF StillUnlogged
        <3>1. d # c /\ me'[d] = me[d]
            BY <2>1
        <3>2. CASE k \in 1 .. n
            BY <2>1, <2>3, <3>1, <3>2 DEF StillUnlogged
        <3>3. CASE k = n + 1
            <4>1. me[d].session = me[c].session
                BY <2>3, <3>1, <3>3 DEF new
            <4> QED
                BY <2>1, <3>1, <4>1 DEF Overlaps, Evaluating
        <3> QED
            BY <2>3, <3>2, <3>3
    <2>6. OneViolationEach'
        <3> SUFFICES ASSUME NEW j \in 1 .. n + 1, NEW k \in 1 .. n + 1,
                            violations'[j] = violations'[k], violations'[j][2] \notin crossed
                     PROVE  j = k
            BY <2>1, <2>3 DEF OneViolationEach
        <3>1. CASE j \in 1 .. n /\ k \in 1 .. n
            BY <2>3, <3>1 DEF OneViolationEach
        <3>2. \A i \in 1 .. n : violations[i] = new => new[2] \in crossed
            BY <2>1, <2>2, <2>3 DEF StillUnlogged, new
        <3>3. j \in 1 .. n \/ j = n + 1
            BY <2>3
        <3>4. k \in 1 .. n \/ k = n + 1
            BY <2>3
        <3> QED
            BY <2>3, <3>1, <3>2, <3>3, <3>4
    <2> QED
        BY <1>1, <2>4, <2>5, <2>6
<1> QED
    BY <1>3, <1>4, <1>5, <1>6, <1>7, <1>8, WhoActs,
       CommandsKeepEvaluators, StepsKeepEvaluators, OthersKeepEvaluators

\* One violation per row and session, for any number of evaluators, evaluations and
\* kills, unless two evaluators were at that session at once: log_violation's look and
\* its INSERT are two statements, and nothing else stands between them.
THEOREM OneViolation == Spec => []OneViolationEach
<1>1. Init => ViolationInv
    <2> SUFFICES ASSUME Init
                 PROVE  ViolationInv
        OBVIOUS
    <2>1. \A c \in Clients : me[c].pc = "idle"
        BY DEF Init, Idle
    <2> QED
        BY TypeInit, <2>1 DEF Init, ViolationInv, Overlaps, StillUnlogged, OneViolationEach, Evaluating
<1>2. ViolationInv /\ [Next]_vars => ViolationInv'
    BY ViolationStep
<1>3. ViolationInv => OneViolationEach
    BY DEF ViolationInv
<1> QED
    BY <1>1, <1>2, <1>3, PTL DEF Spec

-----------------------------------------------------------------------------
(* Rows and clients from one step to the next *)

\* A row keeps what it says and what was merged into it; a new one has what it was
\* born with.
KeepsWords ==
    /\ DOMAIN rows \subseteq DOMAIN rows'
    /\ \A i \in DOMAIN rows :
         /\ rows'[i].words = rows[i].words /\ rows'[i].lesson = rows[i].lesson
         /\ rows'[i].born = rows[i].born
    /\ \A i \in DOMAIN rows' \ DOMAIN rows : rows'[i].born \subseteq rows'[i].words

\* Whether a row is active, and whether it was last held back.
KeepsStanding ==
    \A i \in DOMAIN rows :
        /\ rows'[i].active = rows[i].active
        /\ latest'[i] = "suppress" <=> latest[i] = "suppress"

LEMMA NewRowKeeps ==
    ASSUME TypeOK, NEW m \in Lessons, NEW w \in SUBSET Wordings, NewRow(m, w)
    PROVE  KeepsWords /\ KeepsStanding
<1>1. /\ rows' \in Seq(Row) /\ Len(rows') = Len(rows) + 1
      /\ \A i \in DOMAIN rows : rows'[i] = rows[i] /\ latest'[i] = latest[i]
      /\ rows'[Len(rows')].born = w /\ rows'[Len(rows')].words = w
    BY NewRowTyped
<1>2. DOMAIN rows = 1 .. Len(rows) /\ DOMAIN rows' = 1 .. Len(rows') /\ Len(rows) \in Nat
    BY <1>1 DEF TypeOK
<1> QED
    BY <1>1, <1>2 DEF KeepsWords, KeepsStanding

LEMMA UpdateKeeps ==
    ASSUME TypeOK, NEW id \in DOMAIN rows, NEW row \in Row,
           rows' = [rows EXCEPT ![id] = row],
           row.words = rows[id].words, row.lesson = rows[id].lesson, row.born = rows[id].born
    PROVE  /\ KeepsWords
           /\ row.active = rows[id].active /\ latest' = latest => KeepsStanding
    BY UpdateTyped DEF KeepsWords, KeepsStanding

LEMMA SameRowsKeep ==
    ASSUME UNCHANGED <<rows, latest>>
    PROVE  KeepsWords /\ KeepsStanding
    BY DEF KeepsWords, KeepsStanding

LEMMA CommandsKeepRows ==
    ASSUME TypeOK, NEW c \in Clients, Commands(c)
    PROVE  KeepsWords /\ KeepsStanding
<1>1. ASSUME NEW m \in Lessons, NEW w \in SUBSET Details, ResolveNew(c, m, w)
      PROVE  KeepsWords /\ KeepsStanding
    BY <1>1, NewRowKeeps DEF ResolveNew, Wordings
<1>2. ASSUME NEW i \in Ids, NEW on \in BOOLEAN, SetSignature(c, i, on)
      PROVE  KeepsWords /\ KeepsStanding
    <2> DEFINE row == [rows[i] EXCEPT !.signature = on]
    <2>1. i \in DOMAIN rows /\ rows' = [rows EXCEPT ![i] = row] /\ latest' = latest
        BY <1>2 DEF SetSignature
    <2>2. /\ row \in Row /\ row.words = rows[i].words /\ row.lesson = rows[i].lesson
          /\ row.born = rows[i].born /\ row.active = rows[i].active
        BY <2>1, RowFacts DEF Row
    <2> HIDE DEF row
    <2> QED
        BY <2>1, <2>2, UpdateKeeps
<1>3. ASSUME NEW st, Begin(c, st)
      PROVE  KeepsWords /\ KeepsStanding
    BY <1>3, SameRowsKeep DEF Begin, store
<1>4. ASSUME NEW i \in Ids, StartRevive(c, i)
      PROVE  KeepsWords /\ KeepsStanding
    BY <1>4, SameRowsKeep DEF StartRevive
<1> QED
    BY <1>1, <1>2, <1>3, <1>4 DEF Commands, StartAdd, StartMerge, StartAdopt, StartEvaluate

LEMMA StepsKeepRows ==
    ASSUME TypeOK, NEW c \in Clients, Steps(c)
    PROVE  KeepsStanding /\ (Merge(c) \/ KeepsWords)
<1>1. Fits(me[c])
    BY FitsMe
<1>2. CASE Insert(c)
    <2>1. /\ NewRow(me[c].lesson, me[c].words)
          /\ me[c].lesson \in Lessons /\ me[c].words \in SUBSET Wordings
        BY <1>1, <1>2 DEF Insert, At, Fits, Adding, Client
    <2> QED
        BY <2>1, NewRowKeeps
<1>3. CASE Merge(c)
    <2>1. me[c].id \in DOMAIN rows
        BY <1>1, <1>3 DEF Fits, Merge, At
    <2>2. /\ rows' = [rows EXCEPT ![me[c].id] = [rows[me[c].id] EXCEPT !.words = Merged(c)]]
          /\ latest' = latest
        BY <1>3 DEF Merge
    <2>3. rows \in Seq(Row) /\ rows[me[c].id] \in Row
        BY <2>1, RowFacts DEF TypeOK
    <2>4. [rows[me[c].id] EXCEPT !.words = Merged(c)].active = rows[me[c].id].active
        BY <2>3 DEF Row
    <2> QED
        BY <1>3, <2>1, <2>2, <2>3, <2>4 DEF KeepsStanding
<1>5. CASE AdoptBlock(c)
    <2> DEFINE e == File[me[c].block]
    <2>1. \/ UNCHANGED <<rows, latest>>
          \/ e.lesson \in Lessons /\ e.words \in SUBSET Wordings /\ NewRow(e.lesson, e.words)
        BY <1>1, <1>5, CurationAssumption DEF Fits, AdoptBlock, At
    <2> QED
        BY <2>1, NewRowKeeps, SameRowsKeep
<1>6. CASE \/ ReadDecisions(c) \/ Resurrection(c) \/ Duplicate(c) \/ ReadRows(c) \/ Check(c)
           \/ LogViolation(c) \/ Kill(c) \/ NewestFiring(c) \/ RateHelpful(c)
    <2>1. UNCHANGED <<rows, latest>>
        BY <1>6 DEF ReadDecisions, Resurrection, Duplicate, ReadRows, Check, LogViolation, Kill,
                    NewestFiring, RateHelpful, store
    <2> QED
        BY <2>1, SameRowsKeep
<1> QED
    BY <1>2, <1>3, <1>5, <1>6 DEF Steps

\* What a step of a hook or a person may change: whether one row is active, or what was
\* decided of it, and then it stirs those at the gates.
LEMMA OthersKeepRows ==
    ASSUME TypeOK, Others
    PROVE  /\ KeepsWords
           /\ \/ KeepsStanding /\ me' = me
              \/ \E id \in DOMAIN rows :
                   /\ me' = Stirred(id)
                   /\ \A i \in DOMAIN rows :
                        i # id => rows'[i].active = rows[i].active /\ latest'[i] = latest[i]
<1>1. ASSUME NEW id \in DOMAIN rows, UNCHANGED rows, Decide(id)
      PROVE  /\ \A i \in DOMAIN rows : i # id => latest'[i] = latest[i]
             /\ me' = Stirred(id) \/ (me' = me /\ \A i \in DOMAIN rows :
                   (latest'[i] = "suppress" <=> latest[i] = "suppress"))
    <2>1. latest \in Seq(Decision) /\ DOMAIN latest = DOMAIN rows
        BY TypeSplit DEF StoreType
    <2>2. latest' = [latest EXCEPT ![id] = Verdict(id)]
        BY <1>1 DEF Decide
    <2>3. \A i \in DOMAIN rows : latest'[i] = IF i = id THEN Verdict(id) ELSE latest[i]
        BY <2>1, <2>2
    <2>4. (Verdict(id) = "suppress") \in BOOLEAN /\ (id \in HeldBack <=> latest[id] = "suppress")
        BY DEF HeldBack
    <2> QED
        BY <1>1, <2>3, <2>4 DEF Decide
<1>2. ASSUME NEW id \in Ids, (\E s \in Sessions : HookScores(id, s)) \/ ScoreVerb(id)
      PROVE  id \in DOMAIN rows /\ UNCHANGED rows /\ Decide(id) /\ KeepsWords
    BY <1>2 DEF HookScores, ScoreVerb, KeepsWords
<1>3. ASSUME NEW k, RateNoise(k)
      PROVE  KeepsWords /\ KeepsStanding /\ me' = me
    BY <1>3, SameRowsKeep DEF RateNoise
<1>4. ASSUME NEW id \in Ids, Retire(id)
      PROVE  /\ KeepsWords /\ id \in DOMAIN rows /\ me' = Stirred(id)
             /\ \A i \in DOMAIN rows : i # id => rows'[i].active = rows[i].active /\ latest'[i] = latest[i]
    <2> DEFINE row == [rows[id] EXCEPT !.active = FALSE]
    <2>1. id \in DOMAIN rows /\ rows' = [rows EXCEPT ![id] = row] /\ latest' = latest /\ me' = Stirred(id)
        BY <1>4 DEF Retire
    <2>2. row \in Row /\ row.words = rows[id].words /\ row.lesson = rows[id].lesson /\ row.born = rows[id].born
        BY <2>1, RowFacts DEF Row
    <2> HIDE DEF row
    <2>3. KeepsWords
        BY <2>1, <2>2, UpdateKeeps
    <2>4. \A i \in DOMAIN rows : i # id => rows'[i] = rows[i]
        BY <2>1, <2>2, UpdateTyped
    <2> QED
        BY <2>1, <2>3, <2>4
<1>5. CASE \E id \in Ids : (\E s \in Sessions : HookScores(id, s)) \/ ScoreVerb(id)
    <2>1. PICK id \in Ids : (\E s \in Sessions : HookScores(id, s)) \/ ScoreVerb(id)
        BY <1>5
    <2>2. id \in DOMAIN rows /\ UNCHANGED rows /\ Decide(id) /\ KeepsWords
        BY <1>2, <2>1
    <2> QED
        BY <1>1, <2>2 DEF KeepsStanding
<1> QED
    BY <1>3, <1>4, <1>5 DEF Others

-----------------------------------------------------------------------------
(* Merges *)

MergesOverlap ==
    \A c, d \in Clients :
        c # d /\ me[c].pc = "merge" /\ me[d].pc = "merge" /\ me[c].id = me[d].id
        => me[c].id \in crossed

\* What a merge has read is what it is about to overwrite.
SeenIsCurrent ==
    \A c \in Clients : me[c].pc = "merge" /\ me[c].id \notin crossed =>
        rows[me[c].id].words \subseteq me[c].seen

MergeInv == TypeOK /\ MergesOverlap /\ SeenIsCurrent /\ MergesKept

\* A step that neither begins nor ends a merge.
SameMergers ==
    /\ \A d \in Clients : me'[d].pc = "merge" =>
          me'[d].pc = me[d].pc /\ me'[d].id = me[d].id /\ me'[d].seen = me[d].seen
    /\ merged' = merged
    /\ crossed \subseteq crossed'

LEMMA CommandsKeepMergers ==
    ASSUME TypeOK, NEW c \in Clients, Commands(c)
    PROVE  SameMergers \/ \E i \in Ids, m \in Lessons, w \in SUBSET Details : StartMerge(c, i, m, w)
<1> USE DEF SameMergers
<1>1. me \in [Clients -> Client]
    BY DEF TypeOK
<1>2. ASSUME NEW st, Begin(c, st), st.pc # "merge", crossed \subseteq crossed'
      PROVE  SameMergers
    BY <1>1, <1>2 DEF Begin
<1>3. ASSUME NEW m \in Lessons, NEW w \in SUBSET Details, ResolveNew(c, m, w)
      PROVE  SameMergers
    BY <1>3 DEF ResolveNew, history
<1>4. ASSUME NEW m \in Lessons, NEW w \in SUBSET Details, NEW f \in BOOLEAN, StartAdd(c, m, w, f)
      PROVE  SameMergers
    BY <1>2, <1>4 DEF StartAdd, Idle
<1>5. ASSUME NEW s \in Sessions, StartEvaluate(c, s)
      PROVE  SameMergers
    BY <1>2, <1>5 DEF StartEvaluate, Idle
<1>6. ASSUME NEW i \in Ids, StartRevive(c, i)
      PROVE  SameMergers
    BY <1>1, <1>6 DEF StartRevive, Idle, history
<1>7. ASSUME NEW i \in Ids, NEW on \in BOOLEAN, SetSignature(c, i, on)
      PROVE  SameMergers
    BY <1>7 DEF SetSignature, history
<1>8. ASSUME StartAdopt(c)
      PROVE  SameMergers
    BY <1>2, <1>8 DEF StartAdopt, Idle
<1> QED
    BY <1>3, <1>4, <1>5, <1>6, <1>7, <1>8 DEF Commands

LEMMA StepsKeepMergers ==
    ASSUME TypeOK, NEW c \in Clients, Steps(c)
    PROVE  SameMergers \/ Merge(c)
<1> USE DEF SameMergers, history
<1>1. me \in [Clients -> Client]
    BY DEF TypeOK
<1>2. ASSUME Done(c), merged' = merged, crossed' = crossed
      PROVE  SameMergers
    BY <1>1, <1>2 DEF Done, Idle
<1>3. ASSUME NEW step, Goto(c, step), step # "merge", merged' = merged, crossed' = crossed
      PROVE  SameMergers
    BY <1>1, <1>3 DEF Goto, Client
<1>4. CASE ReadDecisions(c)
    BY <1>1, <1>4 DEF ReadDecisions, Client
<1>5. CASE Resurrection(c) \/ Duplicate(c)
    <2>1. Done(c) \/ Goto(c, "insert") \/ Goto(c, "gate 2")
        BY <1>5 DEF Resurrection, Duplicate
    <2>2. merged' = merged /\ crossed' = crossed
        BY <1>5 DEF Resurrection, Duplicate
    <2> QED
        BY <1>2, <1>3, <2>1, <2>2
<1>6. CASE Insert(c) \/ RateHelpful(c) \/ Kill(c)
    BY <1>2, <1>6 DEF Insert, RateHelpful, Kill
<1>7. CASE AdoptBlock(c)
    <2>1. Done(c) \/ (me[c].pc = "adopt" /\ me' = [me EXCEPT ![c].block = me[c].block + 1])
        BY <1>7 DEF AdoptBlock, At
    <2>2. merged' = merged /\ crossed' = crossed
        BY <1>7 DEF AdoptBlock
    <2> QED
        BY <1>1, <1>2, <2>1, <2>2 DEF Client
<1>8. CASE ReadRows(c)
    BY <1>1, <1>8 DEF ReadRows, Client
<1>9. CASE Check(c)
    <2>1. merged' = merged /\ crossed' = crossed
        BY <1>9 DEF Check
    <2>2. CASE Done(c)
        BY <1>2, <2>1, <2>2
    <2>3. CASE \E id : me' = [me EXCEPT ![c].pc = "log", ![c].id = id] \/ me' = [me EXCEPT ![c].left = @ \ {id}]
        BY <1>1, <1>9, <2>1, <2>3 DEF Check, At, Client
    <2> QED
        BY <1>9, <2>2, <2>3 DEF Check
<1>10. CASE LogViolation(c)
    BY <1>1, <1>10 DEF LogViolation, Client
<1>11. CASE NewestFiring(c)
    BY <1>1, <1>11 DEF NewestFiring, Client
<1> QED
    BY <1>4, <1>5, <1>6, <1>7, <1>8, <1>9, <1>10, <1>11 DEF Steps

LEMMA OthersKeepMergers == ASSUME TypeOK, Others PROVE SameMergers
<1> USE DEF SameMergers, history
<1>1. ASSUME NEW id, me' = Stirred(id) \/ me' = me, merged' = merged, crossed' = crossed
      PROVE  SameMergers
    BY <1>1, StirredFacts DEF TypeOK
<1> QED
    BY <1>1 DEF Others, HookScores, ScoreVerb, Decide, RateNoise, Retire

LEMMA MergeStep == ASSUME MergeInv, [Next]_vars PROVE MergeInv'
<1> USE DEF MergeInv
<1>1. TypeOK'
    BY TypeStep
<1>2. /\ me \in [Clients -> Client] /\ merged \subseteq (DOMAIN rows) \X Wordings
      /\ \A c \in Clients : me[c].pc = "merge" => me[c].id \in DOMAIN rows
    BY DEF TypeOK
<1>3. ASSUME KeepsWords, merged' = merged, crossed \subseteq crossed'
      PROVE  MergesKept'
    <2>1. \A m \in merged : m[1] \in DOMAIN rows /\ m \in (DOMAIN rows) \X Wordings
        BY <1>2
    <2> QED
        BY <1>3, <2>1 DEF MergesKept, KeepsWords
<1>4. CASE SameMergers /\ KeepsWords
    <2>1. MergesOverlap'
        BY <1>4 DEF SameMergers, MergesOverlap
    <2>2. SeenIsCurrent'
        BY <1>2, <1>4 DEF SameMergers, SeenIsCurrent, KeepsWords
    <2> QED
        BY <1>1, <1>3, <1>4, <2>1, <2>2 DEF SameMergers
<1>5. CASE UNCHANGED vars
    <2>1. SameMergers /\ UNCHANGED <<rows, latest>>
        BY <1>5 DEF SameMergers, vars
    <2> QED
        BY <1>4, <2>1, SameRowsKeep
<1>6. ASSUME NEW c \in Clients, NEW id \in Ids, NEW m \in Lessons, NEW w \in SUBSET Details,
             StartMerge(c, id, m, w)
      PROVE  MergeInv'
    <2> DEFINE st == [Idle EXCEPT !.pc = "merge", !.lesson = m, !.words = w, !.id = id,
                                  !.seen = rows[id].words]
    <2>1. /\ me' = [me EXCEPT ![c] = st] /\ UNCHANGED <<rows, latest, merged>>
          /\ st.pc = "merge" /\ st.id = id /\ st.seen = rows[id].words
        BY <1>6 DEF StartMerge, Begin, Idle, store
    <2> HIDE DEF st
    <2>2. crossed' = crossed \cup {id : d \in {d \in Clients : me[d].pc = "merge" /\ me[d].id = id}}
        BY <1>6 DEF StartMerge, At
    <2>3. crossed \subseteq crossed' /\ \A d \in Clients : me[d].pc = "merge" /\ me[d].id = id => id \in crossed'
        BY <2>2
    <2>4. \A d \in Clients : me'[d] = IF d = c THEN st ELSE me[d]
        BY <1>2, <2>1
    <2>5. MergesOverlap'
        BY <2>1, <2>3, <2>4 DEF MergesOverlap
    <2>6. SeenIsCurrent'
        BY <2>1, <2>3, <2>4 DEF SeenIsCurrent
    <2> QED
        BY <1>1, <1>3, <2>1, <2>3, <2>5, <2>6, SameRowsKeep
<1>7. ASSUME NEW c \in Clients, Merge(c)
      PROVE  MergeInv'
    <2> DEFINE id == me[c].id
               words == me[c].seen \cup Text(me[c])
               row == [rows[id] EXCEPT !.words = words]
    <2>1. /\ me[c].pc = "merge" /\ id \in DOMAIN rows /\ rows' = [rows EXCEPT ![id] = row]
          /\ merged' = merged \cup {<<id, w>> : w \in Text(me[c])} /\ crossed' = crossed
        BY <1>2, <1>7 DEF Merge, Merged, At
    <2>2. row.words = words /\ row.born = rows[id].born /\ rows[id] \in Row
        BY <2>1, RowFacts DEF Row
    <2>3. /\ me'[c].pc = "idle"
          /\ \A d \in Clients : d # c =>
               me'[d].pc = me[d].pc /\ me'[d].id = me[d].id /\ me'[d].seen = me[d].seen
        <3>1. me' = [Stirred(id) EXCEPT ![c] = Idle] /\ Stirred(id) = [d \in Clients |-> Stirred(id)[d]]
            BY <1>7 DEF Merge, Stirred
        <3>2. \A d \in Clients : me'[d] = IF d = c THEN Idle ELSE Stirred(id)[d]
            BY <3>1
        <3> QED
            BY <1>2, <3>2, StirredFacts DEF Idle
    <2>4. rows \in Seq(Row) /\ DOMAIN rows' = DOMAIN rows
        BY <2>1 DEF TypeOK
    <2> HIDE DEF row
    <2>5. \A i \in DOMAIN rows : rows'[i] = IF i = id THEN row ELSE rows[i]
        BY <2>1, <2>4
    <2>6. MergesOverlap'
        BY <2>1, <2>3 DEF MergesOverlap
    <2>7. SeenIsCurrent'
        <3> SUFFICES ASSUME NEW d \in Clients, me'[d].pc = "merge", me'[d].id \notin crossed
                     PROVE  rows'[me'[d].id].words \subseteq me'[d].seen
            BY <2>1 DEF SeenIsCurrent
        <3>1. d # c /\ me'[d].pc = me[d].pc /\ me'[d].id = me[d].id /\ me'[d].seen = me[d].seen
            BY <2>3
        <3>2. me[d].id # id
            BY <2>1, <3>1 DEF MergesOverlap
        <3> QED
            BY <1>2, <2>5, <3>1, <3>2 DEF SeenIsCurrent
    <2>8. MergesKept'
        <3>1. ASSUME NEW m \in merged', m[1] \notin crossed
              PROVE  m[2] \in rows'[m[1]].words
            <4>1. CASE \E w \in Text(me[c]) : m = <<id, w>>
                BY <2>1, <2>2, <2>5, <4>1
            <4>2. CASE m \in merged
                <5>1. m[2] \in rows[m[1]].words /\ m[1] \in DOMAIN rows
                    BY <1>2, <3>1, <4>2 DEF MergesKept
                <5>2. m[1] = id => m[2] \in words
                    BY <2>1, <3>1, <5>1 DEF SeenIsCurrent
                <5> QED
                    BY <2>2, <2>5, <5>1, <5>2
            <4> QED
                BY <2>1, <3>1, <4>1, <4>2
        <3>2. ASSUME NEW i \in DOMAIN rows, i \notin crossed
              PROVE  rows'[i].born \subseteq rows'[i].words
            <4>1. rows[i].born \subseteq rows[i].words
                BY <3>2 DEF MergesKept
            <4>2. i = id => rows[i].born \subseteq words
                BY <2>1, <3>2, <4>1 DEF SeenIsCurrent
            <4> QED
                BY <2>2, <2>5, <4>1, <4>2
        <3> QED
            BY <2>1, <2>4, <3>1, <3>2 DEF MergesKept
    <2> QED
        BY <1>1, <2>6, <2>7, <2>8
<1> QED
    BY <1>4, <1>5, <1>6, <1>7, WhoActs, CommandsKeepMergers, CommandsKeepRows,
       StepsKeepMergers, StepsKeepRows, OthersKeepMergers, OthersKeepRows

\* No wording is lost in a row into which no two merges have ever overlapped: whatever
\* add and retire, rate and revive do at the same time, it keeps the content it was born
\* with and every wording a merge reported.  Of a row into which two merges have
\* overlapped nothing is promised (merge_resurrection reads, appends and writes back).
THEOREM WordingsKept == Spec => []MergesKept
<1>1. Init => MergeInv
    <2> SUFFICES ASSUME Init
                 PROVE  MergeInv
        OBVIOUS
    <2>1. \A c \in Clients : me[c].pc = "idle"
        BY DEF Init, Idle
    <2>2. \A i \in DOMAIN rows : rows[i].born \subseteq rows[i].words
        BY CurationAssumption DEF Init
    <2> QED
        BY TypeInit, <2>1, <2>2 DEF Init, MergeInv, MergesOverlap, SeenIsCurrent, MergesKept
<1>2. MergeInv /\ [Next]_vars => MergeInv'
    BY MergeStep
<1>3. MergeInv => MergesKept
    BY DEF MergeInv
<1> QED
    BY <1>1, <1>2, <1>3, PTL DEF Spec

-----------------------------------------------------------------------------
(* Twins *)

\* How the gate in charge of row i compares it with what c adds.
Like(c, i) ==
    IF latest[i] = "suppress" THEN <<Text(me[c]), Text(rows[i])>> \in SameText
    ELSE <<me[c].lesson, rows[i].lesson>> \in SameLine

\* What an author about to add knows of a row that was a twin when add first read the
\* decisions, and has stayed in its half since.
TwinKnown(c, i) ==
    /\ me[c].pc \in Reading => rows[i].active /\ Like(c, i)
    /\ me[c].pc \in {"resurrection", "duplicate"} =>
          (i \in me[c].suppressed <=> latest[i] = "suppress")
    /\ me[c].pc \in {"gate 2", "duplicate"} => latest[i] # "suppress"
    /\ me[c].pc = "insert" => me[c].forced

TwinInv ==
    /\ TypeOK
    /\ \A c \in Clients : me[c].pc \in Adding =>
         \A i \in me[c].twins \ me[c].stirred : TwinKnown(c, i)

\* A step after which a client at the gates knows what it knew.
SameAdder(d) ==
    me'[d].pc \in Adding =>
        /\ me'[d].pc = me[d].pc /\ me'[d].lesson = me[d].lesson /\ me'[d].forced = me[d].forced
        /\ me'[d].words = me[d].words
        /\ me'[d].suppressed = me[d].suppressed /\ me'[d].twins = me[d].twins
        /\ me[d].stirred \subseteq me'[d].stirred

SameAdders == \A d \in Clients : SameAdder(d)

LEMMA CommandsKeepAdders ==
    ASSUME TypeOK, NEW c \in Clients, Commands(c)
    PROVE  SameAdders \/ \E m \in Lessons, w \in SUBSET Details, f \in BOOLEAN : StartAdd(c, m, w, f)
<1> USE DEF SameAdders, SameAdder, Adding
<1>1. me \in [Clients -> Client]
    BY DEF TypeOK
<1>2. ASSUME NEW st, Begin(c, st), st.pc \notin Adding
      PROVE  SameAdders
    BY <1>1, <1>2 DEF Begin
<1>3. ASSUME NEW m \in Lessons, NEW w \in SUBSET Details, ResolveNew(c, m, w)
      PROVE  SameAdders
    BY <1>3 DEF ResolveNew
<1>4. ASSUME NEW i \in Ids, NEW m \in Lessons, NEW w \in SUBSET Details, StartMerge(c, i, m, w)
      PROVE  SameAdders
    BY <1>2, <1>4 DEF StartMerge, Idle
<1>5. ASSUME NEW s \in Sessions, StartEvaluate(c, s)
      PROVE  SameAdders
    BY <1>2, <1>5 DEF StartEvaluate, Idle
<1>6. ASSUME NEW i \in Ids, StartRevive(c, i)
      PROVE  SameAdders
    BY <1>1, <1>6 DEF StartRevive, Idle
<1>7. ASSUME NEW i \in Ids, NEW on \in BOOLEAN, SetSignature(c, i, on)
      PROVE  SameAdders
    BY <1>7 DEF SetSignature
<1>8. ASSUME StartAdopt(c)
      PROVE  SameAdders
    BY <1>2, <1>8 DEF StartAdopt, Idle
<1> QED
    BY <1>3, <1>4, <1>5, <1>6, <1>7, <1>8 DEF Commands

LEMMA StepsKeepAdders ==
    ASSUME TypeOK, NEW c \in Clients, Steps(c)
    PROVE  SameAdders \/ ReadDecisions(c) \/ Resurrection(c) \/ Duplicate(c)
<1>1. me \in [Clients -> Client]
    BY DEF TypeOK
<1>2. ASSUME Done(c)
      PROVE  SameAdders
    BY <1>1, <1>2 DEF Done, Idle, SameAdders, SameAdder, Adding
<1>5. ASSUME me'[c].pc \notin Adding, \A d \in Clients : d # c => me'[d] = me[d]
      PROVE  SameAdders
    BY <1>5 DEF SameAdders, SameAdder
<1>3. CASE Insert(c) \/ RateHelpful(c) \/ Kill(c)
    BY <1>2, <1>3 DEF Insert, RateHelpful, Kill
<1>9. CASE Merge(c)
    <2>1. me' = [Stirred(me[c].id) EXCEPT ![c] = Idle]
        BY <1>9 DEF Merge
    <2> QED
        BY <1>1, <2>1 DEF Stirred, Idle, Client, SameAdders, SameAdder, Adding
<1>10. CASE NewestFiring(c)
    <2>1. me'[c].pc = "rate" /\ \A d \in Clients : d # c => me'[d] = me[d]
        BY <1>1, <1>10 DEF NewestFiring, Client
    <2> QED
        BY <1>5, <2>1 DEF Adding
<1>4. CASE AdoptBlock(c)
    <2>1. Done(c) \/ (me[c].pc = "adopt" /\ me' = [me EXCEPT ![c].block = me[c].block + 1])
        BY <1>4 DEF AdoptBlock, At
    <2> QED
        BY <1>1, <1>2, <2>1 DEF Client, SameAdders, SameAdder, Adding
<1>6. CASE ReadRows(c)
    <2>1. me'[c].pc = "check" /\ \A d \in Clients : d # c => me'[d] = me[d]
        BY <1>1, <1>6 DEF ReadRows, Client
    <2> QED
        BY <1>5, <2>1 DEF Adding
<1>7. CASE Check(c)
    <2>1. me[c].pc = "check" /\ \A d \in Clients : d # c => me'[d] = me[d]
        BY <1>1, <1>7 DEF Check, At, Done
    <2>2. me'[c].pc = "idle" \/ me'[c].pc = "check" \/ me'[c].pc = "log"
        BY <1>1, <1>7, <2>1 DEF Check, Done, Idle, Client
    <2> QED
        BY <1>5, <2>1, <2>2 DEF Adding
<1>8. CASE LogViolation(c)
    BY <1>1, <1>8 DEF LogViolation, Client, SameAdders, SameAdder, Adding
<1> QED
    BY <1>3, <1>4, <1>6, <1>7, <1>8, <1>9, <1>10 DEF Steps

LEMMA StirKeepsAdders ==
    ASSUME TypeOK, NEW id, me' = Stirred(id)
    PROVE  /\ SameAdders
           /\ \A d \in Clients : me[d].pc \in Reading /\ id \in me[d].twins => id \in me'[d].stirred
<1>1. me \in [Clients -> Client]
    BY DEF TypeOK
<1> QED
    BY <1>1 DEF Stirred, SameAdders, SameAdder, Client, Adding

\* What the gates compare of a row.
RowStays(i) ==
    /\ rows'[i].active = rows[i].active
    /\ rows'[i].lesson = rows[i].lesson /\ rows'[i].words = rows[i].words
    /\ latest'[i] = "suppress" <=> latest[i] = "suppress"

LEMMA TwinStep == ASSUME TwinInv, [Next]_vars PROVE TwinInv'
<1> USE DEF TwinInv
<1>1. TypeOK'
    BY TypeStep
<1>2. /\ me \in [Clients -> Client]
      /\ \A c \in Clients : me[c].twins \subseteq DOMAIN rows
    BY DEF TypeOK
<1>3. ASSUME NEW d \in Clients, SameAdder(d), me'[d].pc \in Adding, NEW i \in me'[d].twins \ me'[d].stirred,
             me[d].pc \in Reading => RowStays(i)
      PROVE  TwinKnown(d, i)'
    <2>1. TwinKnown(d, i)
        BY <1>3 DEF SameAdder
    <2>2. me'[d].pc = me[d].pc /\ me'[d].lesson = me[d].lesson /\ me'[d].words = me[d].words
          /\ me'[d].suppressed = me[d].suppressed /\ me'[d].forced = me[d].forced
        BY <1>3 DEF SameAdder
    <2>3. me[d].pc \in Reading => (Like(d, i)' <=> Like(d, i))
        BY <1>3, <2>2 DEF Like, RowStays, Text
    <2> QED
        BY <1>3, <2>1, <2>2, <2>3 DEF TwinKnown, RowStays, Reading
<1>5. ASSUME SameAdders, KeepsStanding, KeepsWords
      PROVE  TwinInv'
    <2> SUFFICES ASSUME NEW d \in Clients, me'[d].pc \in Adding, NEW i \in me'[d].twins \ me'[d].stirred
                 PROVE  TwinKnown(d, i)'
        BY <1>1
    <2>1. SameAdder(d) /\ i \in DOMAIN rows
        BY <1>2, <1>5 DEF SameAdders, SameAdder
    <2> QED
        BY <1>3, <1>5, <2>1 DEF KeepsStanding, KeepsWords, RowStays
<1>6. CASE UNCHANGED vars
    <2>1. SameAdders /\ UNCHANGED <<rows, latest>>
        BY <1>6 DEF SameAdders, SameAdder, vars
    <2> QED
        BY <1>5, <2>1, SameRowsKeep
<1>7. ASSUME NEW id \in DOMAIN rows, SameAdders,
             \A d \in Clients : me[d].pc \in Reading /\ me'[d].pc \in Adding /\ id \in me[d].twins
                                   => id \in me'[d].stirred,
             \A i \in DOMAIN rows : i # id => RowStays(i)
      PROVE  TwinInv'
    <2> SUFFICES ASSUME NEW d \in Clients, me'[d].pc \in Adding, NEW i \in me'[d].twins \ me'[d].stirred
                 PROVE  TwinKnown(d, i)'
        BY <1>1
    <2>1. SameAdder(d) /\ i \in DOMAIN rows /\ i \in me[d].twins
        BY <1>2, <1>7 DEF SameAdders, SameAdder
    <2>2. me[d].pc \in Reading => i # id
        BY <1>7, <2>1
    <2> QED
        BY <1>3, <1>7, <2>1, <2>2
<1>8. ASSUME NEW c \in Clients, NEW st, me' = [me EXCEPT ![c] = st], UNCHANGED <<rows, latest>>,
             ASSUME st.pc \in Adding, NEW i \in st.twins \ st.stirred
             PROVE  /\ st.pc \in Reading =>
                          /\ rows[i].active
                          /\ IF latest[i] = "suppress" THEN <<Text(st), Text(rows[i])>> \in SameText
                             ELSE <<st.lesson, rows[i].lesson>> \in SameLine
                    /\ st.pc \in {"resurrection", "duplicate"} =>
                          (i \in st.suppressed <=> latest[i] = "suppress")
                    /\ st.pc \in {"gate 2", "duplicate"} => latest[i] # "suppress"
                    /\ st.pc = "insert" => st.forced
      PROVE  TwinInv'
    <2> SUFFICES ASSUME NEW d \in Clients, me'[d].pc \in Adding, NEW i \in me'[d].twins \ me'[d].stirred
                 PROVE  TwinKnown(d, i)'
        BY <1>1
    <2>1. CASE d = c
        <3>1. me'[d] = st
            BY <1>2, <1>8, <2>1
        <3> QED
            BY <1>8, <3>1 DEF TwinKnown, Like
    <2>2. CASE d # c
        <3>1. me'[d] = me[d]
            BY <1>2, <1>8, <2>2
        <3> QED
            BY <1>3, <1>8, <3>1 DEF SameAdder, RowStays
    <2> QED
        BY <2>1, <2>2
<1>9. ASSUME NEW c \in Clients, NEW m \in Lessons, NEW w \in SUBSET Details, NEW f \in BOOLEAN,
             StartAdd(c, m, w, f)
      PROVE  TwinInv'
    <2> DEFINE st == [Idle EXCEPT !.pc = "gate 1", !.lesson = m, !.words = w, !.forced = f]
    <2>1. me' = [me EXCEPT ![c] = st] /\ UNCHANGED <<rows, latest>>
        BY <1>9 DEF StartAdd, Begin, store
    <2>2. st.pc = "gate 1" /\ st.twins = {}
        BY DEF Idle
    <2> HIDE DEF st
    <2> QED
        BY <1>8, <2>1, <2>2
<1>10. ASSUME NEW c \in Clients, ReadDecisions(c)
       PROVE  TwinInv'
    <2>1. UNCHANGED <<rows, latest>> /\ me[c] \in Client
        BY <1>2, <1>10 DEF ReadDecisions, store
    <2>2. CASE me[c].pc = "gate 1"
        <3> DEFINE st == [me[c] EXCEPT !.pc = "resurrection", !.suppressed = HeldBack, !.twins = Twins(c)]
        <3>1. me' = [me EXCEPT ![c] = st]
            BY <1>10, <2>2 DEF ReadDecisions, At
        <3>2. /\ st.pc = "resurrection" /\ st.suppressed = HeldBack /\ st.twins = Twins(c)
              /\ st.lesson = me[c].lesson /\ st.words = me[c].words
            BY <2>1 DEF Client
        <3>3. Text(st) = Text(me[c])
            BY <3>2 DEF Text
        <3>4. \A i \in Twins(c) :
                /\ i \in DOMAIN rows /\ rows[i].active
                /\ i \in HeldBack <=> latest[i] = "suppress"
                /\ IF i \in HeldBack THEN <<Text(me[c]), Text(rows[i])>> \in SameText
                   ELSE <<me[c].lesson, rows[i].lesson>> \in SameLine
            BY DEF Twins, HeldBack
        <3> HIDE DEF st
        <3> QED
            BY <1>8, <2>1, <3>1, <3>2, <3>3, <3>4
    <2>3. CASE me[c].pc = "gate 2"
        <3> DEFINE st == [me[c] EXCEPT !.pc = "duplicate", !.suppressed = HeldBack]
        <3>1. me' = [me EXCEPT ![c] = st]
            BY <1>10, <2>3 DEF ReadDecisions, At
        <3>2. /\ st.pc = "duplicate" /\ st.suppressed = HeldBack /\ st.twins = me[c].twins
              /\ st.stirred = me[c].stirred /\ st.lesson = me[c].lesson /\ st.words = me[c].words
            BY <2>1 DEF Client
        <3>3. Text(st) = Text(me[c])
            BY <3>2 DEF Text
        <3>4. \A i \in me[c].twins \ me[c].stirred :
                /\ i \in DOMAIN rows /\ rows[i].active /\ Like(c, i) /\ latest[i] # "suppress"
                /\ i \in HeldBack <=> latest[i] = "suppress"
            BY <1>2, <2>3 DEF TwinKnown, Reading, HeldBack, Adding
        <3> HIDE DEF st
        <3> QED
            BY <1>8, <2>1, <3>1, <3>2, <3>3, <3>4 DEF Like
    <2> QED
        BY <1>10, <2>2, <2>3 DEF ReadDecisions, At
<1>11. ASSUME NEW c \in Clients, Resurrection(c) \/ Duplicate(c)
       PROVE  TwinInv'
    <2>1. UNCHANGED <<rows, latest>> /\ me[c].pc \in {"resurrection", "duplicate"} /\ me[c] \in Client
        BY <1>2, <1>11 DEF Resurrection, Duplicate, At, store
    <2>2. \A i \in me[c].twins \ me[c].stirred :
             TwinKnown(c, i) /\ i \in DOMAIN rows /\ rows[i].active /\ Like(c, i)
        BY <1>2, <2>1 DEF Adding, TwinKnown, Reading
    <2>3. CASE Done(c)
        <3>1. Idle.pc \notin Adding
            BY DEF Idle, Adding
        <3> QED
            BY <1>8, <2>1, <2>3, <3>1 DEF Done
    <2>4. CASE Resurrection(c) /\ ~Done(c)
        <3> DEFINE st == [me[c] EXCEPT !.pc = IF me[c].forced THEN "insert" ELSE "gate 2"]
        <3>1. /\ Resurrectable(c) = {} /\ me[c].pc = "resurrection"
              /\ me' = [me EXCEPT ![c] = st]
            BY <2>4 DEF Resurrection, Goto, At
        <3>2. /\ st.pc = (IF me[c].forced THEN "insert" ELSE "gate 2") /\ st.forced = me[c].forced
              /\ st.twins = me[c].twins /\ st.stirred = me[c].stirred
              /\ st.lesson = me[c].lesson /\ st.words = me[c].words
            BY <2>1 DEF Client
        <3>3. Text(st) = Text(me[c])
            BY <3>2 DEF Text
        <3> HIDE DEF st
        <3>4. ASSUME NEW i \in me[c].twins \ me[c].stirred
              PROVE  latest[i] # "suppress"
            <4>1. SUFFICES ASSUME latest[i] = "suppress" PROVE FALSE
                OBVIOUS
            <4>2. i \in me[c].suppressed
                BY <2>2, <3>1, <4>1 DEF TwinKnown
            <4>3. i \in Resurrectable(c)
                BY <2>2, <4>1, <4>2 DEF Resurrectable, Like
            <4> QED
                BY <3>1, <4>3
        <3> QED
            BY <1>8, <2>1, <2>2, <3>1, <3>2, <3>3, <3>4 DEF Like
    <2>5. CASE Duplicate(c) /\ ~Done(c)
        <3> DEFINE st == [me[c] EXCEPT !.pc = "insert"]
        <3>1. /\ Duplicates(c) = {} /\ me[c].pc = "duplicate"
              /\ me' = [me EXCEPT ![c] = st]
            BY <2>5 DEF Duplicate, Goto, At
        <3>2. st.twins = me[c].twins /\ st.stirred = me[c].stirred
            BY <2>1 DEF Client
        <3> HIDE DEF st
        <3>3. ASSUME NEW i \in me[c].twins \ me[c].stirred
              PROVE  FALSE
            <4>1. latest[i] # "suppress" /\ i \notin me[c].suppressed
                BY <2>2, <3>1 DEF TwinKnown
            <4>2. i \in Duplicates(c)
                BY <2>2, <4>1 DEF Duplicates, Like
            <4> QED
                BY <3>1, <4>2
        <3> QED
            BY <1>8, <2>1, <3>1, <3>2, <3>3
    <2> QED
        BY <1>11, <2>3, <2>4, <2>5
<1>12. ASSUME NEW c \in Clients, Commands(c)
       PROVE  TwinInv'
    BY <1>5, <1>9, <1>12, CommandsKeepAdders, CommandsKeepRows
<1>13. ASSUME NEW c \in Clients, Merge(c), SameAdders, KeepsStanding
       PROVE  TwinInv'
    <2> DEFINE id == me[c].id
    <2>1. rows \in Seq(Row) /\ id \in DOMAIN rows
        BY <1>13 DEF TypeOK, Merge, At
    <2>2. \A i \in DOMAIN rows : i # id => rows'[i] = rows[i]
        BY <1>13, <2>1 DEF Merge
    <2>3. \A i \in DOMAIN rows : i # id => RowStays(i)
        BY <1>13, <2>2 DEF KeepsStanding, RowStays
    <2>4. me' = [Stirred(id) EXCEPT ![c] = Idle] /\ Stirred(id) = [d \in Clients |-> Stirred(id)[d]]
        BY <1>13 DEF Merge, Stirred
    <2>5. \A d \in Clients : me'[d] = IF d = c THEN Idle ELSE Stirred(id)[d]
        BY <2>4
    <2> HIDE DEF id
    <2>6. ASSUME NEW d \in Clients, me[d].pc \in Reading, me'[d].pc \in Adding, id \in me[d].twins
          PROVE  id \in me'[d].stirred
        <3>1. d # c
            <4>1. d = c => me'[d] = Idle
                BY <2>5
            <4> QED
                BY <2>6, <4>1, IdleTyped DEF Adding
        <3>2. me'[d] = Stirred(id)[d]
            BY <2>5, <3>1
        <3> QED
            BY <1>2, <2>6, <3>2, StirredFacts
    <2> QED
        BY <1>7, <1>13, <2>1, <2>3, <2>6
<1>14. ASSUME NEW c \in Clients, Steps(c)
       PROVE  TwinInv'
    BY <1>5, <1>10, <1>11, <1>13, <1>14, StepsKeepAdders, StepsKeepRows
<1>15. CASE Others
    <2>1. CASE KeepsStanding /\ me' = me
        <3>1. SameAdders
            BY <2>1 DEF SameAdders, SameAdder
        <3> QED
            BY <1>5, <1>15, <2>1, <3>1, OthersKeepRows
    <2>2. ASSUME NEW id \in DOMAIN rows, me' = Stirred(id),
                 \A i \in DOMAIN rows :
                     i # id => rows'[i].active = rows[i].active /\ latest'[i] = latest[i]
          PROVE  TwinInv'
        <3>1. \A i \in DOMAIN rows : i # id => RowStays(i)
            BY <1>15, <2>2, OthersKeepRows DEF RowStays, KeepsWords
        <3> QED
            BY <1>7, <2>2, <3>1, StirKeepsAdders
    <2> QED
        BY <1>15, <2>1, <2>2, OthersKeepRows
<1> QED
    BY <1>6, <1>12, <1>14, <1>15, WhoActs

\* The two gates cover for each other, whatever other clients, hooks and people do
\* between their reads: an author who adds without --force was shown every active row
\* that, when add first read the decisions, the gate in charge of it took for the same,
\* by the comparison that gate makes (the text of a row held back, the one-liner of any
\* other).  Excused are the rows that were held back or revived, retired or merged into
\* before the second gate looked.
THEOREM TwinsNoticed == Spec => []NoUnnoticedTwin
<1>1. Init => TwinInv
    <2> SUFFICES ASSUME Init
                 PROVE  TwinInv
        OBVIOUS
    <2>1. \A c \in Clients : me[c].pc \notin Adding
        BY DEF Init, Idle, Adding
    <2> QED
        BY TypeInit, <2>1 DEF TwinInv
<1>2. TwinInv /\ [Next]_vars => TwinInv'
    BY TwinStep
<1>3. TwinInv => NoUnnoticedTwin
    BY DEF TwinInv, TwinKnown, NoUnnoticedTwin, At, Adding
<1> QED
    BY <1>1, <1>2, <1>3, PTL DEF Spec
=============================================================================
