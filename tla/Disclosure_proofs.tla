------------------------- MODULE Disclosure_proofs --------------------------
(* Theorems about Disclosure, for every value of its constants. *)
EXTENDS Disclosure, FiniteSetTheorems, SequenceTheorems, TLAPS

FiringRecord == [row : Rows, session : Sessions, outcome : Outcomes \cup {Unrated}]

\* Concatenation keeps the first sequence and shifts the second behind it.
LEMMA ConcatFacts ==
    ASSUME NEW S, NEW s \in Seq(S), NEW t \in Seq(S)
    PROVE  /\ s \o t \in Seq(S)
           /\ Len(s \o t) = Len(s) + Len(t)
           /\ \A i \in 1..Len(s) : (s \o t)[i] = s[i]
           /\ \A i \in 1..Len(t) : (s \o t)[Len(s) + i] = t[i]
<1>1. Len(s) \in Nat /\ Len(t) \in Nat
    OBVIOUS
<1>2. /\ s \o t \in Seq(S)
      /\ Len(s \o t) = Len(s) + Len(t)
      /\ \A i \in 1..(Len(s) + Len(t)) :
            (s \o t)[i] = IF i <= Len(s) THEN s[i] ELSE t[i - Len(s)]
    BY ConcatProperties
<1>3. \A i \in 1..Len(s) : (s \o t)[i] = s[i]
    <2> TAKE i \in 1..Len(s)
    <2>1. i \in 1..(Len(s) + Len(t)) /\ i <= Len(s)
        BY <1>1
    <2> QED
        BY <1>2, <2>1, Zenon
<1>4. \A i \in 1..Len(t) : (s \o t)[Len(s) + i] = t[i]
    <2> TAKE i \in 1..Len(t)
    <2>1. /\ Len(s) + i \in 1..(Len(s) + Len(t))
          /\ ~(Len(s) + i <= Len(s))
          /\ (Len(s) + i) - Len(s) = i
        BY <1>1
    <2> QED
        BY <1>2, <2>1, Zenon
<1> QED
    BY <1>2, <1>3, <1>4

\* The number of rows a hook is about to fire is a natural number.
LEMMA TodoCount == ASSUME TypeOK, NEW h \in Hooks
                   PROVE  IsFiniteSet(todo[h]) /\ Cardinality(todo[h]) \in Nat
<1>1. todo[h] \subseteq Rows
    BY DEF TypeOK, WorkType
<1>2. IsFiniteSet(todo[h])
    BY <1>1, FS_Subset, DisclosureAssumption
<1> QED
    BY <1>2, FS_CardinalityType

LEMMA InitType == Init => TypeOK
    BY DisclosureAssumption
    DEF Init, TypeOK, StoreType, ControlType, WorkType, BriefType, WorldType, NoLines, NoMarkers, TriggerKinds

\* The batch INSERT appends one unrated firing of the session per chosen row.
LEMMA BatchAppends ==
    ASSUME TypeOK, NEW h \in Hooks, InsertBatch(h)
    PROVE  /\ firings' \in Seq(FiringRecord)
           /\ Len(firings') >= Len(firings)
           /\ Len(firings') = Len(firings) + Cardinality(todo[h])
           /\ \A i \in 1..Len(firings) : firings'[i] = firings[i]
           /\ \A r \in todo[h] : \E i \in DOMAIN firings' :
                 /\ i > Len(firings)
                 /\ firings'[i].session = Owner[h]
                 /\ firings'[i].row = r
           /\ \E order \in Bijection(1..Cardinality(todo[h]), todo[h]) :
                 \A i \in 1..Cardinality(todo[h]) :
                     firings'[Len(firings) + i] = Firing(Owner[h], order[i])
<1> DEFINE n == Cardinality(todo[h])
<1>1. PICK order \in Bijection(1..n, todo[h]) :
        firings' = firings \o [i \in 1..n |-> Firing(Owner[h], order[i])]
    BY DEF InsertBatch
<1>2. n \in Nat
    BY TodoCount
<1>3. /\ order \in [1..n -> todo[h]]
      /\ \A r \in todo[h] : \E i \in 1..n : order[i] = r
    BY <1>1 DEF Bijection, Injection, Surjection
<1> DEFINE batch == [i \in 1..n |-> Firing(Owner[h], order[i])]
<1>4. \A i \in 1..n : batch[i] \in FiringRecord
    BY <1>3, DisclosureAssumption DEF Firing, FiringRecord, TypeOK, WorkType
<1>5. batch \in Seq(FiringRecord) /\ Len(batch) = n
    BY <1>2, <1>4
<1>6. firings \in Seq(FiringRecord)
    BY DEF TypeOK, StoreType, FiringRecord
<1> HIDE DEF batch
<1>7. firings' = firings \o batch
    BY <1>1 DEF batch
<1>8. /\ firings' \in Seq(FiringRecord)
      /\ Len(firings') = Len(firings) + n
      /\ \A i \in 1..Len(firings) : firings'[i] = firings[i]
      /\ \A i \in 1..n : firings'[Len(firings) + i] = batch[i]
    <2>1. /\ firings \o batch \in Seq(FiringRecord)
          /\ Len(firings \o batch) = Len(firings) + Len(batch)
          /\ \A i \in 1..Len(firings) : (firings \o batch)[i] = firings[i]
          /\ \A i \in 1..Len(batch) : (firings \o batch)[Len(firings) + i] = batch[i]
        <3>1. firings \in Seq(FiringRecord) /\ batch \in Seq(FiringRecord)
            BY <1>5, <1>6
        <3> QED
            BY ONLY <3>1, ConcatFacts
    <2>2. Len(batch) = n
        BY <1>5
    <2> QED
        BY <1>7, <2>1, <2>2, Zenon
<1>9. ASSUME NEW r \in todo[h]
      PROVE  \E i \in DOMAIN firings' : /\ i > Len(firings)
                                        /\ firings'[i].session = Owner[h]
                                        /\ firings'[i].row = r
    <2>1. PICK k \in 1..n : order[k] = r
        BY <1>3
    <2>2. firings'[Len(firings) + k] = Firing(Owner[h], r)
        BY <1>8, <2>1 DEF batch
    <2>3. /\ Len(firings) + k \in DOMAIN firings'
          /\ Len(firings) + k > Len(firings)
        BY <1>2, <1>6, <1>8
    <2> QED
        BY <2>2, <2>3 DEF Firing
<1>10. \A i \in 1..n : firings'[Len(firings) + i] = Firing(Owner[h], order[i])
    BY <1>8 DEF batch
<1>11. Len(firings') >= Len(firings)
    BY <1>2, <1>6, <1>8
<1>12. \E o \in Bijection(1..n, todo[h]) :
          \A i \in 1..n : firings'[Len(firings) + i] = Firing(Owner[h], o[i])
    BY <1>1, <1>10
<1> QED
    BY <1>8, <1>9, <1>11, <1>12, Zenon

\* fire() appends one firing of the session.
LEMMA RefireAppends ==
    ASSUME TypeOK, NEW h \in Hooks, NEW r \in Rows, Refire(h, r)
    PROVE  /\ firings' \in Seq(FiringRecord)
           /\ Len(firings') = Len(firings) + 1
           /\ \A i \in 1..Len(firings) : firings'[i] = firings[i]
           /\ firings'[Len(firings')] = Firing(Owner[h], r)
           /\ firings'[Len(firings')].session = Owner[h]
           /\ firings'[Len(firings')].row = r
<1>1. firings \in Seq(FiringRecord)
    BY DEF TypeOK, StoreType, FiringRecord
<1>2. Firing(Owner[h], r) \in FiringRecord
    BY DisclosureAssumption DEF Firing, FiringRecord
<1>3. firings' = Append(firings, Firing(Owner[h], r))
    BY DEF Refire
<1> QED
    BY <1>1, <1>2, <1>3 DEF Firing

\* Every event has at least one flow to serve.
LEMMA FlowsType ==
    \A event \in DOMAIN FlowsOf : /\ FlowsOf[event] \in Seq(TriggerKinds)
                                  /\ FlowsOf[event] # <<>>
<1>1. DOMAIN FlowsOf = {"tool", "prompt", "brief"}
    BY DEF FlowsOf
<1>2. FlowsOf["tool"] = <<"edit_path", "tool_call">>
    BY DEF FlowsOf
<1>3. FlowsOf["prompt"] = <<"on_demand">> /\ FlowsOf["brief"] = <<"session_start">>
    BY DEF FlowsOf
<1>4. \A a, b \in TriggerKinds : /\ <<a, b>> \in Seq(TriggerKinds) /\ <<a, b>> # <<>>
                                 /\ <<a>> \in Seq(TriggerKinds) /\ <<a>> # <<>>
    OBVIOUS
<1> QED
    BY <1>1, <1>2, <1>3, <1>4 DEF TriggerKinds

\* Every step of every hook and every verb keeps the types.
LEMMA StepType == TypeOK /\ [Next]_vars => TypeOK'
<1> SUFFICES ASSUME TypeOK, [Next]_vars
             PROVE  TypeOK'
    OBVIOUS
<1> USE DisclosureAssumption DEF TypeOK
<1>1. ASSUME NEW h \in Hooks, NEW event \in DOMAIN FlowsOf, Begin(h, event)
      PROVE  TypeOK'
    <2>1. StoreType'
        BY <1>1 DEF Begin, StoreType, storeVars
    <2>2. ControlType'
        BY <1>1, FlowsType DEF Begin, ControlType, Goto
    <2>3. WorkType'
        BY <1>1 DEF Begin, WorkType
    <2>4. BriefType'
        BY <1>1 DEF Begin, BriefType, briefVars
    <2>5. WorldType'
        BY <1>1 DEF Begin, WorldType, worldVars
    <2> QED
        BY <2>1, <2>2, <2>3, <2>4, <2>5
<1>2. ASSUME NEW h \in Hooks, Compact(h)
      PROVE  TypeOK'
    <2>1. StoreType'
        BY <1>2 DEF Compact, StoreType, storeVars
    <2>2. ControlType'
        BY <1>2 DEF Compact, ControlType, FlowsOf, Goto, TriggerKinds
    <2>3. WorkType'
        BY <1>2 DEF Compact, WorkType
    <2>4. BriefType'
        BY <1>2 DEF Compact, BriefType, briefVars
    <2>5. WorldType'
        BY <1>2 DEF Compact, WorldType, NoLines
    <2> QED
        BY <2>1, <2>2, <2>3, <2>4, <2>5
<1>3. ASSUME NEW h \in Hooks, Abort(h)
      PROVE  TypeOK'
    <2>1. StoreType'
        BY <1>3 DEF Abort, StoreType, storeVars
    <2>2. ControlType'
        BY <1>3 DEF Abort, ControlType, Reset, Goto
    <2>3. WorkType'
        BY <1>3 DEF Abort, WorkType, Reset, NoLines
    <2>4. BriefType'
        BY <1>3 DEF Abort, BriefType, Reset, NoMarkers
    <2>5. WorldType'
        BY <1>3 DEF Abort, WorldType, worldVars
    <2> QED
        BY <2>1, <2>2, <2>3, <2>4, <2>5
<1>4. ASSUME NEW h \in Hooks, ReadMax(h)
      PROVE  TypeOK'
    <2>1. StoreType'
        BY <1>4 DEF ReadMax, StoreType, storeVars
    <2>2. ControlType'
        BY <1>4 DEF ReadMax, ControlType, workVars, Goto
    <2>3. WorkType'
        BY <1>4 DEF ReadMax, WorkType, workVars
    <2>4. BriefType'
        BY <1>4 DEF ReadMax, BriefType, StoreType
    <2>5. WorldType'
        BY <1>4 DEF ReadMax, WorldType, worldVars
    <2> QED
        BY <2>1, <2>2, <2>3, <2>4, <2>5
<1>5. ASSUME NEW h \in Hooks, LoadMarkers(h)
      PROVE  TypeOK'
    <2>1. StoreType'
        BY <1>5 DEF LoadMarkers, StoreType, storeVars
    <2>2. ControlType'
        BY <1>5 DEF LoadMarkers, ControlType, workVars, Goto
    <2>3. WorkType'
        BY <1>5 DEF LoadMarkers, WorkType, workVars
    <2>4. BriefType'
        BY <1>5 DEF LoadMarkers, BriefType, StoreType, ReadableMarkers, NoMarkers
    <2>5. WorldType'
        BY <1>5 DEF LoadMarkers, WorldType, worldVars
    <2> QED
        BY <2>1, <2>2, <2>3, <2>4, <2>5
<1>6. ASSUME NEW h \in Hooks, WriteMarkers(h)
      PROVE  TypeOK'
    <2>1. StoreType'
        BY <1>6 DEF WriteMarkers, StoreType, storeVars, BriefType
    <2>2. ControlType'
        BY <1>6 DEF WriteMarkers, ControlType, workVars, Goto
    <2>3. WorkType'
        BY <1>6 DEF WriteMarkers, WorkType, workVars
    <2>4. BriefType'
        BY <1>6 DEF WriteMarkers, BriefType, NoMarkers
    <2>5. WorldType'
        BY <1>6 DEF WriteMarkers, WorldType, worldVars
    <2> QED
        BY <2>1, <2>2, <2>3, <2>4, <2>5
<1>7. ASSUME NEW h \in Hooks, MarkerFails(h)
      PROVE  TypeOK'
    <2>1. StoreType'
        BY <1>7 DEF MarkerFails, StoreType, storeVars, NoMarkers
    <2>2. ControlType'
        BY <1>7 DEF MarkerFails, ControlType, workVars, Goto
    <2>3. WorkType'
        BY <1>7 DEF MarkerFails, WorkType, workVars
    <2>4. BriefType'
        BY <1>7 DEF MarkerFails, BriefType, NoMarkers
    <2>5. WorldType'
        BY <1>7 DEF MarkerFails, WorldType, worldVars
    <2> QED
        BY <2>1, <2>2, <2>3, <2>4, <2>5
<1>8. ASSUME NEW h \in Hooks, Match(h)
      PROVE  TypeOK'
    <2>1. StoreType'
        BY <1>8 DEF Match, StoreType, storeVars
    <2>2. ControlType'
        BY <1>8 DEF Match, ControlType, Goto
    <2>3. WorkType'
        BY <1>8 DEF Match, WorkType
    <2>4. BriefType'
        BY <1>8 DEF Match, BriefType, briefVars
    <2>5. WorldType'
        BY <1>8 DEF Match, WorldType, worldVars
    <2> QED
        BY <2>1, <2>2, <2>3, <2>4, <2>5
<1>9. ASSUME NEW h \in Hooks, Dedup(h)
      PROVE  TypeOK'
    <2>1. StoreType'
        BY <1>9 DEF Dedup, StoreType, storeVars
    <2>2. ControlType'
        BY <1>9 DEF Dedup, ControlType, Goto
    <2>3. WorkType'
        BY <1>9 DEF Dedup, WorkType
    <2>4. BriefType'
        BY <1>9 DEF Dedup, BriefType
    <2>5. WorldType'
        BY <1>9 DEF Dedup, WorldType, worldVars
    <2> QED
        BY <2>1, <2>2, <2>3, <2>4, <2>5
<1>22. ASSUME NEW h \in Hooks, ReadFloor(h)
      PROVE  TypeOK'
    <2>1. StoreType'
        BY <1>22 DEF ReadFloor, StoreType, storeVars
    <2>2. ControlType'
        BY <1>22 DEF ReadFloor, ControlType, workVars, Goto
    <2>3. WorkType'
        BY <1>22 DEF ReadFloor, WorkType, workVars
    <2>4. BriefType'
        BY <1>22 DEF ReadFloor, BriefType, StoreType, ReadableMarkers, NoMarkers
    <2>5. WorldType'
        BY <1>22 DEF ReadFloor, WorldType, worldVars
    <2> QED
        BY <2>1, <2>2, <2>3, <2>4, <2>5
<1>10. ASSUME NEW h \in Hooks, Score(h)
      PROVE  TypeOK'
    <2>1. StoreType'
        BY <1>10 DEF Score, StoreType, storeVars
    <2>2. ControlType'
        BY <1>10 DEF Score, ControlType, Goto
    <2>3. WorkType'
        <3>1. \A r \in todo[h] : VerdictOn(r, Owner[h], "hook") \in Verdict
            BY DisclosureAssumption DEF WorkType, VerdictOn, Verdict, Fires, ColdPaused, ColdStart
        <3> QED
            BY <1>10, <3>1 DEF Score, Verdicts, WorkType
    <2>4. BriefType'
        BY <1>10 DEF Score, BriefType, briefVars
    <2>5. WorldType'
        BY <1>10 DEF Score, WorldType, worldVars
    <2> QED
        BY <2>1, <2>2, <2>3, <2>4, <2>5
<1>11. ASSUME NEW h \in Hooks, InsertBatch(h)
      PROVE  TypeOK'
    <2>1. StoreType'
        BY <1>11, BatchAppends DEF InsertBatch, StoreType, FiringRecord
    <2>2. ControlType'
        BY <1>11 DEF InsertBatch, ControlType, Goto, workVars
    <2>3. WorkType'
        BY <1>11 DEF InsertBatch, WorkType, workVars
    <2>4. BriefType'
        BY <1>11 DEF InsertBatch, BriefType, briefVars
    <2>5. WorldType'
        BY <1>11 DEF InsertBatch, WorldType, worldVars
    <2> QED
        BY <2>1, <2>2, <2>3, <2>4, <2>5
<1>12. ASSUME NEW h \in Hooks, EmitBatch(h)
      PROVE  TypeOK'
    <2>1. StoreType'
        BY <1>12 DEF EmitBatch, StoreType, storeVars
    <2>2. ControlType'
        BY <1>12 DEF EmitBatch, ControlType, Goto
    <2>3. WorkType'
        BY <1>12 DEF EmitBatch, WorkType, StoreType
    <2>4. BriefType'
        BY <1>12 DEF EmitBatch, BriefType, briefVars
    <2>5. WorldType'
        BY <1>12, TodoCount DEF EmitBatch, WorldType
    <2> QED
        BY <2>1, <2>2, <2>3, <2>4, <2>5
<1>13. ASSUME NEW h \in Hooks, FallBack(h)
      PROVE  TypeOK'
    <2>1. StoreType'
        BY <1>13 DEF FallBack, StoreType, storeVars
    <2>2. ControlType'
        BY <1>13 DEF FallBack, ControlType, Goto, workVars
    <2>3. WorkType'
        BY <1>13 DEF FallBack, WorkType, workVars
    <2>4. BriefType'
        BY <1>13 DEF FallBack, BriefType, briefVars
    <2>5. WorldType'
        BY <1>13 DEF FallBack, WorldType, worldVars
    <2> QED
        BY <2>1, <2>2, <2>3, <2>4, <2>5
<1>14. ASSUME NEW h \in Hooks, NEW r \in Rows, Refire(h, r)
      PROVE  TypeOK'
    <2>1. StoreType'
        BY <1>14, RefireAppends DEF Refire, StoreType, FiringRecord
    <2>2. ControlType'
        BY <1>14 DEF Refire, ControlType, Goto
    <2>3. WorkType'
        BY <1>14 DEF Refire, WorkType
    <2>4. BriefType'
        BY <1>14 DEF Refire, BriefType, briefVars
    <2>5. WorldType'
        BY <1>14 DEF Refire, WorldType, worldVars
    <2> QED
        BY <2>1, <2>2, <2>3, <2>4, <2>5
<1>15. ASSUME NEW h \in Hooks, EmitRefired(h)
      PROVE  TypeOK'
    <2>1. StoreType'
        BY <1>15 DEF EmitRefired, StoreType, storeVars
    <2>2. ControlType'
        BY <1>15 DEF EmitRefired, ControlType, Goto
    <2>3. WorkType'
        <3>1. Len(firings) \in Nat
            BY DEF StoreType
        <3>2. CASE refired[h] \in Rows
            BY <1>15, <3>1, <3>2 DEF EmitRefired, WorkType
        <3>3. CASE refired[h] = NoRow
            <4>1. lines' = lines
                BY <1>15, <3>3 DEF EmitRefired, WorkType
            <4> QED
                BY <1>15, <4>1 DEF EmitRefired, WorkType
        <3> QED
            BY <3>2, <3>3 DEF WorkType
    <2>4. BriefType'
        BY <1>15 DEF EmitRefired, BriefType, briefVars
    <2>5. WorldType'
        BY <1>15 DEF EmitRefired, WorldType
    <2> QED
        BY <2>1, <2>2, <2>3, <2>4, <2>5
<1>16. ASSUME NEW h \in Hooks, WriteDecisions(h)
      PROVE  TypeOK'
    <2>1. StoreType'
        BY <1>16 DEF WriteDecisions, StoreType, WorkType
    <2>2. ControlType'
        <3>1. flows[h] \in Seq(TriggerKinds) /\ flows[h] # <<>>
            BY <1>16 DEF WriteDecisions, ControlType
        <3>2. /\ Tail(flows[h]) \in Seq(TriggerKinds)
              /\ Len(flows[h]) # 1 => Tail(flows[h]) # <<>>
            <4>1. Len(Tail(flows[h])) = Len(flows[h]) - 1 /\ Tail(flows[h]) \in Seq(TriggerKinds)
                BY <3>1, HeadTailProperties
            <4>2. Len(flows[h]) \in Nat /\ Len(flows[h]) # 0
                BY <3>1
            <4>3. Len(<<>>) = 0
                OBVIOUS
            <4>4. Len(flows[h]) # 1 => Len(Tail(flows[h])) # 0
                BY <4>1, <4>2
            <4> QED
                BY <4>1, <4>3, <4>4, Zenon
        <3> QED
            BY <1>16, <3>2 DEF WriteDecisions, ControlType, Goto
    <2>3. WorkType'
        BY <1>16 DEF WriteDecisions, WorkType
    <2>4. BriefType'
        BY <1>16 DEF WriteDecisions, BriefType, briefVars
    <2>5. WorldType'
        BY <1>16 DEF WriteDecisions, WorldType, worldVars
    <2> QED
        BY <2>1, <2>2, <2>3, <2>4, <2>5
<1>17. ASSUME NEW h \in Hooks, Inject(h)
      PROVE  TypeOK'
    <2>1. StoreType'
        BY <1>17 DEF Inject, StoreType, storeVars
    <2>2. ControlType'
        BY <1>17 DEF Inject, ControlType, Reset, Goto
    <2>3. WorkType'
        BY <1>17 DEF Inject, WorkType, Reset, NoLines
    <2>4. BriefType'
        BY <1>17 DEF Inject, BriefType, Reset, NoMarkers
    <2>5. WorldType'
        BY <1>17 DEF Inject, WorldType, WorkType
    <2> QED
        BY <2>1, <2>2, <2>3, <2>4, <2>5
<1>18. ASSUME NEW i \in DOMAIN firings, NEW outcome \in Outcomes, Rate(i, outcome)
      PROVE  TypeOK'
    <2>1. StoreType'
        <3>1. firings \in Seq(FiringRecord)
            BY DEF StoreType, FiringRecord
        <3>2. [firings[i] EXCEPT !.outcome = outcome] \in FiringRecord
            <4>1. firings[i] \in FiringRecord
                BY <3>1
            <4> QED
                BY <4>1 DEF FiringRecord
        <3>3. firings' \in Seq(FiringRecord)
            BY <1>18, <3>1, <3>2 DEF Rate
        <3> QED
            BY <1>18, <3>3 DEF Rate, StoreType, FiringRecord
    <2>2. ControlType'
        BY <1>18 DEF Rate, ControlType, workVars
    <2>3. WorkType'
        BY <1>18 DEF Rate, WorkType, workVars
    <2>4. BriefType'
        BY <1>18 DEF Rate, BriefType, briefVars
    <2>5. WorldType'
        BY <1>18 DEF Rate, WorldType, worldVars
    <2> QED
        BY <2>1, <2>2, <2>3, <2>4, <2>5
<1>19. ASSUME NEW r \in Rows, Retire(r)
      PROVE  TypeOK'
    <2>1. StoreType'
        BY <1>19 DEF Retire, StoreType
    <2>2. ControlType'
        BY <1>19 DEF Retire, ControlType, workVars
    <2>3. WorkType'
        BY <1>19 DEF Retire, WorkType, workVars
    <2>4. BriefType'
        BY <1>19 DEF Retire, BriefType, briefVars
    <2>5. WorldType'
        BY <1>19 DEF Retire, WorldType, worldVars
    <2> QED
        BY <2>1, <2>2, <2>3, <2>4, <2>5
<1>20. ASSUME NEW r \in Rows, NEW kind \in TriggerKinds, SetTrigger(r, kind)
      PROVE  TypeOK'
    <2>1. StoreType'
        BY <1>20 DEF SetTrigger, StoreType
    <2>2. ControlType'
        BY <1>20 DEF SetTrigger, ControlType, workVars
    <2>3. WorkType'
        BY <1>20 DEF SetTrigger, WorkType, workVars
    <2>4. BriefType'
        BY <1>20 DEF SetTrigger, BriefType, briefVars
    <2>5. WorldType'
        BY <1>20 DEF SetTrigger, WorldType, worldVars
    <2> QED
        BY <2>1, <2>2, <2>3, <2>4, <2>5
<1>23. ASSUME NEW r \in Rows, NEW s \in ScoreSessions, ScoreVerb(r, s)
      PROVE  TypeOK'
    <2>1. StoreType'
        <3>1. VerdictOn(r, s, "score") \in Verdict
            BY DEF VerdictOn, Verdict, Fires, ColdPaused, ColdStart
        <3> QED
            BY <1>23, <3>1 DEF ScoreVerb, StoreType
    <2>2. ControlType'
        BY <1>23 DEF ScoreVerb, ControlType, workVars
    <2>3. WorkType'
        BY <1>23 DEF ScoreVerb, WorkType, workVars
    <2>4. BriefType'
        BY <1>23 DEF ScoreVerb, BriefType, briefVars
    <2>5. WorldType'
        BY <1>23 DEF ScoreVerb, WorldType, worldVars
    <2> QED
        BY <2>1, <2>2, <2>3, <2>4, <2>5
<1>21. CASE UNCHANGED vars
    BY <1>21 DEF vars, storeVars, workVars, briefVars, worldVars,
        StoreType, ControlType, WorkType, BriefType, WorldType
<1> QED
    BY <1>1, <1>2, <1>3, <1>4, <1>5, <1>6, <1>7, <1>8, <1>9, <1>10, <1>11,
       <1>12, <1>13, <1>14, <1>15, <1>16, <1>17, <1>18, <1>19, <1>20, <1>21, <1>22, <1>23
    DEF Next, HookStep, Disclose, BoundReached

\* Type correctness, for any number of sessions, hooks and rows and any faults.
THEOREM TypeCorrect == Spec => []TypeOK
    BY InitType, StepType, PTL DEF Spec

-----------------------------------------------------------------------------
(* Steps seen from outside: who acts, and what a step does to the log *)

HookActs(h) ==
    \/ \E event \in DOMAIN FlowsOf : Begin(h, event)
    \/ Compact(h)
    \/ Abort(h)
    \/ HookStep(h)

\* A step is a hook's, or leaves hooks, markers and contexts alone.
LEMMA WhoActs ==
    ASSUME [Next]_vars
    PROVE  \/ \E h \in Hooks : HookActs(h)
           \/ UNCHANGED <<markers, pc, workVars, briefVars, worldVars>>
    BY DEF Next, HookActs, Rate, Retire, ScoreVerb, SetTrigger, BoundReached, vars,
           storeVars, workVars, briefVars, worldVars

\* A hook's step changes neither another hook nor another session's context.
LEMMA Locality ==
    ASSUME TypeOK, NEW h \in Hooks, HookActs(h)
    PROVE  /\ \A g \in Hooks \ {h} :
                 /\ pc'[g] = pc[g]
                 /\ todo'[g] = todo[g]
                 /\ lines'[g] = lines[g]
                 /\ verdicts'[g] = verdicts[g]
                 /\ refired'[g] = refired[g]
                 /\ floorArg'[g] = floorArg[g]
                 /\ loaded'[g] = loaded[g]
           /\ \A s \in Sessions \ {Owner[h]} : window'[s] = window[s]
<1> USE DEF TypeOK, ControlType, WorkType, BriefType, WorldType
<1>1. CASE \E event \in DOMAIN FlowsOf : Begin(h, event)
    BY <1>1 DEF Begin, Goto, briefVars, worldVars
<1>2. CASE Compact(h)
    BY <1>2 DEF Compact, Goto, briefVars
<1>3. CASE Abort(h)
    BY <1>3 DEF Abort, Reset, Goto, worldVars
<1>4. CASE ReadMax(h)
    BY <1>4 DEF ReadMax, Goto, workVars, worldVars
<1>5. CASE LoadMarkers(h)
    BY <1>5 DEF LoadMarkers, Goto, workVars, worldVars
<1>6. CASE WriteMarkers(h)
    BY <1>6 DEF WriteMarkers, Goto, workVars, worldVars
<1>7. CASE MarkerFails(h)
    BY <1>7 DEF MarkerFails, Goto, workVars, worldVars
<1>8. CASE Match(h)
    BY <1>8 DEF Match, Goto, briefVars, worldVars
<1>9. CASE ReadFloor(h)
    BY <1>9 DEF ReadFloor, Goto, workVars, worldVars
<1>10. CASE Dedup(h)
    BY <1>10 DEF Dedup, Goto, worldVars
<1>11. CASE Score(h)
    BY <1>11 DEF Score, Goto, briefVars, worldVars
<1>12. CASE InsertBatch(h)
    BY <1>12 DEF InsertBatch, Goto, workVars, briefVars, worldVars
<1>13. CASE EmitBatch(h)
    BY <1>13 DEF EmitBatch, Goto, briefVars
<1>14. CASE FallBack(h)
    BY <1>14 DEF FallBack, Goto, workVars, briefVars, worldVars
<1>15. CASE \E r \in Rows : Refire(h, r)
    BY <1>15 DEF Refire, Goto, briefVars, worldVars
<1>16. CASE EmitRefired(h)
    BY <1>16 DEF EmitRefired, Goto, briefVars
<1>17. CASE WriteDecisions(h)
    BY <1>17 DEF WriteDecisions, Goto, briefVars, worldVars
<1>18. CASE Inject(h)
    BY <1>18 DEF Inject, Reset, Goto
<1> QED
    BY <1>1, <1>2, <1>3, <1>4, <1>5, <1>6, <1>7, <1>8, <1>9, <1>10, <1>11,
       <1>12, <1>13, <1>14, <1>15, <1>16, <1>17, <1>18
    DEF HookActs, HookStep, Disclose

\* Only these steps write the log.
LEMMA WhoLogs ==
    ASSUME [Next]_vars
    PROVE  \/ \E h \in Hooks : InsertBatch(h)
           \/ \E h \in Hooks, r \in Rows : Refire(h, r)
           \/ \E k \in DOMAIN firings, outcome \in Outcomes : Rate(k, outcome)
           \/ UNCHANGED firings
    BY DEF Next, HookStep, Disclose, BoundReached, vars, storeVars, Begin, Compact,
           Abort, ReadMax, LoadMarkers, WriteMarkers, MarkerFails, Match, ReadFloor,
           Dedup, Score, EmitBatch, FallBack, EmitRefired, WriteDecisions, Inject,
           Retire, ScoreVerb, SetTrigger

\* The log only grows, and no firing changes its row or its session.
LEMMA LogGrows ==
    ASSUME TypeOK, [Next]_vars
    PROVE  /\ Len(firings) \in Nat
           /\ Len(firings') \in Nat
           /\ Len(firings') >= Len(firings)
           /\ \A i \in 1..Len(firings) : /\ firings'[i].row = firings[i].row
                                         /\ firings'[i].session = firings[i].session
<1>1. TypeOK'
    BY StepType
<1>2. Len(firings) \in Nat /\ Len(firings') \in Nat
    BY <1>1 DEF TypeOK, StoreType
<1>3. ASSUME NEW h \in Hooks, InsertBatch(h)
      PROVE  /\ Len(firings') >= Len(firings)
             /\ \A i \in 1..Len(firings) : firings'[i] = firings[i]
    BY <1>3, BatchAppends
<1>4. ASSUME NEW h \in Hooks, NEW r \in Rows, Refire(h, r)
      PROVE  /\ Len(firings') >= Len(firings)
             /\ \A i \in 1..Len(firings) : firings'[i] = firings[i]
    BY <1>2, <1>4, RefireAppends
<1>5. ASSUME NEW k \in DOMAIN firings, NEW outcome \in Outcomes, Rate(k, outcome)
      PROVE  /\ Len(firings') = Len(firings)
             /\ \A i \in 1..Len(firings) : /\ firings'[i].row = firings[i].row
                                           /\ firings'[i].session = firings[i].session
    <2>1. firings \in Seq(FiringRecord)
        BY DEF TypeOK, StoreType, FiringRecord
    <2>2. firings' = [firings EXCEPT ![k] = [firings[k] EXCEPT !.outcome = outcome]]
        BY <1>5, <2>1 DEF Rate
    <2>3. Len(firings') = Len(firings)
        BY <2>1, <2>2
    <2>4. firings[k] \in FiringRecord
        BY <2>1
    <2>5. /\ [firings[k] EXCEPT !.outcome = outcome].row = firings[k].row
          /\ [firings[k] EXCEPT !.outcome = outcome].session = firings[k].session
        BY <2>4 DEF FiringRecord
    <2> QED
        BY <2>1, <2>2, <2>3, <2>5
<1>6. CASE UNCHANGED firings
    BY <1>2, <1>6
<1> QED
    BY <1>2, <1>3, <1>4, <1>5, <1>6, WhoLogs

\* FiredAfter in the next state, for a floor of this or of the next state.
CountedNext(s, r, floor) ==
    \E i \in DOMAIN firings' :
        i > floor /\ firings'[i].session = s /\ firings'[i].row = r

\* What the log has counted once, it counts for good.
LEMMA FiredMonotone ==
    ASSUME TypeOK, [Next]_vars, NEW s, NEW r, NEW floor, FiredAfter(s, r, floor)
    PROVE  CountedNext(s, r, floor)
<1>1. PICK i \in DOMAIN firings : i > floor /\ firings[i].session = s /\ firings[i].row = r
    BY DEF FiredAfter
<1>2. DOMAIN firings = 1..Len(firings)
    BY DEF TypeOK, StoreType
<1>3. DOMAIN firings' = 1..Len(firings')
    BY StepType DEF TypeOK, StoreType
<1>4. i \in DOMAIN firings'
    BY <1>2, <1>3, LogGrows
<1> QED
    BY <1>1, <1>2, <1>4, LogGrows DEF CountedNext

\* A firing enters the log without a rating, and only a rating changes it.
LEMMA NewAreUnrated ==
    ASSUME TypeOK, [Next]_vars,
           \A i \in DOMAIN firings : firings'[i].outcome = firings[i].outcome
    PROVE  \A i \in DOMAIN firings' \ DOMAIN firings : firings'[i].outcome = Unrated
<1>1. /\ DOMAIN firings = 1..Len(firings) /\ Len(firings) \in Nat
      /\ DOMAIN firings' = 1..Len(firings') /\ Len(firings') \in Nat
    BY StepType DEF TypeOK, StoreType
<1>2. ASSUME NEW h \in Hooks, InsertBatch(h), NEW j \in DOMAIN firings' \ DOMAIN firings
      PROVE  firings'[j].outcome = Unrated
    <2>1. PICK order \in Bijection(1..Cardinality(todo[h]), todo[h]) :
            \A i \in 1..Cardinality(todo[h]) :
                firings'[Len(firings) + i] = Firing(Owner[h], order[i])
        BY <1>2, BatchAppends
    <2>2. Len(firings') = Len(firings) + Cardinality(todo[h]) /\ Cardinality(todo[h]) \in Nat
        BY <1>2, BatchAppends, TodoCount
    <2>3. j - Len(firings) \in 1..Cardinality(todo[h]) /\ j = Len(firings) + (j - Len(firings))
        BY <1>1, <1>2, <2>2
    <2>4. firings'[j] = Firing(Owner[h], order[j - Len(firings)])
        BY <2>1, <2>3
    <2> QED
        BY <2>4 DEF Firing
<1>3. ASSUME NEW h \in Hooks, NEW r \in Rows, Refire(h, r),
             NEW j \in DOMAIN firings' \ DOMAIN firings
      PROVE  firings'[j].outcome = Unrated
    <2>1. firings'[Len(firings')] = Firing(Owner[h], r) /\ Len(firings') = Len(firings) + 1
        BY <1>3, RefireAppends
    <2>2. j = Len(firings')
        BY <1>1, <1>3, <2>1
    <2> QED
        BY <2>1, <2>2 DEF Firing
<1>4. ASSUME NEW k \in DOMAIN firings, NEW outcome \in Outcomes, Rate(k, outcome)
      PROVE  DOMAIN firings' = DOMAIN firings
    BY <1>4 DEF Rate
<1> QED
    BY <1>2, <1>3, <1>4, WhoLogs

-----------------------------------------------------------------------------
(* Decisions follow firings *)

\* Where a hook holds verdicts it has not written yet.
Deciding == {"insert", "readback", "refire", "remax", "decide"}

\* A fire verdict a hook holds is on the log already, or its row is still among
\* those the hook has yet to fire.
VerdictInv(h) ==
    /\ pc[h] = "readback" => \A r \in todo[h] : FiredAfter(Owner[h], r, 0)
    /\ pc[h] = "remax" => FiredAfter(Owner[h], refired[h], 0)
    /\ pc[h] \in Deciding => \A v \in verdicts[h] :
          /\ v.session = Owner[h]
          /\ v.fire => \/ FiredAfter(Owner[h], v.row, 0)
                       \/ v.row \in todo[h] /\ pc[h] # "decide"

DecisionInv ==
    /\ TypeOK
    /\ FireVerdictHasFiring
    /\ \A h \in Hooks : VerdictInv(h)

LEMMA StaysFired ==
    ASSUME TypeOK, [Next]_vars
    PROVE  \A s, r : FiredAfter(s, r, 0) => FiredAfter(s, r, 0)'
    BY FiredMonotone DEF CountedNext, FiredAfter

\* A hook's step keeps what is known of the verdicts it holds.
LEMMA VerdictOwn ==
    ASSUME DecisionInv, [Next]_vars, NEW h \in Hooks, HookActs(h)
    PROVE  VerdictInv(h)'
<1>1. TypeOK /\ VerdictInv(h)
    BY DEF DecisionInv
<1>2. \A s, r : FiredAfter(s, r, 0) => FiredAfter(s, r, 0)'
    BY <1>1, StaysFired
<1>3. pc \in [Hooks -> {"idle", "readmax", "load", "write", "match", "floor", "dedup",
                        "score", "insert", "readback", "refire", "remax", "decide", "print"}]
    BY <1>1 DEF TypeOK, ControlType
<1>4. todo \in [Hooks -> SUBSET Rows] /\ verdicts \in [Hooks -> SUBSET Verdict]
      /\ refired \in [Hooks -> Rows \cup {NoRow}]
    BY <1>1 DEF TypeOK, WorkType
<1> USE DEF Deciding
<1>5. ASSUME pc'[h] \notin Deciding
      PROVE  VerdictInv(h)'
    BY <1>5 DEF VerdictInv
<1>6. ASSUME Score(h)
      PROVE  VerdictInv(h)'
    <2>1. /\ verdicts'[h] = Verdicts(h)
          /\ todo'[h] = {r \in todo[h] : Fires(firings, r)}
          /\ pc'[h] = IF \E r \in todo[h] : Fires(firings, r) THEN "insert" ELSE "decide"
        BY <1>3, <1>4, <1>6 DEF Score, Goto
    <2>2. ASSUME NEW v \in Verdicts(h)
          PROVE  /\ v.session = Owner[h]
                 /\ v.fire => v.row \in todo'[h] /\ pc'[h] # "decide"
        <3>1. PICK r \in todo[h] : v = VerdictOn(r, Owner[h], "hook")
            BY DEF Verdicts
        <3>2. v.session = Owner[h] /\ v.row = r /\ v.fire = Fires(firings, r)
            BY <3>1 DEF VerdictOn
        <3> QED
            BY <2>1, <3>2
    <2> QED
        BY <2>1, <2>2 DEF VerdictInv
<1>7. ASSUME InsertBatch(h)
      PROVE  VerdictInv(h)'
    <2>1. /\ pc[h] = "insert" /\ pc'[h] = "readback"
          /\ UNCHANGED <<todo, verdicts>>
        BY <1>3, <1>7 DEF InsertBatch, Goto, workVars
    <2>2. ASSUME NEW r \in todo[h]
          PROVE  FiredAfter(Owner[h], r, 0)'
        <3>1. PICK i \in DOMAIN firings' : /\ i > Len(firings)
                                          /\ firings'[i].session = Owner[h]
                                          /\ firings'[i].row = r
            BY <1>1, <1>7, BatchAppends
        <3>2. i > 0
            <4>1. TypeOK'
                BY <1>1, StepType
            <4> QED
                BY <4>1 DEF TypeOK, StoreType
        <3> QED
            BY <3>1, <3>2 DEF FiredAfter
    <2> QED
        BY <1>1, <1>2, <2>1, <2>2 DEF VerdictInv
<1>8. ASSUME EmitBatch(h)
      PROVE  VerdictInv(h)'
    <2>1. /\ pc[h] = "readback" /\ pc'[h] = "decide"
          /\ UNCHANGED verdicts
        BY <1>3, <1>8 DEF EmitBatch, Goto
    <2> QED
        BY <1>1, <1>2, <2>1 DEF VerdictInv
<1>9. ASSUME FallBack(h)
      PROVE  VerdictInv(h)'
    <2>1. /\ pc[h] \in {"insert", "readback"} /\ pc'[h] = "refire"
          /\ UNCHANGED <<todo, verdicts>>
        BY <1>3, <1>9 DEF FallBack, Goto, workVars
    <2> QED
        BY <1>1, <1>2, <2>1 DEF VerdictInv
<1>10. ASSUME NEW q \in Rows, Refire(h, q)
       PROVE  VerdictInv(h)'
    <2>1. /\ pc[h] = "refire" /\ pc'[h] = "remax" /\ refired'[h] = q
          /\ UNCHANGED <<todo, verdicts>>
        BY <1>3, <1>4, <1>10 DEF Refire, Goto
    <2>2. FiredAfter(Owner[h], q, 0)'
        <3>1. /\ Len(firings') = Len(firings) + 1
              /\ firings'[Len(firings')].session = Owner[h]
              /\ firings'[Len(firings')].row = q
            BY <1>1, <1>10, RefireAppends
        <3>2. Len(firings') \in DOMAIN firings' /\ Len(firings') > 0
            <4>1. firings \in Seq(FiringRecord) /\ firings' \in Seq(FiringRecord)
                BY <1>1, StepType DEF TypeOK, StoreType, FiringRecord
            <4> QED
                BY <3>1, <4>1
        <3> QED
            BY <3>1, <3>2 DEF FiredAfter
    <2> QED
        BY <1>1, <1>2, <2>1, <2>2 DEF VerdictInv
<1>11. ASSUME EmitRefired(h)
       PROVE  VerdictInv(h)'
    <2>1. /\ pc[h] = "remax"
          /\ todo'[h] = todo[h] \ {refired[h]}
          /\ pc'[h] = IF todo[h] = {refired[h]} THEN "decide" ELSE "refire"
          /\ UNCHANGED verdicts
        BY <1>3, <1>4, <1>11 DEF EmitRefired, Goto
    <2>2. CountedNext(Owner[h], refired[h], 0)
        BY <1>1, <2>1, FiredMonotone DEF VerdictInv
    <2>3. ASSUME NEW v \in verdicts[h]
          PROVE  /\ v.session = Owner[h]
                 /\ v.fire => \/ FiredAfter(Owner[h], v.row, 0)'
                              \/ v.row \in todo'[h] /\ pc'[h] # "decide"
        <3>1. /\ v.session = Owner[h]
              /\ v.fire => FiredAfter(Owner[h], v.row, 0) \/ v.row \in todo[h]
            BY <1>1, <2>1 DEF VerdictInv
        <3>2. CASE v.row = refired[h]
            <4>1. CountedNext(Owner[h], v.row, 0)
                BY <2>2, <3>2
            <4> QED
                BY <3>1, <4>1 DEF CountedNext, FiredAfter
        <3>3. CASE v.row # refired[h]
            BY <1>2, <2>1, <3>1, <3>3
        <3> QED
            BY <3>2, <3>3
    <2> QED
        BY <2>1, <2>3 DEF VerdictInv
<1>12. \/ pc'[h] \notin Deciding
       \/ Score(h) \/ InsertBatch(h) \/ EmitBatch(h) \/ FallBack(h)
       \/ \E q \in Rows : Refire(h, q)
       \/ EmitRefired(h)
    BY <1>3 DEF HookActs, HookStep, Disclose, Begin, Compact, Abort, Reset, ReadMax,
           LoadMarkers, WriteMarkers, MarkerFails, Match, ReadFloor, Dedup,
           WriteDecisions, Inject, Goto
<1> QED
    BY <1>5, <1>6, <1>7, <1>8, <1>9, <1>10, <1>11, <1>12

LEMMA DecisionStep == DecisionInv /\ [Next]_vars => DecisionInv'
<1> SUFFICES ASSUME DecisionInv, [Next]_vars
             PROVE  DecisionInv'
    OBVIOUS
<1>1. TypeOK /\ TypeOK'
    BY StepType DEF DecisionInv
<1>2. \A s, r : FiredAfter(s, r, 0) => FiredAfter(s, r, 0)'
    BY <1>1, StaysFired
<1>3. ASSUME NEW g \in Hooks
      PROVE  VerdictInv(g)'
    <2>1. CASE HookActs(g)
        BY <2>1, VerdictOwn
    <2>2. ASSUME /\ pc'[g] = pc[g] /\ todo'[g] = todo[g]
                 /\ verdicts'[g] = verdicts[g] /\ refired'[g] = refired[g]
          PROVE  VerdictInv(g)'
        BY <1>2, <2>2 DEF DecisionInv, VerdictInv
    <2>3. ASSUME NEW h \in Hooks, HookActs(h), g # h
          PROVE  VerdictInv(g)'
        BY <1>1, <2>2, <2>3, Locality
    <2>4. CASE UNCHANGED <<markers, pc, workVars, briefVars, worldVars>>
        BY <2>2, <2>4 DEF workVars
    <2> QED
        BY <2>1, <2>3, <2>4, WhoActs
<1>4. FireVerdictHasFiring'
    <2>1. ASSUME NEW h \in Hooks, WriteDecisions(h)
          PROVE  \A d \in verdicts[h] : d.fire => FiredAfter(d.session, d.row, 0)
        BY <2>1 DEF WriteDecisions, DecisionInv, VerdictInv, Deciding
    <2>2. \/ UNCHANGED decisions
          \/ \E h \in Hooks : WriteDecisions(h) /\ decisions' = decisions \cup verdicts[h]
          \/ \E v : v.by = "score" /\ decisions' = decisions \cup {v}
        <3>1. ASSUME NEW r \in Rows, NEW s \in ScoreSessions, ScoreVerb(r, s)
              PROVE  \E v : v.by = "score" /\ decisions' = decisions \cup {v}
            <4>1. VerdictOn(r, s, "score").by = "score"
                BY DEF VerdictOn
            <4> QED
                BY <3>1, <4>1 DEF ScoreVerb
        <3> QED
        BY <3>1 DEF Next, HookStep, Disclose, BoundReached, vars, storeVars, Begin, Compact,
               Abort, ReadMax, LoadMarkers, WriteMarkers, MarkerFails, Match, ReadFloor,
               Dedup, Score, InsertBatch, EmitBatch, FallBack, Refire, EmitRefired,
               WriteDecisions, Inject, Rate, Retire, SetTrigger
    <2>3. ASSUME NEW d \in decisions', d.by = "hook", d.fire
          PROVE  FiredAfter(d.session, d.row, 0)'
        <3>1. FiredAfter(d.session, d.row, 0)
            BY <2>1, <2>2, <2>3 DEF DecisionInv, FireVerdictHasFiring
        <3> QED
            BY <1>2, <3>1
    <2> QED
        BY <2>3 DEF FireVerdictHasFiring
<1> QED
    BY <1>1, <1>3, <1>4 DEF DecisionInv

\* A hook writes a fire verdict only for a row its session has really fired,
\* whatever fails between the INSERT and the decision rows and however many
\* hooks of a session run at once.
THEOREM DecisionsFollowFirings == Spec => []FireVerdictHasFiring
<1>1. Init => DecisionInv
    BY InitType DEF Init, DecisionInv, FireVerdictHasFiring, VerdictInv, Deciding
<1>2. DecisionInv /\ [Next]_vars => DecisionInv'
    BY DecisionStep
<1>3. DecisionInv => FireVerdictHasFiring
    BY DEF DecisionInv
<1> QED
    BY <1>1, <1>2, <1>3, PTL DEF Spec

-----------------------------------------------------------------------------
(* Suppression is lifted by ratings alone *)

\* While no outcome changes, more traffic leaves the evidence of a row as it is.
LEMMA EvidenceKept ==
    ASSUME TypeOK, [Next]_vars, NEW r \in Rows,
           \A i \in DOMAIN firings : firings'[i].outcome = firings[i].outcome
    PROVE  /\ Rated(firings', r) = Rated(firings, r)
           /\ Helpful(firings', r) = Helpful(firings, r)
           /\ FiringsOf(firings, r) \subseteq FiringsOf(firings', r)
<1>1. /\ DOMAIN firings = 1..Len(firings) /\ DOMAIN firings \subseteq DOMAIN firings'
      /\ \A i \in DOMAIN firings : firings'[i].row = firings[i].row
    <2>1. /\ DOMAIN firings = 1..Len(firings) /\ DOMAIN firings' = 1..Len(firings')
        BY StepType DEF TypeOK, StoreType
    <2> QED
        BY <2>1, LogGrows
<1>2. \A i \in DOMAIN firings' \ DOMAIN firings : firings'[i].outcome = Unrated
    BY NewAreUnrated
<1>3. FiringsOf(firings, r) \subseteq FiringsOf(firings', r)
    BY <1>1 DEF FiringsOf
<1>4. Unrated # "helpful"
    BY DEF Unrated
<1>5. Rated(firings', r) = Rated(firings, r)
    BY <1>1, <1>2 DEF Rated, FiringsOf
<1>6. Helpful(firings', r) = Helpful(firings, r)
    BY <1>1, <1>2, <1>4 DEF Helpful, FiringsOf
<1> QED
    BY <1>3, <1>5, <1>6

\* The firings of a row are finite in number.
LEMMA FiringsFinite ==
    ASSUME TypeOK, NEW r
    PROVE  IsFiniteSet(FiringsOf(firings, r)) /\ Cardinality(FiringsOf(firings, r)) \in Nat
<1>1. IsFiniteSet(DOMAIN firings)
    <2>1. DOMAIN firings = 1..Len(firings) /\ Len(firings) \in Nat
        BY DEF TypeOK, StoreType
    <2> QED
        BY <2>1, FS_Interval
<1>2. FiringsOf(firings, r) \subseteq DOMAIN firings
    BY DEF FiringsOf
<1> QED
    BY <1>1, <1>2, FS_Subset, FS_CardinalityType

\* A row the scorer holds back does not start firing again by itself: while no
\* outcome changes, no traffic of any session lifts the suppression.
THEOREM TrafficNeverLifts == Spec => OnlyRatingsLiftSuppression
<1>1. ASSUME TypeOK, [Next]_vars, NEW r \in Rows, ~Fires(firings, r), Fires(firings', r),
             \A i \in DOMAIN firings : firings'[i].outcome = firings[i].outcome
      PROVE  FALSE
    <2>1. /\ Rated(firings', r) = Rated(firings, r)
          /\ Helpful(firings', r) = Helpful(firings, r)
          /\ FiringsOf(firings, r) \subseteq FiringsOf(firings', r)
        BY <1>1, EvidenceKept
    <2>2. ColdStart(firings', r) = ColdStart(firings, r)
          /\ PreciseEnough(firings', r) = PreciseEnough(firings, r)
        BY <2>1 DEF ColdStart, PreciseEnough
    <2>3. ColdPaused(firings, r)
        BY <1>1, <2>2 DEF Fires
    <2>4. Cardinality(FiringsOf(firings, r)) <= Cardinality(FiringsOf(firings', r))
          /\ Cardinality(FiringsOf(firings, r)) \in Nat
          /\ Cardinality(FiringsOf(firings', r)) \in Nat
        <3>1. /\ IsFiniteSet(FiringsOf(firings, r))
              /\ Cardinality(FiringsOf(firings, r)) \in Nat
            BY <1>1, FiringsFinite
        <3>2. TypeOK'
            BY <1>1, StepType
        <3>3. DOMAIN firings' = 1..Len(firings') /\ Len(firings') \in Nat
            BY <3>2 DEF TypeOK, StoreType
        <3>4. IsFiniteSet(FiringsOf(firings', r))
            <4>1. IsFiniteSet(DOMAIN firings')
                BY <3>3, FS_Interval
            <4>2. FiringsOf(firings', r) \subseteq DOMAIN firings'
                BY DEF FiringsOf
            <4> QED
                BY <4>1, <4>2, FS_Subset
        <3> QED
            BY <2>1, <3>1, <3>4, FS_Subset, FS_CardinalityType
    <2>5. ColdPaused(firings', r)
        BY <2>1, <2>3, <2>4, ScorerAssumption DEF ColdPaused
    <2> QED
        BY <1>1, <2>5 DEF Fires
<1>2. TypeOK /\ [Next]_vars =>
        [\A r \in Rows : ~Fires(firings, r) /\ Fires(firings', r) =>
            \E i \in DOMAIN firings : firings'[i].outcome # firings[i].outcome]_vars
    BY <1>1
<1> QED
    BY <1>2, TypeCorrect, PTL DEF Spec, OnlyRatingsLiftSuppression

-----------------------------------------------------------------------------
(* The observer never runs ahead of the log *)

\* The observer's count of session s is the size of seen[s], a set of firings of
\* s; own[h] are firings hook h has logged and not reported yet, apart from all
\* of those.
Attributed(own, seen) ==
    /\ \A s \in Sessions : seen[s] \subseteq SessionIds(s) /\ Cardinality(seen[s]) = observed[s]
    /\ \A h \in Hooks :
          /\ own[h] \subseteq SessionIds(Owner[h])
          /\ own[h] \cap seen[Owner[h]] = {}
          /\ \A g \in Hooks \ {h} : own[g] \cap own[h] = {}
          /\ pc[h] = "readback" => Cardinality(own[h]) = Cardinality(todo[h])
          /\ pc[h] = "remax" => Cardinality(own[h]) = 1

ObserverInv ==
    /\ TypeOK
    /\ \E own \in [Hooks -> SUBSET Nat], seen \in [Sessions -> SUBSET Nat] : Attributed(own, seen)

LEMMA IdsFacts ==
    ASSUME TypeOK, NEW s
    PROVE  /\ SessionIds(s) \subseteq 1..Len(firings) /\ Len(firings) \in Nat
           /\ IsFiniteSet(SessionIds(s)) /\ Cardinality(SessionIds(s)) \in Nat
<1>1. SessionIds(s) \subseteq 1..Len(firings) /\ Len(firings) \in Nat
    BY DEF TypeOK, StoreType, SessionIds
<1>2. IsFiniteSet(1..Len(firings))
    BY <1>1, FS_Interval
<1> QED
    BY <1>1, <1>2, FS_Subset, FS_CardinalityType

LEMMA IdsGrow ==
    ASSUME TypeOK, [Next]_vars, NEW s
    PROVE  SessionIds(s) \subseteq SessionIds(s)'
<1>1. DOMAIN firings = 1..Len(firings) /\ DOMAIN firings' = 1..Len(firings')
    BY StepType DEF TypeOK, StoreType
<1> QED
    BY <1>1, LogGrows DEF SessionIds

\* The firings a hook's step adds to the log, as ids.
Added == (Len(firings) + 1)..Len(firings')

\* What a hook adds to the log is its session's and new.
LEMMA AddedFacts ==
    ASSUME TypeOK, [Next]_vars, NEW h \in Hooks,
           InsertBatch(h) \/ \E r \in Rows : Refire(h, r)
    PROVE  /\ Added \subseteq SessionIds(Owner[h])' /\ Added \subseteq Nat
           /\ Added \cap 1..Len(firings) = {}
           /\ Cardinality(Added) = Len(firings') - Len(firings)
<1>1. /\ DOMAIN firings' = 1..Len(firings') /\ Len(firings) \in Nat /\ Len(firings') \in Nat
      /\ Len(firings') >= Len(firings)
    BY LogGrows, StepType DEF TypeOK, StoreType
<1>2. Cardinality(Added) = Len(firings') - Len(firings)
    <2>1. Len(firings) + 1 \in Int /\ Len(firings') \in Int
        BY <1>1
    <2>2. Cardinality(Added) = IF Len(firings) + 1 > Len(firings') THEN 0
                               ELSE Len(firings') - (Len(firings) + 1) + 1
        BY <2>1, FS_Interval DEF Added
    <2> QED
        BY <1>1, <2>2
<1>3. ASSUME InsertBatch(h), NEW i \in Added
      PROVE  firings'[i].session = Owner[h]
    <2>1. PICK order \in Bijection(1..Cardinality(todo[h]), todo[h]) :
            \A k \in 1..Cardinality(todo[h]) :
                firings'[Len(firings) + k] = Firing(Owner[h], order[k])
        BY <1>3, BatchAppends
    <2>2. Len(firings') = Len(firings) + Cardinality(todo[h]) /\ Cardinality(todo[h]) \in Nat
        BY <1>3, BatchAppends, TodoCount
    <2>3. i - Len(firings) \in 1..Cardinality(todo[h]) /\ i = Len(firings) + (i - Len(firings))
        BY <1>1, <1>3, <2>2 DEF Added
    <2>4. firings'[i] = Firing(Owner[h], order[i - Len(firings)])
        BY <2>1, <2>3
    <2> QED
        BY <2>4 DEF Firing
<1>4. ASSUME NEW r \in Rows, Refire(h, r), NEW i \in Added
      PROVE  firings'[i].session = Owner[h]
    <2>1. firings'[Len(firings')].session = Owner[h] /\ Len(firings') = Len(firings) + 1
        BY <1>4, RefireAppends
    <2>2. i = Len(firings')
        BY <1>1, <1>4, <2>1 DEF Added
    <2> QED
        BY <2>1, <2>2
<1>5. \A i \in Added : i \in 1..Len(firings') /\ i \in Nat /\ i \notin 1..Len(firings)
    BY <1>1 DEF Added
<1>6. Added \subseteq SessionIds(Owner[h])'
    BY <1>1, <1>3, <1>4, <1>5 DEF SessionIds
<1> QED
    BY <1>2, <1>5, <1>6

\* A hook that logs firings holds exactly those until it reports them.
LEMMA ObserverLogs ==
    ASSUME TypeOK, [Next]_vars, NEW h \in Hooks,
           InsertBatch(h) \/ \E r \in Rows : Refire(h, r),
           NEW own \in [Hooks -> SUBSET Nat], NEW seen \in [Sessions -> SUBSET Nat],
           Attributed(own, seen)
    PROVE  \E now \in [Hooks -> SUBSET Nat] : Attributed(now, seen)'
<1>0. PICK now \in [Hooks -> SUBSET Nat] : now = [own EXCEPT ![h] = Added]
    <2>1. [own EXCEPT ![h] = Added] \in [Hooks -> SUBSET Nat]
        BY AddedFacts
    <2> QED
        BY <2>1
<1>1. /\ Added \subseteq SessionIds(Owner[h])' /\ Added \cap 1..Len(firings) = {}
      /\ Cardinality(Added) = Len(firings') - Len(firings)
    BY AddedFacts
<1>2. \A s : SessionIds(s) \subseteq SessionIds(s)' /\ SessionIds(s) \subseteq 1..Len(firings)
    BY IdsGrow, IdsFacts
<1>3. now[h] = Added /\ \A g \in Hooks \ {h} : now[g] = own[g]
    BY <1>0
<1>4. UNCHANGED observed
    BY DEF InsertBatch, Refire, worldVars
<1>5. HookActs(h)
    BY DEF HookActs, HookStep, Disclose
<1>6. \A g \in Hooks \ {h} : pc'[g] = pc[g] /\ todo'[g] = todo[g]
    BY <1>5, Locality
<1>7. /\ pc'[h] = "readback" => Cardinality(Added) = Cardinality(todo'[h])
      /\ pc'[h] = "remax" => Cardinality(Added) = 1
    <2>1. CASE InsertBatch(h)
        <3>1. pc'[h] = "readback" /\ todo' = todo
            BY <2>1 DEF InsertBatch, Goto, workVars, TypeOK, ControlType
        <3>2. Len(firings') = Len(firings) + Cardinality(todo[h])
            BY <2>1, BatchAppends
        <3>3. Len(firings) \in Nat /\ Cardinality(todo[h]) \in Nat
            BY LogGrows, TodoCount
        <3> QED
            BY <1>1, <3>1, <3>2, <3>3
    <2>2. ASSUME NEW r \in Rows, Refire(h, r)
          PROVE  pc'[h] = "remax" /\ Cardinality(Added) = 1
        <3>1. pc'[h] = "remax"
            BY <2>2 DEF Refire, Goto, TypeOK, ControlType
        <3>2. Len(firings') = Len(firings) + 1
            BY <2>2, RefireAppends
        <3>3. Len(firings) \in Nat
            BY LogGrows
        <3> QED
            BY <1>1, <3>1, <3>2, <3>3
    <2> QED
        BY <2>1, <2>2
<1>8. \A s \in Sessions : /\ seen[s] \subseteq SessionIds(s)'
                          /\ seen[s] \subseteq 1..Len(firings)
                          /\ Cardinality(seen[s]) = observed'[s]
    BY <1>2, <1>4 DEF Attributed
<1>9. ASSUME NEW g \in Hooks
      PROVE  /\ now[g] \subseteq SessionIds(Owner[g])'
             /\ now[g] \cap seen[Owner[g]] = {}
             /\ \A k \in Hooks \ {g} : now[k] \cap now[g] = {}
             /\ pc'[g] = "readback" => Cardinality(now[g]) = Cardinality(todo'[g])
             /\ pc'[g] = "remax" => Cardinality(now[g]) = 1
    <2>1. \A k \in Hooks : Owner[k] \in Sessions /\ own[k] \subseteq 1..Len(firings)
        BY <1>2, DisclosureAssumption DEF Attributed
    <2>2. CASE g = h
        BY <1>1, <1>3, <1>7, <1>8, <2>1, <2>2
    <2>3. CASE g # h
        <3>1. /\ own[g] \subseteq SessionIds(Owner[g])
              /\ own[g] \cap seen[Owner[g]] = {}
              /\ \A k \in Hooks \ {g} : own[k] \cap own[g] = {}
              /\ pc[g] = "readback" => Cardinality(own[g]) = Cardinality(todo[g])
              /\ pc[g] = "remax" => Cardinality(own[g]) = 1
            BY DEF Attributed
        <3>2. now[g] = own[g] /\ pc'[g] = pc[g] /\ todo'[g] = todo[g]
            BY <1>3, <1>6, <2>3
        <3>3. \A k \in Hooks \ {g} : now[k] \cap now[g] = {}
            BY <1>1, <1>3, <2>1, <3>1, <3>2
        <3>4. now[g] \subseteq SessionIds(Owner[g])'
            BY <1>2, <3>1, <3>2
        <3> QED
            BY <3>1, <3>2, <3>3, <3>4
    <2> QED
        BY <2>2, <2>3
<1>10. Attributed(now, seen)'
    BY <1>8, <1>9 DEF Attributed
<1> QED
    BY <1>10

\* A hook that reports its firings hands all of them over.
LEMMA ObserverReports ==
    ASSUME TypeOK, [Next]_vars, NEW h \in Hooks, EmitBatch(h) \/ EmitRefired(h),
           NEW own \in [Hooks -> SUBSET Nat], NEW seen \in [Sessions -> SUBSET Nat],
           Attributed(own, seen)
    PROVE  Attributed([own EXCEPT ![h] = {}],
                      [seen EXCEPT ![Owner[h]] = @ \cup own[h]])'
<1> DEFINE s == Owner[h]
           now == [own EXCEPT ![h] = {}]
           told == [seen EXCEPT ![s] = @ \cup own[h]]
<1>1. /\ now[h] = {} /\ \A g \in Hooks \ {h} : now[g] = own[g]
      /\ s \in Sessions
      /\ told[s] = seen[s] \cup own[h] /\ \A t \in Sessions \ {s} : told[t] = seen[t]
    BY DisclosureAssumption
<1>2. \A t : SessionIds(t) \subseteq SessionIds(t)'
    BY IdsGrow
<1>3. HookActs(h)
    BY DEF HookActs, HookStep, Disclose
<1>4. \A g \in Hooks \ {h} : pc'[g] = pc[g] /\ todo'[g] = todo[g]
    BY <1>3, Locality
<1>5. pc'[h] \in {"decide", "refire"}
    BY DEF EmitBatch, EmitRefired, Goto, TypeOK, ControlType
<1>6. /\ observed'[s] = observed[s] + Cardinality(own[h])
      /\ \A t \in Sessions \ {s} : observed'[t] = observed[t]
    <2>1. CASE EmitBatch(h)
        <3>1. Cardinality(own[h]) = Cardinality(todo[h])
            BY <2>1 DEF EmitBatch, Attributed
        <3> QED
            BY <1>1, <2>1, <3>1 DEF EmitBatch, TypeOK, WorldType
    <2>2. CASE EmitRefired(h)
        <3>1. Cardinality(own[h]) = 1
            BY <2>2 DEF EmitRefired, Attributed
        <3> QED
            BY <1>1, <2>2, <3>1 DEF EmitRefired, TypeOK, WorldType
    <2> QED
        BY <2>1, <2>2
<1>7. Cardinality(seen[s] \cup own[h]) = Cardinality(seen[s]) + Cardinality(own[h])
    <2>1. /\ seen[s] \subseteq SessionIds(s) /\ own[h] \subseteq SessionIds(s)
          /\ seen[s] \cap own[h] = {}
        BY <1>1 DEF Attributed
    <2>2. IsFiniteSet(seen[s]) /\ IsFiniteSet(own[h])
        BY <2>1, IdsFacts, FS_Subset
    <2>3. /\ Cardinality(seen[s] \cup own[h]) =
                Cardinality(seen[s]) + Cardinality(own[h]) - Cardinality(seen[s] \cap own[h])
          /\ Cardinality(seen[s] \cap own[h]) = 0
          /\ Cardinality(seen[s]) \in Nat /\ Cardinality(own[h]) \in Nat
        BY <2>1, <2>2, FS_Union, FS_EmptySet, FS_CardinalityType
    <2> QED
        BY <2>3
<1>8. ASSUME NEW t \in Sessions
      PROVE  told[t] \subseteq SessionIds(t)' /\ Cardinality(told[t]) = observed'[t]
    <2>1. CASE t = s
        <3>1. seen[s] \subseteq SessionIds(s) /\ own[h] \subseteq SessionIds(s)
              /\ Cardinality(seen[s]) = observed[s]
            BY <1>1 DEF Attributed
        <3>2. told[s] \subseteq SessionIds(s)'
            BY <1>1, <1>2, <3>1
        <3>3. Cardinality(told[s]) = observed'[s]
            BY <1>1, <1>6, <1>7, <3>1
        <3> QED
            BY <2>1, <3>2, <3>3
    <2>2. CASE t # s
        <3>1. seen[t] \subseteq SessionIds(t) /\ Cardinality(seen[t]) = observed[t]
            BY DEF Attributed
        <3>2. told[t] = seen[t] /\ observed'[t] = observed[t]
            BY <1>1, <1>6, <2>2
        <3> QED
            BY <1>2, <3>1, <3>2
    <2> QED
        BY <2>1, <2>2
<1>9. ASSUME NEW g \in Hooks
      PROVE  /\ now[g] \subseteq SessionIds(Owner[g])'
             /\ now[g] \cap told[Owner[g]] = {}
             /\ \A k \in Hooks \ {g} : now[k] \cap now[g] = {}
             /\ pc'[g] = "readback" => Cardinality(now[g]) = Cardinality(todo'[g])
             /\ pc'[g] = "remax" => Cardinality(now[g]) = 1
    <2>1. CASE g = h
        BY <1>1, <1>5, <2>1
    <2>2. CASE g # h
        <3>1. /\ own[g] \subseteq SessionIds(Owner[g])
              /\ own[g] \cap seen[Owner[g]] = {}
              /\ \A k \in Hooks \ {g} : own[k] \cap own[g] = {}
              /\ pc[g] = "readback" => Cardinality(own[g]) = Cardinality(todo[g])
              /\ pc[g] = "remax" => Cardinality(own[g]) = 1
            BY DEF Attributed
        <3>2. now[g] = own[g] /\ pc'[g] = pc[g] /\ todo'[g] = todo[g]
            BY <1>1, <1>4, <2>2
        <3>3. \A k \in Hooks \ {g} : now[k] \cap now[g] = {}
            BY <1>1, <3>1, <3>2
        <3>4. now[g] \subseteq SessionIds(Owner[g])'
            BY <1>2, <3>1, <3>2
        <3>5. told[Owner[g]] \subseteq seen[Owner[g]] \cup own[h]
            BY <1>1, DisclosureAssumption
        <3>6. own[h] \cap own[g] = {}
            BY <2>2, <3>1
        <3>7. now[g] \cap told[Owner[g]] = {}
            BY <3>1, <3>2, <3>5, <3>6
        <3> QED
            BY <3>1, <3>2, <3>3, <3>4, <3>7
    <2> QED
        BY <2>1, <2>2
<1> HIDE DEF now, told
<1>10. ASSUME NEW a, NEW b, a = now, b = told
       PROVE  Attributed(a, b)'
    BY <1>8, <1>9, <1>10 DEF Attributed
<1> QED
    BY <1>10 DEF now, told

\* Any other step leaves what each hook owes the observer.
LEMMA ObserverKeeps ==
    ASSUME TypeOK, [Next]_vars, UNCHANGED observed,
           \A g \in Hooks : /\ pc'[g] = "readback" => pc[g] = "readback" /\ todo'[g] = todo[g]
                            /\ pc'[g] = "remax" => pc[g] = "remax",
           NEW own \in [Hooks -> SUBSET Nat], NEW seen \in [Sessions -> SUBSET Nat],
           Attributed(own, seen)
    PROVE  Attributed(own, seen)'
<1>1. \A t : SessionIds(t) \subseteq SessionIds(t)'
    BY IdsGrow
<1>2. \A s \in Sessions : /\ seen[s] \subseteq SessionIds(s)'
                          /\ Cardinality(seen[s]) = observed'[s]
    BY <1>1 DEF Attributed
<1>3. \A h \in Hooks : own[h] \subseteq SessionIds(Owner[h])'
    BY <1>1 DEF Attributed
<1> QED
    BY <1>2, <1>3 DEF Attributed

LEMMA ObserverStep == ObserverInv /\ [Next]_vars => ObserverInv'
<1> SUFFICES ASSUME ObserverInv, [Next]_vars
             PROVE  ObserverInv'
    OBVIOUS
<1>1. TypeOK /\ TypeOK'
    BY StepType DEF ObserverInv
<1>2. PICK own \in [Hooks -> SUBSET Nat], seen \in [Sessions -> SUBSET Nat] :
         Attributed(own, seen)
    BY DEF ObserverInv
<1>3. ASSUME NEW h \in Hooks, InsertBatch(h) \/ \E r \in Rows : Refire(h, r)
      PROVE  ObserverInv'
    BY <1>1, <1>2, <1>3, ObserverLogs DEF ObserverInv
<1>4. ASSUME NEW h \in Hooks, EmitBatch(h) \/ EmitRefired(h)
      PROVE  ObserverInv'
    <2>1. /\ [own EXCEPT ![h] = {}] \in [Hooks -> SUBSET Nat]
          /\ [seen EXCEPT ![Owner[h]] = @ \cup own[h]] \in [Sessions -> SUBSET Nat]
        BY DisclosureAssumption
    <2>2. Attributed([own EXCEPT ![h] = {}], [seen EXCEPT ![Owner[h]] = @ \cup own[h]])'
        BY <1>1, <1>2, <1>4, ObserverReports
    <2> QED
        BY <1>1, <2>1, <2>2 DEF ObserverInv
<1>5. ASSUME UNCHANGED observed,
             \A g \in Hooks : /\ pc'[g] = "readback" => pc[g] = "readback" /\ todo'[g] = todo[g]
                              /\ pc'[g] = "remax" => pc[g] = "remax"
      PROVE  ObserverInv'
    BY <1>1, <1>2, <1>5, ObserverKeeps DEF ObserverInv
<1>6. ASSUME NEW h \in Hooks, HookActs(h),
             ~InsertBatch(h), ~(\E r \in Rows : Refire(h, r)), ~EmitBatch(h), ~EmitRefired(h)
      PROVE  UNCHANGED observed /\ pc'[h] \notin {"readback", "remax"}
    BY <1>1, <1>6
    DEF HookActs, HookStep, Disclose, Begin, Compact, Abort, Reset, ReadMax, LoadMarkers,
        WriteMarkers, MarkerFails, Match, ReadFloor, Dedup, Score, FallBack, WriteDecisions,
        Inject, Goto, worldVars, TypeOK, ControlType
<1>7. ASSUME NEW h \in Hooks, HookActs(h),
             ~InsertBatch(h), ~(\E r \in Rows : Refire(h, r)), ~EmitBatch(h), ~EmitRefired(h)
      PROVE  ObserverInv'
    <2>1. \A g \in Hooks \ {h} : pc'[g] = pc[g] /\ todo'[g] = todo[g]
        BY <1>1, <1>7, Locality
    <2> QED
        BY <1>5, <1>6, <1>7, <2>1
<1>8. CASE UNCHANGED <<markers, pc, workVars, briefVars, worldVars>>
    BY <1>5, <1>8 DEF workVars, worldVars
<1> QED
    BY <1>3, <1>4, <1>7, <1>8, WhoActs

\* The observer is told of a firing only once it is in the log, on the batch
\* path and on the fallback, however many hooks of a session run at once: its
\* count never exceeds the firings of the session.
THEOREM ObserverFollowsLog == Spec => []ObserverNeverAhead
<1>1. Init => ObserverInv
    <2> SUFFICES ASSUME Init
                 PROVE  ObserverInv
        OBVIOUS
    <2>1. TypeOK
        BY InitType
    <2>2. Attributed([h \in Hooks |-> {}], [s \in Sessions |-> {}])
        BY FS_EmptySet, DisclosureAssumption DEF Init, Attributed
    <2>3. /\ [h \in Hooks |-> {}] \in [Hooks -> SUBSET Nat]
          /\ [s \in Sessions |-> {}] \in [Sessions -> SUBSET Nat]
        OBVIOUS
    <2> QED
        BY <2>1, <2>2, <2>3 DEF ObserverInv
<1>2. ObserverInv /\ [Next]_vars => ObserverInv'
    BY ObserverStep
<1>3. ObserverInv => ObserverNeverAhead
    <2> SUFFICES ASSUME ObserverInv, NEW s \in Sessions
                 PROVE  observed[s] <= Cardinality(SessionIds(s))
        BY DEF ObserverNeverAhead
    <2>1. PICK own \in [Hooks -> SUBSET Nat], seen \in [Sessions -> SUBSET Nat] :
            Attributed(own, seen)
        BY DEF ObserverInv
    <2>2. seen[s] \subseteq SessionIds(s) /\ Cardinality(seen[s]) = observed[s]
        BY <2>1 DEF Attributed
    <2>3. IsFiniteSet(SessionIds(s))
        BY IdsFacts DEF ObserverInv
    <2> QED
        BY <2>2, <2>3, FS_Subset
<1> QED
    BY <1>1, <1>2, <1>3, PTL DEF Spec

-----------------------------------------------------------------------------
(* The overrun of the cold-pause *)

\* Hooks that may still log a firing of row r, and those that may log two: one
\* by the batch and one more when its read-back sends them to the fallback.
MayFire(r) ==
    {h \in Hooks : /\ r \in todo[h]
                   /\ \/ pc[h] \in {"insert", "readback", "refire"}
                      \/ pc[h] = "remax" /\ r # refired[h]}

MayFireTwice(r) == {h \in Hooks : r \in todo[h] /\ pc[h] = "insert"}

\* The firings of r, those still to come from hooks under way included.
Weight(r) ==
    Cardinality(FiringsOf(firings, r)) + Cardinality(MayFire(r)) + Cardinality(MayFireTwice(r))

PauseInv ==
    /\ TypeOK
    /\ \A r \in Rows : Rated(firings, r) = {} =>
          Weight(r) < NUnratedPause + 2 * Cardinality(Hooks)

\* A batch logs each of its rows exactly once, and no other row.
LEMMA BatchOnce ==
    ASSUME TypeOK, NEW h \in Hooks, InsertBatch(h), NEW r
    PROVE  /\ r \in todo[h] => \E id : /\ id \notin FiringsOf(firings, r)
                                       /\ FiringsOf(firings', r) = FiringsOf(firings, r) \cup {id}
           /\ r \notin todo[h] => FiringsOf(firings', r) = FiringsOf(firings, r)
<1> DEFINE n == Cardinality(todo[h])
<1>1. PICK order \in Bijection(1..n, todo[h]) :
        \A i \in 1..n : firings'[Len(firings) + i] = Firing(Owner[h], order[i])
    BY BatchAppends
<1>2. /\ order \in [1..n -> todo[h]]
      /\ \A i, j \in 1..n : order[i] = order[j] => i = j
      /\ \A q \in todo[h] : \E i \in 1..n : order[i] = q
    BY DEF Bijection, Injection, Surjection, IsInjective
<1>3. /\ n \in Nat /\ Len(firings) \in Nat /\ Len(firings') = Len(firings) + n
      /\ DOMAIN firings = 1..Len(firings) /\ DOMAIN firings' = 1..Len(firings')
      /\ \A i \in 1..Len(firings) : firings'[i] = firings[i]
    <2>1. /\ firings \in Seq(FiringRecord) /\ firings' \in Seq(FiringRecord)
          /\ Len(firings') = Len(firings) + n
          /\ \A i \in 1..Len(firings) : firings'[i] = firings[i]
        BY BatchAppends DEF TypeOK, StoreType, FiringRecord
    <2> QED
        BY <2>1, TodoCount
<1> HIDE DEF n
<1>4. \A i \in 1..n : firings'[Len(firings) + i].row = order[i]
    <2>1. \A q : Firing(Owner[h], q).row = q
        BY DEF Firing
    <2> QED
        BY <1>1, <2>1 DEF n
<1>5. ASSUME NEW i
      PROVE  i \in FiringsOf(firings', r) <=>
                 \/ i \in FiringsOf(firings, r)
                 \/ i - Len(firings) \in 1..n /\ i \in Nat /\ order[i - Len(firings)] = r
    <2>1. CASE i \in 1..Len(firings)
        <3>1. i \in DOMAIN firings /\ i \in DOMAIN firings' /\ firings'[i] = firings[i]
              /\ i - Len(firings) \notin 1..n
            BY <1>3, <2>1
        <3> QED
            BY <3>1 DEF FiringsOf
    <2>2. CASE i \in (Len(firings) + 1)..(Len(firings) + n)
        <3>1. /\ i \notin DOMAIN firings /\ i \in DOMAIN firings' /\ i \in Nat
              /\ i - Len(firings) \in 1..n /\ i = Len(firings) + (i - Len(firings))
            BY <1>3, <2>2
        <3>2. firings'[i].row = order[i - Len(firings)]
            BY <1>4, <3>1
        <3> QED
            BY <3>1, <3>2 DEF FiringsOf
    <2>3. CASE i \notin 1..Len(firings) /\ i \notin (Len(firings) + 1)..(Len(firings) + n)
        <3>1. i \notin DOMAIN firings' /\ i \notin DOMAIN firings
              /\ ~(i - Len(firings) \in 1..n /\ i \in Nat)
            BY <1>3, <2>3
        <3> QED
            BY <3>1 DEF FiringsOf
    <2> QED
        BY <2>1, <2>2, <2>3
<1>6. ASSUME r \in todo[h]
      PROVE  \E id : /\ id \notin FiringsOf(firings, r)
                     /\ FiringsOf(firings', r) = FiringsOf(firings, r) \cup {id}
    <2>1. PICK k \in 1..n : order[k] = r
        BY <1>2, <1>6
    <2>2. \A i : i - Len(firings) \in 1..n /\ i \in Nat /\ order[i - Len(firings)] = r
                 <=> i = Len(firings) + k
        BY <1>2, <1>3, <2>1
    <2>3. Len(firings) + k \notin FiringsOf(firings, r)
        BY <1>3, <2>1 DEF FiringsOf
    <2>4. FiringsOf(firings', r) = FiringsOf(firings, r) \cup {Len(firings) + k}
        BY <1>5, <2>2
    <2> QED
        BY <2>3, <2>4
<1>7. ASSUME r \notin todo[h]
      PROVE  FiringsOf(firings', r) = FiringsOf(firings, r)
    <2>1. \A k \in 1..n : order[k] # r
        BY <1>2, <1>7
    <2> QED
        BY <1>5, <2>1
<1> QED
    BY <1>6, <1>7

\* fire() logs its row once, and no other row.
LEMMA RefireOnce ==
    ASSUME TypeOK, NEW h \in Hooks, NEW q \in Rows, Refire(h, q), NEW r
    PROVE  /\ r = q => \E id : /\ id \notin FiringsOf(firings, r)
                               /\ FiringsOf(firings', r) = FiringsOf(firings, r) \cup {id}
           /\ r # q => FiringsOf(firings', r) = FiringsOf(firings, r)
<1>1. /\ Len(firings) \in Nat /\ Len(firings') = Len(firings) + 1
      /\ DOMAIN firings = 1..Len(firings) /\ DOMAIN firings' = 1..Len(firings')
      /\ \A i \in 1..Len(firings) : firings'[i] = firings[i]
      /\ firings'[Len(firings')].row = q
    <2>1. /\ firings \in Seq(FiringRecord) /\ firings' \in Seq(FiringRecord)
          /\ Len(firings') = Len(firings) + 1
          /\ \A i \in 1..Len(firings) : firings'[i] = firings[i]
          /\ firings'[Len(firings')].row = q
        BY RefireAppends DEF TypeOK, StoreType, FiringRecord
    <2> QED
        BY <2>1
<1>2. \A i : i \in DOMAIN firings' <=> i \in DOMAIN firings \/ i = Len(firings')
    BY <1>1
<1>3. Len(firings') \notin FiringsOf(firings, r)
    BY <1>1 DEF FiringsOf
<1>4. CASE r = q
    <2>1. FiringsOf(firings', r) = FiringsOf(firings, r) \cup {Len(firings')}
        BY <1>1, <1>2, <1>4 DEF FiringsOf
    <2> QED
        BY <1>3, <1>4, <2>1
<1>5. CASE r # q
    <2>1. FiringsOf(firings', r) = FiringsOf(firings, r)
        BY <1>1, <1>2, <1>5 DEF FiringsOf
    <2> QED
        BY <1>5, <2>1
<1> QED
    BY <1>4, <1>5

\* The counts that make up a weight are natural numbers.
LEMMA WeightParts ==
    ASSUME TypeOK, IsFiniteSet(Hooks), NEW r
    PROVE  /\ IsFiniteSet(FiringsOf(firings, r)) /\ Cardinality(FiringsOf(firings, r)) \in Nat
           /\ IsFiniteSet(MayFire(r)) /\ Cardinality(MayFire(r)) \in Nat
           /\ IsFiniteSet(MayFireTwice(r)) /\ Cardinality(MayFireTwice(r)) \in Nat
           /\ Cardinality(MayFire(r)) <= Cardinality(Hooks)
           /\ Cardinality(MayFireTwice(r)) <= Cardinality(Hooks)
           /\ Cardinality(Hooks) \in Nat
<1>1. MayFire(r) \subseteq Hooks /\ MayFireTwice(r) \subseteq Hooks
    BY DEF MayFire, MayFireTwice
<1> QED
    BY <1>1, FiringsFinite, FS_Subset, FS_CardinalityType

\* What a hook logs it was known to be about to log.
LEMMA WeightLogged ==
    ASSUME TypeOK, IsFiniteSet(Hooks), NEW h \in Hooks, NEW r \in Rows,
           InsertBatch(h) \/ \E q \in Rows : Refire(h, q)
    PROVE  Weight(r)' = Weight(r)
<1>1. /\ IsFiniteSet(FiringsOf(firings, r)) /\ Cardinality(FiringsOf(firings, r)) \in Nat
      /\ IsFiniteSet(MayFire(r)) /\ Cardinality(MayFire(r)) \in Nat
      /\ IsFiniteSet(MayFireTwice(r)) /\ Cardinality(MayFireTwice(r)) \in Nat
    BY WeightParts
<1>2. FiringsOf(firings, r)' = FiringsOf(firings', r)
    BY DEF FiringsOf
<1> USE DEF TypeOK, ControlType, WorkType, Goto, workVars
<1>3. CASE InsertBatch(h)
    <2>1. MayFire(r)' = MayFire(r)
        BY <1>3 DEF InsertBatch, MayFire
    <2>2. MayFireTwice(r)' = MayFireTwice(r) \ {h}
        BY <1>3 DEF InsertBatch, MayFireTwice
    <2>3. CASE r \in todo[h]
        <3>1. PICK id : /\ id \notin FiringsOf(firings, r)
                        /\ FiringsOf(firings', r) = FiringsOf(firings, r) \cup {id}
            BY <1>3, <2>3, BatchOnce
        <3>2. Cardinality(FiringsOf(firings', r)) = Cardinality(FiringsOf(firings, r)) + 1
            BY <1>1, <3>1, FS_AddElement
        <3>3. h \in MayFireTwice(r)
            BY <1>3, <2>3 DEF InsertBatch, MayFireTwice
        <3>4. Cardinality(MayFireTwice(r) \ {h}) = Cardinality(MayFireTwice(r)) - 1
            BY <1>1, <3>3, FS_RemoveElement
        <3> QED
            BY <1>1, <1>2, <2>1, <2>2, <3>2, <3>4 DEF Weight
    <2>4. CASE r \notin todo[h]
        <3>1. FiringsOf(firings', r) = FiringsOf(firings, r)
            BY <1>3, <2>4, BatchOnce
        <3>2. MayFireTwice(r) \ {h} = MayFireTwice(r)
            BY <2>4 DEF MayFireTwice
        <3> QED
            BY <1>2, <2>1, <2>2, <3>1, <3>2 DEF Weight
    <2> QED
        BY <2>3, <2>4
<1>4. ASSUME NEW q \in Rows, Refire(h, q)
      PROVE  Weight(r)' = Weight(r)
    <2>1. MayFireTwice(r)' = MayFireTwice(r)
        BY <1>4 DEF Refire, MayFireTwice
    <2>2. CASE r = q
        <3>1. PICK id : /\ id \notin FiringsOf(firings, r)
                        /\ FiringsOf(firings', r) = FiringsOf(firings, r) \cup {id}
            BY <1>4, <2>2, RefireOnce
        <3>2. Cardinality(FiringsOf(firings', r)) = Cardinality(FiringsOf(firings, r)) + 1
            BY <1>1, <3>1, FS_AddElement
        <3>3. h \in MayFire(r) /\ MayFire(r)' = MayFire(r) \ {h}
            BY <1>4, <2>2 DEF Refire, MayFire
        <3>4. Cardinality(MayFire(r) \ {h}) = Cardinality(MayFire(r)) - 1
            BY <1>1, <3>3, FS_RemoveElement
        <3> QED
            BY <1>1, <1>2, <2>1, <3>2, <3>3, <3>4 DEF Weight
    <2>3. CASE r # q
        <3>1. FiringsOf(firings', r) = FiringsOf(firings, r)
            BY <1>4, <2>3, RefireOnce
        <3>2. MayFire(r)' = MayFire(r)
            BY <1>4, <2>3 DEF Refire, MayFire
        <3> QED
            BY <1>2, <2>1, <3>1, <3>2 DEF Weight
    <2> QED
        BY <2>2, <2>3
<1> QED
    BY <1>3, <1>4

\* Scoring lets a row through only while it is under the limit.
LEMMA WeightScored ==
    ASSUME PauseInv, IsFiniteSet(Hooks), [Next]_vars, NEW h \in Hooks, Score(h), NEW r \in Rows,
           Rated(firings, r) = {}
    PROVE  Weight(r)' < NUnratedPause + 2 * Cardinality(Hooks)
<1>1. TypeOK /\ TypeOK'
    BY StepType DEF PauseInv
<1>2. FiringsOf(firings, r)' = FiringsOf(firings, r)
    BY DEF Score, storeVars, FiringsOf
<1>3. CASE Fires(firings, r)
    <2>1. Cardinality(FiringsOf(firings, r)) < NUnratedPause
        BY <1>1, <1>3, FiringsFinite, ScorerAssumption DEF Fires, ColdPaused
    <2>2. /\ Cardinality(MayFire(r)') \in Nat /\ Cardinality(MayFireTwice(r)') \in Nat
          /\ Cardinality(MayFire(r)') <= Cardinality(Hooks)
          /\ Cardinality(MayFireTwice(r)') <= Cardinality(Hooks)
        <3>1. MayFire(r)' \subseteq Hooks /\ MayFireTwice(r)' \subseteq Hooks
            BY DEF MayFire, MayFireTwice
        <3> QED
            BY <3>1, FS_Subset, FS_CardinalityType
    <2>3. Cardinality(FiringsOf(firings, r)) \in Nat /\ Cardinality(Hooks) \in Nat
        BY <1>1, WeightParts
    <2> QED
        BY <1>2, <2>1, <2>2, <2>3, ScorerAssumption DEF Weight
<1>4. CASE ~Fires(firings, r)
    <2>1. MayFire(r)' = MayFire(r) /\ MayFireTwice(r)' = MayFireTwice(r)
        BY <1>1, <1>4
        DEF Score, Goto, MayFire, MayFireTwice, TypeOK, ControlType, WorkType
    <2>2. Weight(r)' = Weight(r)
        BY <1>2, <2>1 DEF Weight
    <2> QED
        BY <2>2 DEF PauseInv
<1> QED
    BY <1>3, <1>4

\* Other steps log nothing and let nothing through.
LEMMA WeightShrinks ==
    ASSUME TypeOK, IsFiniteSet(Hooks), NEW r \in Rows,
           FiringsOf(firings', r) = FiringsOf(firings, r),
           MayFire(r)' \subseteq MayFire(r), MayFireTwice(r)' \subseteq MayFireTwice(r)
    PROVE  Weight(r)' <= Weight(r)
<1>1. /\ IsFiniteSet(FiringsOf(firings, r)) /\ Cardinality(FiringsOf(firings, r)) \in Nat
      /\ IsFiniteSet(MayFire(r)) /\ Cardinality(MayFire(r)) \in Nat
      /\ IsFiniteSet(MayFireTwice(r)) /\ Cardinality(MayFireTwice(r)) \in Nat
    BY WeightParts
<1>2. FiringsOf(firings, r)' = FiringsOf(firings, r)
    BY DEF FiringsOf
<1>3. /\ Cardinality(MayFire(r)') <= Cardinality(MayFire(r))
      /\ Cardinality(MayFireTwice(r)') <= Cardinality(MayFireTwice(r))
      /\ Cardinality(MayFire(r)') \in Nat /\ Cardinality(MayFireTwice(r)') \in Nat
    BY <1>1, FS_Subset, FS_CardinalityType
<1> QED
    BY <1>1, <1>2, <1>3 DEF Weight

LEMMA PauseStep == IsFiniteSet(Hooks) /\ PauseInv /\ [Next]_vars => PauseInv'
<1> SUFFICES ASSUME IsFiniteSet(Hooks), PauseInv, [Next]_vars
             PROVE  PauseInv'
    OBVIOUS
<1>1. TypeOK /\ TypeOK'
    BY StepType DEF PauseInv
<1> SUFFICES ASSUME NEW r \in Rows, Rated(firings', r) = {}
             PROVE  Weight(r)' < NUnratedPause + 2 * Cardinality(Hooks)
    BY <1>1 DEF PauseInv, Rated, FiringsOf
<1>2. DOMAIN firings = 1..Len(firings) /\ DOMAIN firings' = 1..Len(firings')
    BY <1>1 DEF TypeOK, StoreType
<1>3. Rated(firings, r) = {}
    <2>1. ASSUME NEW i \in Rated(firings, r)
          PROVE  FALSE
        <3>1. i \in DOMAIN firings /\ firings[i].row = r /\ firings[i].outcome # Unrated
            BY DEF Rated, FiringsOf
        <3>2. i \in DOMAIN firings' /\ firings'[i].row = r
            BY <1>1, <1>2, <3>1, LogGrows
        <3>3. firings'[i].outcome = Unrated
            BY <3>2 DEF Rated, FiringsOf
        <3>4. firings'[i] # firings[i]
            BY <3>1, <3>3
        <3>5. PICK k \in DOMAIN firings, outcome \in Outcomes : Rate(k, outcome)
            BY <1>1, <1>2, <3>1, <3>4, WhoLogs, BatchAppends, RefireAppends
        <3>6. i = k
            BY <1>2, <3>1, <3>4, <3>5 DEF Rate
        <3>7. firings[i] \in FiringRecord
            <4>1. firings \in Seq(FiringRecord)
                BY <1>1 DEF TypeOK, StoreType, FiringRecord
            <4> QED
                BY <3>1, <4>1
        <3>8. firings'[i].outcome = outcome
            BY <1>2, <3>1, <3>5, <3>6, <3>7 DEF Rate, FiringRecord
        <3> QED
            BY <3>3, <3>5, <3>8 DEF Outcomes, Unrated
    <2> QED
        BY <2>1
<1>4. Weight(r) < NUnratedPause + 2 * Cardinality(Hooks)
    BY <1>3 DEF PauseInv
<1>5. Weight(r) \in Nat
    BY <1>1, WeightParts DEF Weight
<1>6. ASSUME FiringsOf(firings', r) = FiringsOf(firings, r),
             MayFire(r)' \subseteq MayFire(r), MayFireTwice(r)' \subseteq MayFireTwice(r)
      PROVE  Weight(r)' < NUnratedPause + 2 * Cardinality(Hooks)
    <2>1. Weight(r)' <= Weight(r)
        BY <1>1, <1>6, WeightShrinks
    <2>2. Weight(r)' \in Int /\ Cardinality(Hooks) \in Nat
        <3>1. /\ IsFiniteSet(MayFire(r)') /\ IsFiniteSet(MayFireTwice(r)')
              /\ IsFiniteSet(FiringsOf(firings', r))
            BY <1>1, <1>6, WeightParts, FS_Subset
        <3>2. FiringsOf(firings, r)' = FiringsOf(firings', r)
            BY DEF FiringsOf
        <3> QED
            BY <3>1, <3>2, FS_CardinalityType DEF Weight
    <2> QED
        BY <1>4, <1>5, <2>1, <2>2, ScorerAssumption
<1>7. ASSUME NEW h \in Hooks, InsertBatch(h) \/ \E q \in Rows : Refire(h, q)
      PROVE  Weight(r)' < NUnratedPause + 2 * Cardinality(Hooks)
    BY <1>1, <1>4, <1>7, WeightLogged
<1>8. ASSUME NEW h \in Hooks, Score(h)
      PROVE  Weight(r)' < NUnratedPause + 2 * Cardinality(Hooks)
    BY <1>3, <1>8, WeightScored
<1>9. ASSUME NEW h \in Hooks, HookActs(h), ~Score(h),
             ~InsertBatch(h), ~\E q \in Rows : Refire(h, q)
      PROVE  Weight(r)' < NUnratedPause + 2 * Cardinality(Hooks)
    <2>1. UNCHANGED firings
        BY <1>9
        DEF HookActs, HookStep, Disclose, Begin, Compact, Abort, ReadMax, LoadMarkers,
            WriteMarkers, MarkerFails, Match, ReadFloor, Dedup, EmitBatch, FallBack,
            EmitRefired, WriteDecisions, Inject, storeVars
    <2>2. \/ pc'[h] \notin {"insert", "readback", "refire", "remax"}
          \/ FallBack(h)
          \/ EmitRefired(h)
        BY <1>1, <1>9
        DEF HookActs, HookStep, Disclose, Begin, Compact, Abort, Reset, ReadMax, LoadMarkers,
            WriteMarkers, MarkerFails, Match, ReadFloor, Dedup, EmitBatch,
            WriteDecisions, Inject, Goto, TypeOK, ControlType
    <2>3. ASSUME r \in todo'[h], pc'[h] \in {"insert", "readback", "refire", "remax"}
          PROVE  h \in MayFire(r) /\ pc'[h] = "refire"
        <3>1. CASE FallBack(h)
            BY <1>1, <2>3, <3>1
            DEF FallBack, MayFire, workVars, Goto, TypeOK, ControlType
        <3>2. CASE EmitRefired(h)
            BY <1>1, <2>3, <3>2 DEF EmitRefired, MayFire, Goto, TypeOK, ControlType, WorkType
        <3> QED
            BY <2>2, <2>3, <3>1, <3>2
    <2>4. \A g \in Hooks \ {h} : pc'[g] = pc[g] /\ todo'[g] = todo[g] /\ refired'[g] = refired[g]
        BY <1>1, <1>9, Locality
    <2>5. MayFire(r)' \subseteq MayFire(r) /\ MayFireTwice(r)' \subseteq MayFireTwice(r)
        BY <2>3, <2>4 DEF MayFire, MayFireTwice
    <2> QED
        BY <1>6, <2>1, <2>5
<1>10. CASE UNCHANGED <<markers, pc, workVars, briefVars, worldVars>>
    <2>1. MayFire(r)' = MayFire(r) /\ MayFireTwice(r)' = MayFireTwice(r)
        BY <1>10 DEF MayFire, MayFireTwice, workVars
    <2>2. Len(firings') = Len(firings)
          /\ \A i \in 1..Len(firings) : firings'[i].row = firings[i].row
        <3>1. \/ \E k \in DOMAIN firings, outcome \in Outcomes : Rate(k, outcome)
              \/ UNCHANGED firings
            BY <1>1, <1>10, WhoLogs DEF InsertBatch, Refire, Goto, TypeOK, ControlType
        <3>2. ASSUME NEW k \in DOMAIN firings, NEW outcome \in Outcomes, Rate(k, outcome)
              PROVE  Len(firings') = Len(firings)
            BY <1>1, <3>2 DEF Rate, TypeOK, StoreType
        <3> QED
            BY <1>1, <3>1, <3>2, LogGrows
    <2>3. FiringsOf(firings', r) = FiringsOf(firings, r)
        BY <1>2, <2>2 DEF FiringsOf
    <2> QED
        BY <1>6, <2>1, <2>3
<1> QED
    BY <1>7, <1>8, <1>9, <1>10, WhoActs

\* The cold-pause under concurrency: hooks that scored a row from snapshots taken
\* before it reached the limit can still fire it, each at most twice, so a row
\* nobody rates overruns the limit by less than twice the number of hooks.
THEOREM OverrunBounded ==
    ASSUME IsFiniteSet(Hooks)
    PROVE  Spec => []PauseOverrunBounded
<1>1. Init => PauseInv
    <2> SUFFICES ASSUME Init, NEW r \in Rows
                 PROVE  Weight(r) < NUnratedPause + 2 * Cardinality(Hooks)
        BY InitType DEF PauseInv
    <2>1. FiringsOf(firings, r) = {} /\ MayFire(r) = {} /\ MayFireTwice(r) = {}
        BY DEF Init, FiringsOf, MayFire, MayFireTwice
    <2>2. Weight(r) = 0 /\ Cardinality(Hooks) \in Nat
        BY <2>1, FS_EmptySet, FS_CardinalityType DEF Weight
    <2> QED
        BY <2>2, ScorerAssumption
<1>2. PauseInv /\ [Next]_vars => PauseInv'
    BY PauseStep
<1>3. PauseInv => PauseOverrunBounded
    <2> SUFFICES ASSUME PauseInv, NEW r \in Rows, Rated(firings, r) = {}
                 PROVE  Cardinality(FiringsOf(firings, r))
                            < NUnratedPause + 2 * Cardinality(Hooks)
        BY DEF PauseOverrunBounded
    <2>1. TypeOK /\ Weight(r) < NUnratedPause + 2 * Cardinality(Hooks)
        BY DEF PauseInv
    <2> QED
        BY <2>1, WeightParts, ScorerAssumption DEF Weight
<1> QED
    BY <1>1, <1>2, <1>3, PTL DEF Spec

-----------------------------------------------------------------------------
(* The deduplication contract of the disclosure path, whatever fails, when   *)
(* the hooks of one session run one after the other                          *)

\* Floors that hooks and the file hold stay within the log.
LEMMA FloorsStep ==
    ASSUME TypeOK, FloorsInLog, [Next]_vars
    PROVE  FloorsInLog'
<1>1. /\ Len(firings) \in Nat
      /\ Len(firings') \in Nat
      /\ Len(firings') >= Len(firings)
    BY LogGrows
<1>2. TypeOK'
    BY StepType
<1> USE DisclosureAssumption
    DEF TypeOK, StoreType, BriefType, FloorsInLog, NoMarkers, storeVars, briefVars
<1>3. CASE UNCHANGED <<markers, floorArg, loaded>>
    BY <1>1, <1>2, <1>3
<1>4. ASSUME NEW h \in Hooks, ReadMax(h)
      PROVE  FloorsInLog'
    BY <1>1, <1>2, <1>4 DEF ReadMax
<1>5. ASSUME NEW h \in Hooks, LoadMarkers(h)
      PROVE  FloorsInLog'
    BY <1>1, <1>2, <1>5 DEF LoadMarkers, ReadableMarkers
<1>6. ASSUME NEW h \in Hooks, WriteMarkers(h)
      PROVE  FloorsInLog'
    BY <1>1, <1>2, <1>6 DEF WriteMarkers
<1>7. ASSUME NEW h \in Hooks, MarkerFails(h)
      PROVE  FloorsInLog'
    BY <1>1, <1>2, <1>7 DEF MarkerFails
<1>8. ASSUME NEW h \in Hooks, ReadFloor(h)
      PROVE  FloorsInLog'
    <2>1. PICK file \in {markers, NoMarkers} : floorArg' = [floorArg EXCEPT ![h] = file[Owner[h]]]
        BY <1>8 DEF ReadFloor, ReadableMarkers
    <2>2. file[Owner[h]] \in Nat /\ file[Owner[h]] <= Len(firings)
        BY <1>1, <2>1
    <2>3. UNCHANGED <<firings, markers, loaded>>
        BY <1>8 DEF ReadFloor
    <2> QED
        BY <2>1, <2>2, <2>3
<1>9. ASSUME NEW h \in Hooks, Dedup(h)
      PROVE  FloorsInLog'
    BY <1>1, <1>2, <1>9 DEF Dedup
<1>10. ASSUME NEW h \in Hooks, Reset(h), UNCHANGED markers
       PROVE  FloorsInLog'
    BY <1>1, <1>2, <1>10 DEF Reset
<1>11. \/ UNCHANGED <<markers, floorArg, loaded>>
       \/ \E h \in Hooks : \/ ReadMax(h) \/ LoadMarkers(h) \/ WriteMarkers(h)
                           \/ MarkerFails(h) \/ ReadFloor(h) \/ Dedup(h)
                           \/ Reset(h) /\ UNCHANGED markers
    BY DEF Next, HookStep, Disclose, BoundReached, vars, Begin, Compact, Abort, Match,
           Score, InsertBatch, EmitBatch, FallBack, Refire, EmitRefired, WriteDecisions,
           Inject, Rate, Retire, ScoreVerb, SetTrigger
<1> QED
    BY <1>3, <1>4, <1>5, <1>6, <1>7, <1>8, <1>9, <1>10, <1>11

\* A record that dedup finds stays within its reach, until the session itself
\* writes a marker.
LEMMA RecordedStep ==
    ASSUME TypeOK, [Next]_vars, NEW s \in Sessions, NEW r \in Rows, Recorded(s, r),
           \A h \in Hooks : WriteMarkers(h) => Owner[h] # s
    PROVE  Recorded(s, r)'
<1>1. \A floor : FiredAfter(s, r, floor) => CountedNext(s, r, floor)
    BY FiredMonotone
<1>2. FiredAfter(s, r, markers[s]) /\ FiredAfter(s, r, 0)
    <2>1. FiredAfter(s, r, markers[s])
        BY DEF Recorded
    <2>2. DOMAIN firings \subseteq Nat /\ markers[s] \in Nat
        BY DEF TypeOK, StoreType
    <2> QED
        BY <2>1, <2>2 DEF FiredAfter
<1>3. CountedNext(s, r, markers[s]) /\ CountedNext(s, r, 0)
    BY <1>1, <1>2
<1>4. \A g \in Hooks :
        /\ pc[g] = "write" /\ Owner[g] # s => CountedNext(s, r, loaded[g][s])
        /\ pc[g] = "dedup" /\ Owner[g] = s => CountedNext(s, r, floorArg[g])
    BY <1>1 DEF Recorded
<1>5. /\ CountedNext(s, r, markers'[s])
      /\ \A g \in Hooks :
           /\ pc'[g] = "write" /\ Owner[g] # s => CountedNext(s, r, loaded'[g][s])
           /\ pc'[g] = "dedup" /\ Owner[g] = s => CountedNext(s, r, floorArg'[g])
    <2> DEFINE Kept ==
            /\ CountedNext(s, r, markers'[s])
            /\ \A g \in Hooks :
                 /\ pc'[g] = "write" /\ Owner[g] # s => CountedNext(s, r, loaded'[g][s])
                 /\ pc'[g] = "dedup" /\ Owner[g] = s => CountedNext(s, r, floorArg'[g])
    <2> USE DEF TypeOK, StoreType, ControlType, BriefType, NoMarkers, storeVars, briefVars, Goto
    <2>1. ASSUME NEW h \in Hooks, LoadMarkers(h)
          PROVE  Kept
        <3>1. PICK file \in {markers, NoMarkers} : loaded' = [loaded EXCEPT ![h] = file]
            BY <2>1 DEF LoadMarkers, ReadableMarkers
        <3>2. /\ pc' = [pc EXCEPT ![h] = "write"]
              /\ UNCHANGED <<markers, floorArg>>
            BY <2>1 DEF LoadMarkers
        <3>3. CountedNext(s, r, file[s])
            BY <1>3, <3>1
        <3>4. /\ loaded'[h][s] = file[s] /\ pc'[h] = "write"
              /\ \A g \in Hooks \ {h} : loaded'[g] = loaded[g] /\ pc'[g] = pc[g]
            BY <3>1, <3>2
        <3> QED
            BY <1>3, <1>4, <3>2, <3>3, <3>4
    <2>2. ASSUME NEW h \in Hooks, WriteMarkers(h)
          PROVE  Kept
        BY <1>3, <1>4, <2>2 DEF WriteMarkers
    <2>3. ASSUME NEW h \in Hooks, MarkerFails(h)
          PROVE  Kept
        BY <1>3, <1>4, <2>3 DEF MarkerFails
    <2>4. ASSUME NEW h \in Hooks, ReadFloor(h)
          PROVE  Kept
        <3>1. PICK file \in {markers, NoMarkers} :
                 floorArg' = [floorArg EXCEPT ![h] = file[Owner[h]]]
            BY <2>4 DEF ReadFloor, ReadableMarkers
        <3>2. /\ pc' = [pc EXCEPT ![h] = "dedup"]
              /\ UNCHANGED <<markers, loaded>>
            BY <2>4 DEF ReadFloor
        <3>3. CountedNext(s, r, file[s])
            BY <1>3, <3>1
        <3>4. /\ floorArg'[h] = file[Owner[h]] /\ pc'[h] = "dedup"
              /\ \A g \in Hooks \ {h} : floorArg'[g] = floorArg[g] /\ pc'[g] = pc[g]
            BY <3>1, <3>2
        <3> QED
            BY <1>3, <1>4, <3>2, <3>3, <3>4
    <2>5. ASSUME NEW h \in Hooks, UNCHANGED markers,
                 pc'[h] \notin {"write", "dedup"},
                 \A g \in Hooks \ {h} : /\ pc'[g] = pc[g]
                                        /\ loaded'[g] = loaded[g]
                                        /\ floorArg'[g] = floorArg[g]
          PROVE  Kept
        BY <1>3, <1>4, <2>5
    <2>6. CASE UNCHANGED <<markers, pc, workVars, briefVars, worldVars>>
        BY <1>3, <1>4, <2>6
    <2>7. ASSUME NEW h \in Hooks, HookActs(h),
                 ~LoadMarkers(h), ~WriteMarkers(h), ~MarkerFails(h), ~ReadFloor(h)
          PROVE  UNCHANGED markers /\ pc'[h] \notin {"write", "dedup"}
        BY <2>7 DEF HookActs, HookStep, Disclose, Begin, Compact, Abort, Reset, ReadMax,
               Match, Dedup, Score, InsertBatch, EmitBatch, FallBack, Refire,
               EmitRefired, WriteDecisions, Inject
    <2> QED
        BY <2>1, <2>2, <2>3, <2>4, <2>5, <2>6, <2>7, WhoActs, Locality
<1> QED
    BY <1>5 DEF CountedNext, Recorded, FiredAfter

\* A session no hook belongs to never has a context.
LEMMA WindowOwnedStep ==
    ASSUME TypeOK, WindowOwned, [Next]_vars
    PROVE  WindowOwned'
<1>1. ASSUME NEW h \in Hooks, HookActs(h)
      PROVE  WindowOwned'
    BY <1>1, Locality DEF WindowOwned
<1>2. CASE UNCHANGED window
    BY <1>2 DEF WindowOwned
<1> QED
    BY <1>1, <1>2, WhoActs DEF worldVars

\* Another hook's step leaves what is known of hook g.
LEMMA HookInvOthers ==
    ASSUME TypeOK, OneHookPerSession, [Next]_vars,
           NEW h \in Hooks, HookActs(h), NEW g \in Hooks \ {h}, HookInv(g)
    PROVE  HookInv(g)'
<1>1. /\ pc'[g] = pc[g] /\ todo'[g] = todo[g] /\ lines'[g] = lines[g]
      /\ refired'[g] = refired[g]
    BY Locality
<1>2. Owner[g] \in Sessions /\ Owner[g] # Owner[h]
    BY DisclosureAssumption DEF OneHookPerSession
<1>3. window'[Owner[g]] = window[Owner[g]]
    BY <1>2, Locality
<1>4. ASSUME NEW r \in Rows, Recorded(Owner[g], r), pc[g] # "write"
      PROVE  Recorded(Owner[g], r)'
    <2>1. ASSUME NEW k \in Hooks, WriteMarkers(k)
          PROVE  Owner[k] # Owner[g]
        BY <1>4, <2>1 DEF WriteMarkers, OneHookPerSession
    <2> QED
        BY <1>2, <1>4, <2>1, RecordedStep
<1>5. BriefIsBlank(g)' /\ OnceWithLines(g)' /\ ChosenIsUnseen(g)'
    BY <1>1, <1>3 DEF HookInv, BriefIsBlank, OnceWithLines, ChosenIsUnseen
<1>6. SeenIsRecorded(g)'
    <2>1. pc[g] = "write" => window[Owner[g]] = NoLines /\ lines[g] = NoLines
        BY DEF HookInv, BriefIsBlank, Briefing
    <2> QED
        BY <1>1, <1>3, <1>4, <2>1 DEF HookInv, SeenIsRecorded, NoLines
<1>7. InsertedIsRecorded(g)'
    BY <1>1, <1>4 DEF HookInv, InsertedIsRecorded, TypeOK, WorkType
<1> QED
    BY <1>5, <1>6, <1>7 DEF HookInv

\* So do the verbs.
LEMMA HookInvVerbs ==
    ASSUME TypeOK, [Next]_vars, NEW g \in Hooks, HookInv(g),
           UNCHANGED <<markers, pc, workVars, briefVars, worldVars>>
    PROVE  HookInv(g)'
<1> USE DEF workVars, briefVars, worldVars
<1>1. ASSUME NEW r \in Rows, Recorded(Owner[g], r)
      PROVE  Recorded(Owner[g], r)'
    <2>1. Owner[g] \in Sessions
        BY DisclosureAssumption
    <2>2. \A floor : FiredAfter(Owner[g], r, floor) => CountedNext(Owner[g], r, floor)
        BY FiredMonotone
    <2> QED
        BY <1>1, <2>2 DEF Recorded, CountedNext, FiredAfter
<1>2. BriefIsBlank(g)' /\ OnceWithLines(g)' /\ ChosenIsUnseen(g)'
    BY DEF HookInv, BriefIsBlank, OnceWithLines, ChosenIsUnseen
<1>3. SeenIsRecorded(g)'
    BY <1>1 DEF HookInv, SeenIsRecorded
<1>4. InsertedIsRecorded(g)'
    BY <1>1 DEF HookInv, InsertedIsRecorded, TypeOK, WorkType
<1> QED
    BY <1>2, <1>3, <1>4 DEF HookInv

LEMMA ZeroAdds == \A a \in Nat : a <= 1 => a + 0 <= 1
    OBVIOUS

LEMMA SumBound == \A a, b \in Nat : a + b <= 1 => a + b \in Nat /\ a <= 1 /\ a + 0 <= 1
    OBVIOUS

\* The obligations of a hook's own step, by what the step does.
LEMMA HookInvOwn ==
    ASSUME OnceInv, OneHookPerSession, [Next]_vars, NEW h \in Hooks, HookActs(h)
    PROVE  HookInv(h)'
<1> DEFINE s == Owner[h]
<1>1. /\ TypeOK
      /\ TypeOK'
      /\ HookInv(h)
      /\ s \in Sessions
    BY StepType, DisclosureAssumption DEF OnceInv
<1>2. ASSUME NEW r \in Rows, Recorded(s, r), ~WriteMarkers(h)
      PROVE  Recorded(s, r)'
    <2>1. ASSUME NEW k \in Hooks, WriteMarkers(k)
          PROVE  Owner[k] # s
        BY <1>2, <2>1 DEF OneHookPerSession
    <2> QED
        BY <1>1, <1>2, <2>1, RecordedStep
<1>3. ASSUME window'[s] = window[s], lines'[h] = lines[h], ~WriteMarkers(h)
      PROVE  SeenIsRecorded(h)' /\ OnceWithLines(h)'
    BY <1>1, <1>2, <1>3 DEF HookInv, SeenIsRecorded, OnceWithLines
<1> USE DEF Goto, TypeOK, ControlType, WorkType, WorldType
<1>4. ASSUME NEW event \in DOMAIN FlowsOf, Begin(h, event)
      PROVE  HookInv(h)'
    <2>1. /\ window' = window /\ lines' = lines /\ pc'[h] = "match" /\ pc[h] = "idle"
        BY <1>1, <1>4 DEF Begin, worldVars
    <2> QED
        BY <1>1, <1>3, <2>1
        DEF HookInv, BriefIsBlank, Briefing, ChosenIsUnseen, Choosing,
            InsertedIsRecorded, WriteMarkers
<1>5. ASSUME Compact(h)
      PROVE  HookInv(h)'
    <2>1. /\ window'[s] = NoLines /\ lines'[h] = NoLines /\ pc'[h] = "readmax"
        BY <1>1, <1>5 DEF Compact, HookInv, BriefIsBlank
    <2> QED
        BY <1>1, <2>1
        DEF HookInv, BriefIsBlank, Briefing, ChosenIsUnseen, Choosing,
            InsertedIsRecorded, SeenIsRecorded, OnceWithLines, NoLines
<1>6. ASSUME Abort(h)
      PROVE  HookInv(h)'
    <2>1. /\ window'[s] = window[s] /\ lines'[h] = NoLines /\ pc'[h] = "idle"
          /\ ~WriteMarkers(h)
        BY <1>1, <1>6 DEF Abort, Reset, WriteMarkers, worldVars
    <2>2. SeenIsRecorded(h)'
        BY <1>1, <1>2, <2>1 DEF HookInv, SeenIsRecorded, NoLines
    <2>3. OnceWithLines(h)'
        <3> SUFFICES ASSUME NEW r \in Rows
                     PROVE  Len(window[s][r]) + Len(<<>>) <= 1
            BY <2>1 DEF OnceWithLines, NoLines
        <3>1. Len(window[s][r]) \in Nat /\ Len(lines[h][r]) \in Nat /\ Len(<<>>) = 0
            BY <1>1
        <3>2. Len(window[s][r]) + Len(lines[h][r]) <= 1
            BY <1>1 DEF HookInv, OnceWithLines
        <3> QED
            BY <3>1, <3>2, SumBound, Zenon
    <2> QED
        BY <2>1, <2>2, <2>3
        DEF HookInv, BriefIsBlank, Briefing, ChosenIsUnseen, Choosing, InsertedIsRecorded
<1>7. ASSUME \/ ReadMax(h) \/ LoadMarkers(h) \/ WriteMarkers(h) \/ MarkerFails(h)
      PROVE  HookInv(h)'
    <2>1. /\ window'[s] = window[s] /\ lines'[h] = lines[h]
          /\ pc[h] \in Briefing /\ pc'[h] \in {"load", "write", "match"}
        BY <1>1, <1>7
        DEF ReadMax, LoadMarkers, WriteMarkers, MarkerFails, Briefing, workVars, worldVars
    <2>2. window[s] = NoLines /\ lines[h] = NoLines
        BY <1>1, <2>1 DEF HookInv, BriefIsBlank
    <2> QED
        BY <2>1, <2>2
        DEF HookInv, BriefIsBlank, Briefing, ChosenIsUnseen, Choosing, NoLines,
            InsertedIsRecorded, SeenIsRecorded, OnceWithLines
<1>9. ASSUME \/ Match(h) \/ ReadFloor(h) \/ WriteDecisions(h)
      PROVE  HookInv(h)'
    <2>1. /\ window'[s] = window[s] /\ lines'[h] = lines[h]
          /\ pc'[h] \in {"floor", "dedup", "print", "match"}
          /\ ~WriteMarkers(h)
        BY <1>1, <1>9
        DEF Match, ReadFloor, WriteDecisions, WriteMarkers, workVars, worldVars
    <2> QED
        BY <1>1, <1>3, <2>1
        DEF HookInv, BriefIsBlank, Briefing, ChosenIsUnseen, Choosing, InsertedIsRecorded
<1>10. ASSUME Dedup(h)
      PROVE  HookInv(h)'
    <2>1. /\ window'[s] = window[s] /\ lines'[h] = lines[h]
          /\ pc[h] = "dedup" /\ pc'[h] = "score"
          /\ todo'[h] = {r \in todo[h] : ~FiredAfter(s, r, floorArg[h])}
          /\ ~WriteMarkers(h)
        BY <1>1, <1>10 DEF Dedup, WriteMarkers, worldVars
    <2>2. ASSUME NEW r \in todo'[h]
          PROVE  window[s][r] = <<>> /\ lines[h][r] = <<>>
        <3>1. r \in Rows /\ ~Recorded(s, r)
            BY <1>1, <2>1, <2>2 DEF Recorded
        <3> QED
            BY <1>1, <3>1 DEF HookInv, SeenIsRecorded
    <2> QED
        BY <1>3, <2>1, <2>2
        DEF HookInv, BriefIsBlank, Briefing, ChosenIsUnseen, InsertedIsRecorded
<1>11. ASSUME \/ Score(h) \/ FallBack(h)
      PROVE  HookInv(h)'
    <2>1. /\ window'[s] = window[s] /\ lines'[h] = lines[h]
          /\ pc[h] \in Choosing /\ pc'[h] \in {"insert", "refire", "decide"}
          /\ todo'[h] \subseteq todo[h]
          /\ ~WriteMarkers(h)
        BY <1>1, <1>11
        DEF Score, FallBack, WriteMarkers, Choosing, workVars, worldVars
    <2> QED
        BY <1>1, <1>3, <2>1
        DEF HookInv, BriefIsBlank, Briefing, ChosenIsUnseen, InsertedIsRecorded
<1>12. ASSUME InsertBatch(h)
      PROVE  HookInv(h)'
    <2>1. /\ window'[s] = window[s] /\ lines'[h] = lines[h] /\ todo'[h] = todo[h]
          /\ pc[h] = "insert" /\ pc'[h] = "readback"
          /\ UNCHANGED <<markers, floorArg, loaded>>
          /\ \A g \in Hooks : pc'[g] \in {"write", "dedup"} => pc'[g] = pc[g]
          /\ ~WriteMarkers(h)
        BY <1>1, <1>12 DEF InsertBatch, WriteMarkers, workVars, briefVars, worldVars
    <2>2. ASSUME NEW r \in todo[h]
          PROVE  Recorded(s, r)'
        <3>1. PICK i \in DOMAIN firings' :
                 i > Len(firings) /\ firings'[i].session = s /\ firings'[i].row = r
            BY <1>1, <1>12, <2>2, BatchAppends
        <3>2. /\ markers[s] <= Len(firings)
              /\ \A g \in Hooks : loaded[g][s] <= Len(firings) /\ floorArg[g] <= Len(firings)
            BY <1>1 DEF OnceInv, FloorsInLog
        <3>3. \A floor \in Nat : floor <= Len(firings) => CountedNext(s, r, floor)
            <4>1. i \in Nat /\ Len(firings) \in Nat
                <5>1. firings \in Seq(FiringRecord) /\ firings' \in Seq(FiringRecord)
                    BY <1>1 DEF StoreType, FiringRecord
                <5>2. DOMAIN firings' = 1..Len(firings') /\ Len(firings) \in Nat
                    BY <5>1
                <5> QED
                    BY <3>1, <5>2
            <4> QED
                BY <3>1, <4>1 DEF CountedNext
        <3> QED
            BY <1>1, <2>1, <3>2, <3>3
            DEF Recorded, CountedNext, FiredAfter, StoreType, BriefType
    <2> QED
        BY <1>1, <1>3, <2>1, <2>2
        DEF HookInv, BriefIsBlank, Briefing, ChosenIsUnseen, Choosing, InsertedIsRecorded
<1>13. ASSUME NEW q \in Rows, Refire(h, q)
      PROVE  HookInv(h)'
    <2>1. /\ window'[s] = window[s] /\ lines'[h] = lines[h] /\ todo'[h] = todo[h]
          /\ pc[h] = "refire" /\ pc'[h] = "remax"
          /\ q \in todo[h] /\ refired'[h] = q
          /\ UNCHANGED <<markers, floorArg, loaded>>
          /\ \A g \in Hooks : pc'[g] \in {"write", "dedup"} => pc'[g] = pc[g]
          /\ ~WriteMarkers(h)
        BY <1>1, <1>13 DEF Refire, WriteMarkers, briefVars, worldVars
    <2>2. Recorded(s, q)'
        <3>1. /\ Len(firings') = Len(firings) + 1
              /\ firings'[Len(firings')].session = s
              /\ firings'[Len(firings')].row = q
            BY <1>1, <1>13, RefireAppends
        <3>2. /\ markers[s] <= Len(firings)
              /\ \A g \in Hooks : loaded[g][s] <= Len(firings) /\ floorArg[g] <= Len(firings)
            BY <1>1 DEF OnceInv, FloorsInLog
        <3>3. \A floor \in Nat : floor <= Len(firings) => CountedNext(s, q, floor)
            <4>1. Len(firings) \in Nat /\ Len(firings') \in DOMAIN firings'
                BY <1>1, <3>1 DEF StoreType
            <4> QED
                BY <3>1, <4>1 DEF CountedNext
        <3> QED
            BY <1>1, <2>1, <3>2, <3>3
            DEF Recorded, CountedNext, FiredAfter, StoreType, BriefType
    <2> QED
        BY <1>1, <1>3, <2>1, <2>2
        DEF HookInv, BriefIsBlank, Briefing, ChosenIsUnseen, Choosing, InsertedIsRecorded
<1>14. ASSUME EmitBatch(h)
      PROVE  HookInv(h)'
    <2>1. /\ window'[s] = window[s]
          /\ pc[h] = "readback" /\ pc'[h] = "decide"
          /\ ~WriteMarkers(h)
        BY <1>1, <1>14 DEF EmitBatch, WriteMarkers
    <2>2. \A r \in Rows : \/ lines'[h][r] = lines[h][r]
                          \/ r \in todo[h] /\ \E id : lines'[h][r] = Append(lines[h][r], id)
        <3>1. PICK id \in [todo[h] -> DOMAIN firings] :
                lines' = [lines EXCEPT ![h] = [r \in Rows |-> IF r \in todo[h]
                                                             THEN Append(@[r], id[r]) ELSE @[r]]]
            BY <1>14 DEF EmitBatch
        <3> QED
            BY <1>1, <3>1
    <2>3. \A r \in todo[h] : /\ window[s][r] = <<>> /\ lines[h][r] = <<>>
                             /\ Recorded(s, r)
        BY <1>1, <2>1 DEF HookInv, ChosenIsUnseen, Choosing, InsertedIsRecorded
    <2>4. SeenIsRecorded(h)'
        BY <1>1, <1>2, <2>1, <2>2, <2>3 DEF HookInv, SeenIsRecorded
    <2>5. OnceWithLines(h)'
        <3> SUFFICES ASSUME NEW r \in Rows
                     PROVE  Len(window[s][r]) + Len(lines'[h][r]) <= 1
            BY <2>1 DEF OnceWithLines
        <3>1. CASE lines'[h][r] = lines[h][r]
            BY <1>1, <3>1 DEF HookInv, OnceWithLines
        <3>2. CASE r \in todo[h] /\ \E id : lines'[h][r] = Append(lines[h][r], id)
            <4>1. \A id : Len(<<>>) + Len(Append(<<>>, id)) <= 1
                OBVIOUS
            <4> QED
                BY <2>3, <3>2, <4>1, Zenon
        <3> QED
            BY <2>2, <3>1, <3>2
    <2> QED
        BY <2>1, <2>4, <2>5
        DEF HookInv, BriefIsBlank, Briefing, ChosenIsUnseen, Choosing, InsertedIsRecorded
<1>15. ASSUME EmitRefired(h)
      PROVE  HookInv(h)'
    <2> DEFINE q == refired[h]
    <2>1. /\ window'[s] = window[s]
          /\ pc[h] = "remax" /\ pc'[h] \in {"decide", "refire"}
          /\ todo'[h] = todo[h] \ {q}
          /\ ~WriteMarkers(h)
        BY <1>1, <1>15 DEF EmitRefired, WriteMarkers
    <2>2. /\ q \in todo[h] /\ q \in Rows
          /\ window[s][q] = <<>> /\ lines[h][q] = <<>>
          /\ Recorded(s, q)
        BY <1>1, <2>1 DEF HookInv, ChosenIsUnseen, Choosing, InsertedIsRecorded
    <2>3. /\ \A r \in Rows \ {q} : lines'[h][r] = lines[h][r]
          /\ lines'[h][q] = Append(<<>>, Len(firings))
        BY <1>1, <1>15, <2>2 DEF EmitRefired
    <2>4. SeenIsRecorded(h)'
        BY <1>1, <1>2, <2>1, <2>2, <2>3 DEF HookInv, SeenIsRecorded
    <2>5. OnceWithLines(h)'
        <3>1. \A id : Len(<<>>) + Len(Append(<<>>, id)) <= 1
            OBVIOUS
        <3> QED
            BY <1>1, <2>1, <2>2, <2>3, <3>1 DEF HookInv, OnceWithLines
    <2>6. ChosenIsUnseen(h)'
        BY <1>1, <2>1, <2>3 DEF HookInv, ChosenIsUnseen, Choosing
    <2> QED
        BY <2>1, <2>4, <2>5, <2>6 DEF HookInv, BriefIsBlank, Briefing, InsertedIsRecorded
<1>16. ASSUME Inject(h)
      PROVE  HookInv(h)'
    <2>1. /\ \A r \in Rows : window'[s][r] = window[s][r] \o lines[h][r]
          /\ lines'[h] = NoLines /\ pc'[h] = "idle"
          /\ ~WriteMarkers(h)
        BY <1>1, <1>16 DEF Inject, Reset, WriteMarkers
    <2>2. \A r \in Rows : /\ window[s][r] \in Seq(Nat)
                          /\ lines[h][r] \in Seq(Nat)
        BY <1>1
    <2>3. SeenIsRecorded(h)'
        <3>1. <<>> \o <<>> = <<>>
            OBVIOUS
        <3>2. \A r \in Rows : window'[s][r] # <<>> => window[s][r] # <<>> \/ lines[h][r] # <<>>
            BY <2>1, <3>1
        <3> QED
            BY <1>1, <1>2, <2>1, <3>2 DEF HookInv, SeenIsRecorded, NoLines
    <2>4. OnceWithLines(h)'
        <3> SUFFICES ASSUME NEW r \in Rows
                     PROVE  Len(window'[s][r]) + Len(<<>>) <= 1
            BY <2>1 DEF OnceWithLines, NoLines
        <3>1. Len(window'[s][r]) = Len(window[s][r]) + Len(lines[h][r])
            <4>1. \A x, y \in Seq(Nat) : Len(x \o y) = Len(x) + Len(y)
                BY ConcatProperties
            <4> QED
                BY <2>1, <2>2, <4>1, Zenon
        <3>2. Len(window[s][r]) + Len(lines[h][r]) <= 1 /\ Len(<<>>) = 0
            BY <1>1 DEF HookInv, OnceWithLines
        <3>3. Len(window[s][r]) \in Nat /\ Len(lines[h][r]) \in Nat
            BY <2>2
        <3>4. Len(window'[s][r]) <= 1 /\ Len(window'[s][r]) \in Nat
            BY <3>1, <3>2, <3>3, SumBound, Zenon
        <3> QED
            BY <3>2, <3>4, ZeroAdds, Zenon
    <2> QED
        BY <2>1, <2>3, <2>4
        DEF HookInv, BriefIsBlank, Briefing, ChosenIsUnseen, Choosing, InsertedIsRecorded
<1> QED
    BY <1>4, <1>5, <1>6, <1>7, <1>9, <1>10, <1>11, <1>12, <1>13, <1>14, <1>15, <1>16
    DEF HookActs, HookStep, Disclose

LEMMA OnceInit == Init => OnceInv
<1> SUFFICES ASSUME Init
             PROVE  OnceInv
    OBVIOUS
<1>1. TypeOK
    BY InitType
<1>2. FloorsInLog
    BY DEF Init, FloorsInLog, NoMarkers
<1>3. WindowOwned
    BY DEF Init, WindowOwned
<1>4. ASSUME NEW h \in Hooks
      PROVE  HookInv(h)
    BY DisclosureAssumption
    DEF Init, HookInv, BriefIsBlank, Briefing, SeenIsRecorded, OnceWithLines, NoLines,
        ChosenIsUnseen, Choosing, InsertedIsRecorded
<1> QED
    BY <1>1, <1>2, <1>3, <1>4 DEF OnceInv

LEMMA OnceStep == OneHookPerSession /\ OnceInv /\ [Next]_vars => OnceInv'
<1> SUFFICES ASSUME OneHookPerSession, OnceInv, [Next]_vars
             PROVE  OnceInv'
    OBVIOUS
<1>1. TypeOK' /\ FloorsInLog' /\ WindowOwned'
    BY StepType, FloorsStep, WindowOwnedStep DEF OnceInv
<1>2. ASSUME NEW g \in Hooks
      PROVE  HookInv(g)'
    <2>1. ASSUME NEW h \in Hooks, HookActs(h), g # h
          PROVE  HookInv(g)'
        BY <2>1, HookInvOthers DEF OnceInv
    <2>2. CASE HookActs(g)
        BY <2>2, HookInvOwn
    <2>3. CASE UNCHANGED <<markers, pc, workVars, briefVars, worldVars>>
        BY <2>3, HookInvVerbs DEF OnceInv
    <2> QED
        BY <2>1, <2>2, <2>3, WhoActs
<1> QED
    BY <1>1, <1>2 DEF OnceInv

\* The invariant gives the two promises for every session: those with a hook by
\* HookInv, the others because their context is empty.
LEMMA OnceInvImplies == OnceInv => AtMostOncePerWindow /\ DisclosedIsLogged
<1> SUFFICES ASSUME OnceInv, NEW s \in Sessions, NEW r \in Rows
             PROVE  /\ Len(window[s][r]) <= 1
                    /\ window[s][r] # <<>> => FiredAfter(s, r, markers[s])
    BY DEF AtMostOncePerWindow, DisclosedIsLogged
<1>1. CASE \A h \in Hooks : Owner[h] # s
    BY <1>1 DEF OnceInv, WindowOwned, NoLines
<1>2. ASSUME NEW h \in Hooks, Owner[h] = s
      PROVE  /\ Len(window[s][r]) <= 1
             /\ window[s][r] # <<>> => FiredAfter(s, r, markers[s])
    <2>1. Len(window[s][r]) \in Nat /\ Len(lines[h][r]) \in Nat
        BY DEF OnceInv, TypeOK, WorkType, WorldType
    <2>2. Len(window[s][r]) + Len(lines[h][r]) <= 1
        BY <1>2 DEF OnceInv, HookInv, OnceWithLines
    <2>3. window[s][r] # <<>> => FiredAfter(s, r, markers[s])
        BY <1>2 DEF OnceInv, HookInv, SeenIsRecorded, Recorded
    <2>4. Len(window[s][r]) <= 1
        BY <2>1, <2>2, SumBound, Zenon
    <2> QED
        BY <2>3, <2>4
<1> QED
    BY <1>1, <1>2

\* A session's context never holds two lines for one row, whatever fails and
\* however the hooks of different sessions interleave in the store and in the
\* marker file, provided the hooks of one session run one after the other.
THEOREM OncePerWindow ==
    ASSUME OneHookPerSession
    PROVE  Spec => []AtMostOncePerWindow
<1>1. Init => OnceInv
    BY OnceInit
<1>2. OnceInv /\ [Next]_vars => OnceInv'
    BY OnceStep
<1>3. OnceInv => AtMostOncePerWindow
    BY OnceInvImplies
<1> QED
    BY <1>1, <1>2, <1>3, PTL DEF Spec

\* Under the same proviso, every row in a context is one dedup will find fired.
THEOREM DisclosedLogged ==
    ASSUME OneHookPerSession
    PROVE  Spec => []DisclosedIsLogged
<1>1. Init => OnceInv
    BY OnceInit
<1>2. OnceInv /\ [Next]_vars => OnceInv'
    BY OnceStep
<1>3. OnceInv => DisclosedIsLogged
    BY OnceInvImplies
<1> QED
    BY <1>1, <1>2, <1>3, PTL DEF Spec

-----------------------------------------------------------------------------
(* Labels name their firing *)

SoleHook == \A g, h \in Hooks : g = h

\* The fallback labels a line with the last id of the whole log: it is only safe
\* where no other hook logs anything, so either there is no other or nothing
\* sends a hook to the fallback.
LabelsAreSafe ==
    /\ OneHookPerSession
    /\ SoleHook \/ {"batch", "readback"} \cap Faults = {}

Names(i, s, r) == i \in DOMAIN firings /\ firings[i].row = r /\ firings[i].session = s

LinesNamed(h) == \A r \in Rows : \A k \in DOMAIN lines[h][r] : Names(lines[h][r][k], Owner[h], r)

\* The batch a hook reads back is the latest its session has in the log: it is
\* the block of ids after b, as long as the rows it holds.
LatestBatch(h, b) ==
    LET last == b + Cardinality(todo[h]) IN
    /\ last <= Len(firings)
    /\ \A i \in 1..Len(firings) : i > last => firings[i].session # Owner[h]
    /\ \A r \in todo[h] : \E i \in (b + 1)..last : Names(i, Owner[h], r)

FallbackInv(h) ==
    /\ pc[h] = "readback" => \E b \in Nat : LatestBatch(h, b)
    /\ pc[h] \in {"refire", "remax"} => SoleHook
    /\ pc[h] = "remax" => Names(Len(firings), Owner[h], refired[h])

LabelInv ==
    /\ TypeOK
    /\ LabelsNameTheirFiring
    /\ \A h \in Hooks : LinesNamed(h) /\ FallbackInv(h)

LEMMA NamesStay ==
    ASSUME TypeOK, [Next]_vars, NEW i, NEW s, NEW r, Names(i, s, r)
    PROVE  Names(i, s, r)'
<1>1. DOMAIN firings = 1..Len(firings) /\ DOMAIN firings' = 1..Len(firings')
    BY StepType DEF TypeOK, StoreType
<1> QED
    BY <1>1, LogGrows DEF Names

\* A step of another session's hook, or of a verb, logs nothing for session s.
LEMMA OthersLogElsewhere ==
    ASSUME TypeOK, [Next]_vars, NEW s,
           \A g \in Hooks : HookActs(g) => Owner[g] # s
    PROVE  \A i \in 1..Len(firings') : i > Len(firings) => firings'[i].session # s
<1>1. /\ Len(firings) \in Nat /\ Len(firings') \in Nat /\ DOMAIN firings = 1..Len(firings)
      /\ DOMAIN firings' = 1..Len(firings')
    BY LogGrows, StepType DEF TypeOK, StoreType
<1>2. ASSUME NEW g \in Hooks, InsertBatch(g) \/ \E q \in Rows : Refire(g, q)
      PROVE  \A i \in 1..Len(firings') : i > Len(firings) => firings'[i].session # s
    <2>1. Owner[g] # s
        BY <1>2 DEF HookActs, HookStep, Disclose
    <2>2. Added \subseteq SessionIds(Owner[g])'
        BY <1>2, AddedFacts
    <2>3. \A i \in 1..Len(firings') : i > Len(firings) => i \in Added
        BY <1>1 DEF Added
    <2> QED
        BY <2>1, <2>2, <2>3 DEF SessionIds
<1>3. ASSUME NEW k \in DOMAIN firings, NEW outcome \in Outcomes, Rate(k, outcome)
      PROVE  Len(firings') = Len(firings)
    BY <1>1, <1>3 DEF Rate
<1>4. CASE Len(firings') = Len(firings)
    BY <1>1, <1>4
<1>5. \/ \E g \in Hooks : InsertBatch(g) \/ \E q \in Rows : Refire(g, q)
      \/ Len(firings') = Len(firings)
    BY <1>3, WhoLogs
<1> QED
    BY <1>2, <1>4, <1>5

\* So the latest batch of a session stays what it is while others act.
LEMMA LatestStays ==
    ASSUME TypeOK, [Next]_vars, NEW h \in Hooks, NEW b \in Nat, LatestBatch(h, b),
           todo'[h] = todo[h],
           \A g \in Hooks : HookActs(g) => Owner[g] # Owner[h]
    PROVE  LatestBatch(h, b)'
<1> DEFINE last == b + Cardinality(todo[h])
<1>1. \A i \in 1..Len(firings') : i > Len(firings) => firings'[i].session # Owner[h]
    BY OthersLogElsewhere
<1>2. /\ Len(firings) \in Nat /\ Len(firings') \in Nat /\ Len(firings') >= Len(firings)
      /\ \A i \in 1..Len(firings) : firings'[i].session = firings[i].session
      /\ Cardinality(todo[h]) \in Nat
    BY LogGrows, TodoCount
<1>3. /\ last <= Len(firings)
      /\ \A i \in 1..Len(firings) : i > last => firings[i].session # Owner[h]
      /\ \A r \in todo[h] : \E i \in (b + 1)..last : Names(i, Owner[h], r)
    BY DEF LatestBatch
<1>4. \A r \in todo[h] : \E i \in (b + 1)..last : Names(i, Owner[h], r)'
    BY <1>3, NamesStay
<1>5. last \in Nat
    BY <1>2
<1>6. last' = last
    OBVIOUS
<1> HIDE DEF last
<1>7. last <= Len(firings')
    BY <1>2, <1>3, <1>5
<1>8. \A i \in 1..Len(firings') : i > last => firings'[i].session # Owner[h]
    BY <1>1, <1>2, <1>3, <1>5
<1> QED
    BY <1>4, <1>6, <1>7, <1>8 DEF LatestBatch, last

\* The read-back finds every row of the latest batch.
LEMMA ReadBackFinds ==
    ASSUME TypeOK, NEW h \in Hooks, NEW b \in Nat, LatestBatch(h, b), NEW r \in todo[h]
    PROVE  ReadBack(Owner[h], r, Cardinality(todo[h])) # {}
<1> DEFINE n == Cardinality(todo[h])
           s == Owner[h]
<1>1. n \in Nat /\ Len(firings) \in Nat /\ DOMAIN firings = 1..Len(firings)
    BY TodoCount DEF TypeOK, StoreType
<1>2. PICK i \in (b + 1)..(b + n) : Names(i, s, r)
    BY DEF LatestBatch
<1> DEFINE above == {j \in SessionIds(s) : j >= i}
<1>3. above \subseteq i..(b + n)
    BY <1>1 DEF LatestBatch, SessionIds
<1>4. IsFiniteSet(i..(b + n)) /\ Cardinality(i..(b + n)) <= n
    <2>1. i \in Int /\ b + n \in Int
        BY <1>1, <1>2
    <2>2. IsFiniteSet(i..(b + n)) /\ Cardinality(i..(b + n)) = IF i > b + n THEN 0 ELSE (b + n) - i + 1
        BY <2>1, FS_Interval
    <2> QED
        BY <1>1, <1>2, <2>2
<1>5. Cardinality(above) <= n
    <2>1. Cardinality(above) <= Cardinality(i..(b + n)) /\ IsFiniteSet(above)
        BY <1>3, <1>4, FS_Subset
    <2>2. Cardinality(above) \in Nat /\ Cardinality(i..(b + n)) \in Nat
        BY <1>4, <2>1, FS_CardinalityType
    <2> QED
        BY <1>1, <1>4, <2>1, <2>2
<1>6. i \in SessionIds(s) /\ firings[i].row = r
    BY <1>2 DEF Names, SessionIds
<1> QED
    BY <1>5, <1>6 DEF ReadBack, Newest

\* What is known of a hook's way to the fallback survives its own steps ...
LEMMA FallbackOwn ==
    ASSUME LabelsAreSafe, TypeOK, [Next]_vars, NEW h \in Hooks, HookActs(h), FallbackInv(h)
    PROVE  FallbackInv(h)'
<1>1. ASSUME pc'[h] \notin {"readback", "refire", "remax"}
      PROVE  FallbackInv(h)'
    BY <1>1 DEF FallbackInv
<1>2. ASSUME InsertBatch(h)
      PROVE  FallbackInv(h)'
    <2>1. pc'[h] = "readback" /\ todo' = todo
        BY <1>2 DEF InsertBatch, Goto, workVars, TypeOK, ControlType
    <2>2. PICK order \in Bijection(1..Cardinality(todo[h]), todo[h]) :
            \A i \in 1..Cardinality(todo[h]) :
                firings'[Len(firings) + i] = Firing(Owner[h], order[i])
        BY <1>2, BatchAppends
    <2>3. /\ Len(firings') = Len(firings) + Cardinality(todo[h])
          /\ Len(firings) \in Nat /\ Cardinality(todo[h]) \in Nat
          /\ DOMAIN firings' = 1..Len(firings')
        BY <1>2, BatchAppends, TodoCount, StepType DEF TypeOK, StoreType
    <2>4. \A r \in todo[h] : \E k \in 1..Cardinality(todo[h]) : order[k] = r
        BY DEF Bijection, Surjection
    <2>5. ASSUME NEW r \in todo[h]
          PROVE  \E i \in (Len(firings) + 1)..(Len(firings) + Cardinality(todo[h])) :
                    Names(i, Owner[h], r)'
        <3>1. PICK k \in 1..Cardinality(todo[h]) : order[k] = r
            BY <2>4
        <3>2. firings'[Len(firings) + k] = Firing(Owner[h], r)
            BY <2>2, <3>1
        <3>3. /\ Len(firings) + k \in (Len(firings) + 1)..(Len(firings) + Cardinality(todo[h]))
              /\ Len(firings) + k \in DOMAIN firings'
            BY <2>3
        <3> QED
            BY <3>2, <3>3 DEF Names, Firing
    <2>6. PICK b \in Nat : b = Len(firings)
        BY <2>3
    <2>7. LatestBatch(h, b)'
        <3>1. \A i \in 1..Len(firings') : ~(i > b + Cardinality(todo[h]))
            BY <2>3, <2>6
        <3>2. b + Cardinality(todo[h]) <= Len(firings')
            BY <2>3, <2>6
        <3> QED
            BY <2>1, <2>5, <2>6, <3>1, <3>2 DEF LatestBatch
    <2> QED
        BY <2>1, <2>7 DEF FallbackInv
<1>3. ASSUME FallBack(h)
      PROVE  FallbackInv(h)'
    <2>1. pc'[h] = "refire"
        BY <1>3 DEF FallBack, Goto, TypeOK, ControlType
    <2>2. ASSUME pc[h] = "readback", NEW r \in todo[h],
                 ReadBack(Owner[h], r, Cardinality(todo[h])) = {}
          PROVE  FALSE
        BY <2>2, ReadBackFinds DEF FallbackInv
    <2>3. SoleHook
        BY <1>3, <2>2 DEF FallBack, LabelsAreSafe
    <2> QED
        BY <2>1, <2>3 DEF FallbackInv, SoleHook
<1>4. ASSUME NEW q \in Rows, Refire(h, q)
      PROVE  FallbackInv(h)'
    <2>1. pc[h] = "refire" /\ pc'[h] = "remax" /\ refired'[h] = q
        BY <1>4 DEF Refire, Goto, TypeOK, ControlType, WorkType
    <2>2. /\ Len(firings') = Len(firings) + 1 /\ Len(firings) \in Nat
          /\ firings'[Len(firings')].session = Owner[h]
          /\ firings'[Len(firings')].row = q
          /\ DOMAIN firings' = 1..Len(firings')
        BY <1>4, RefireAppends, StepType DEF TypeOK, StoreType
    <2>3. Names(Len(firings), Owner[h], refired[h])'
        BY <2>1, <2>2 DEF Names
    <2> QED
        BY <2>1, <2>3 DEF FallbackInv, SoleHook
<1>5. ASSUME EmitRefired(h)
      PROVE  FallbackInv(h)'
    <2>1. pc[h] = "remax" /\ pc'[h] \in {"decide", "refire"}
        BY <1>5 DEF EmitRefired, Goto, TypeOK, ControlType
    <2> QED
        BY <2>1 DEF FallbackInv, SoleHook
<1>6. \/ pc'[h] \notin {"readback", "refire", "remax"}
      \/ InsertBatch(h) \/ FallBack(h) \/ EmitRefired(h)
      \/ \E q \in Rows : Refire(h, q)
    BY DEF HookActs, HookStep, Disclose, Begin, Compact, Abort, Reset, ReadMax, LoadMarkers,
           WriteMarkers, MarkerFails, Match, ReadFloor, Dedup, Score, EmitBatch,
           WriteDecisions, Inject, Goto, TypeOK, ControlType
<1> QED
    BY <1>1, <1>2, <1>3, <1>4, <1>5, <1>6

\* ... and everyone else's.
LEMMA FallbackOthers ==
    ASSUME OneHookPerSession, TypeOK, [Next]_vars, NEW h \in Hooks, FallbackInv(h),
           pc'[h] = pc[h], todo'[h] = todo[h], refired'[h] = refired[h],
           ~HookActs(h)
    PROVE  FallbackInv(h)'
<1>1. \A g \in Hooks : HookActs(g) => Owner[g] # Owner[h]
    BY DEF OneHookPerSession
<1>2. pc[h] = "readback" => \E b \in Nat : LatestBatch(h, b)'
    BY <1>1, LatestStays DEF FallbackInv
<1>3. ASSUME pc[h] = "remax"
      PROVE  Names(Len(firings), Owner[h], refired[h])'
    <2>1. \A g \in Hooks : ~HookActs(g)
        BY <1>3 DEF FallbackInv, SoleHook
    <2>2. \/ \E k \in DOMAIN firings, outcome \in Outcomes : Rate(k, outcome)
          \/ UNCHANGED firings
        BY <2>1, WhoLogs DEF HookActs, HookStep, Disclose
    <2>3. ASSUME NEW k \in DOMAIN firings, NEW outcome \in Outcomes, Rate(k, outcome)
          PROVE  Len(firings') = Len(firings)
        BY <2>3 DEF Rate, TypeOK, StoreType
    <2>4. Len(firings') = Len(firings)
        BY <2>2, <2>3
    <2>5. \A i, r : Names(i, Owner[h], r) => Names(i, Owner[h], r)'
        BY NamesStay
    <2>6. PICK i : i = Len(firings)
        OBVIOUS
    <2>7. PICK r : r = refired[h]
        OBVIOUS
    <2>8. Names(i, Owner[h], r)'
        BY <1>3, <2>5, <2>6, <2>7 DEF FallbackInv
    <2> QED
        BY <2>4, <2>6, <2>7, <2>8 DEF Names
<1> QED
    BY <1>2, <1>3 DEF FallbackInv, SoleHook

\* Every line a hook adds names its firing.
LEMMA LinesNamedStep ==
    ASSUME LabelInv, [Next]_vars, NEW h \in Hooks
    PROVE  LinesNamed(h)'
<1>1. TypeOK /\ LinesNamed(h) /\ FallbackInv(h)
    BY DEF LabelInv
<1>2. \A i, s, r : Names(i, s, r) => Names(i, s, r)'
    BY <1>1, NamesStay
<1>3. ASSUME lines'[h] = lines[h] \/ lines'[h] = NoLines
      PROVE  LinesNamed(h)'
    <2>1. \A r \in Rows : \A k \in DOMAIN lines'[h][r] : Names(lines'[h][r][k], Owner[h], r)
        BY <1>1, <1>3 DEF LinesNamed, NoLines
    <2>2. \A r \in Rows : \A k \in DOMAIN lines'[h][r] :
             /\ lines'[h][r][k] \in DOMAIN firings'
             /\ firings'[lines'[h][r][k]].row = r /\ firings'[lines'[h][r][k]].session = Owner[h]
        BY <1>2, <2>1 DEF Names
    <2> QED
        BY <2>2 DEF LinesNamed, Names
<1>4. ASSUME UNCHANGED firings,
             \A r \in Rows : \/ lines'[h][r] = lines[h][r]
                             \/ \E id : /\ lines'[h][r] = Append(lines[h][r], id)
                                        /\ Names(id, Owner[h], r)
      PROVE  LinesNamed(h)'
    <2>1. ASSUME NEW r \in Rows, NEW k \in DOMAIN lines'[h][r]
          PROVE  Names(lines'[h][r][k], Owner[h], r)
        <3>1. CASE lines'[h][r] = lines[h][r]
            BY <1>1, <2>1, <3>1 DEF LinesNamed
        <3>2. ASSUME NEW id, lines'[h][r] = Append(lines[h][r], id), Names(id, Owner[h], r)
              PROVE  Names(lines'[h][r][k], Owner[h], r)
            <4>1. id \in Nat /\ lines[h][r] \in Seq(Nat)
                BY <1>1, <3>2 DEF Names, TypeOK, StoreType, WorkType
            <4>2. \/ k \in DOMAIN lines[h][r] /\ lines'[h][r][k] = lines[h][r][k]
                  \/ lines'[h][r][k] = id
                BY <2>1, <3>2, <4>1
            <4> QED
                BY <1>1, <3>2, <4>2 DEF LinesNamed
        <3> QED
            BY <1>4, <3>1, <3>2
    <2> QED
        BY <1>4, <2>1 DEF LinesNamed, Names
<1>5. ASSUME EmitBatch(h)
      PROVE  LinesNamed(h)'
    <2>1. PICK id \in [todo[h] -> DOMAIN firings] :
            /\ \A r \in todo[h] : PairedWith(Owner[h], r, Cardinality(todo[h]), id[r])
            /\ lines' = [lines EXCEPT ![h] =
                           [r \in Rows |-> IF r \in todo[h] THEN Append(@[r], id[r]) ELSE @[r]]]
        BY <1>5 DEF EmitBatch
    <2>2. \A r \in todo[h] : Names(id[r], Owner[h], r)
        BY <2>1 DEF PairedWith, ReadBack, Newest, SessionIds, Names
    <2>3. \A r \in Rows : lines'[h][r] = IF r \in todo[h] THEN Append(lines[h][r], id[r])
                                         ELSE lines[h][r]
        BY <1>1, <2>1 DEF TypeOK, WorkType
    <2>4. UNCHANGED firings
        BY <1>5 DEF EmitBatch, storeVars
    <2> QED
        BY <1>4, <2>2, <2>3, <2>4
<1>6. ASSUME EmitRefired(h)
      PROVE  LinesNamed(h)'
    <2>1. Names(Len(firings), Owner[h], refired[h])
        BY <1>1, <1>6 DEF EmitRefired, FallbackInv
    <2>2. \A r \in Rows : \/ lines'[h][r] = lines[h][r]
                          \/ r = refired[h] /\ lines'[h][r] = Append(lines[h][r], Len(firings))
        BY <1>1, <1>6 DEF EmitRefired, TypeOK, WorkType
    <2>3. UNCHANGED firings
        BY <1>6 DEF EmitRefired, storeVars
    <2> QED
        BY <1>4, <2>1, <2>2, <2>3
<1>7. ASSUME HookActs(h), ~EmitBatch(h), ~EmitRefired(h)
      PROVE  lines'[h] = lines[h] \/ lines'[h] = NoLines
    BY <1>1, <1>7
    DEF HookActs, HookStep, Disclose, Begin, Compact, Abort, Reset, ReadMax, LoadMarkers,
        WriteMarkers, MarkerFails, Match, ReadFloor, Dedup, Score, InsertBatch, FallBack,
        Refire, WriteDecisions, Inject, workVars, TypeOK, WorkType
<1>8. ASSUME NEW g \in Hooks \ {h}, HookActs(g)
      PROVE  lines'[h] = lines[h]
    BY <1>1, <1>8, Locality
<1> QED
    BY <1>3, <1>5, <1>6, <1>7, <1>8, WhoActs DEF workVars

\* An element of a concatenation is an element of one of its parts.
LEMMA ConcatPick ==
    \A a, b \in Seq(Nat) : \A k \in DOMAIN (a \o b) :
        \/ \E j \in DOMAIN a : (a \o b)[k] = a[j]
        \/ \E j \in DOMAIN b : (a \o b)[k] = b[j]
<1> TAKE a, b \in Seq(Nat)
<1> TAKE k \in DOMAIN (a \o b)
<1>1. /\ a \o b \in Seq(Nat)
      /\ Len(a \o b) = Len(a) + Len(b)
      /\ \A i \in 1..Len(a) : (a \o b)[i] = a[i]
      /\ \A i \in 1..Len(b) : (a \o b)[Len(a) + i] = b[i]
    BY ConcatFacts
<1>2. /\ Len(a) \in Nat /\ Len(b) \in Nat
      /\ DOMAIN a = 1..Len(a) /\ DOMAIN b = 1..Len(b)
      /\ k \in 1..(Len(a) + Len(b))
    BY <1>1
<1>3. CASE k \in 1..Len(a)
    BY <1>1, <1>2, <1>3
<1>4. CASE k \notin 1..Len(a)
    <2>1. k - Len(a) \in 1..Len(b) /\ k = Len(a) + (k - Len(a))
        BY <1>2, <1>4
    <2> QED
        BY <1>1, <1>2, <2>1, Zenon
<1> QED
    BY <1>3, <1>4

\* A session's context is wiped by compaction and grows by what one of its own
\* hooks prints; nothing else touches it.
LEMMA WindowSteps ==
    ASSUME TypeOK, [Next]_vars, NEW s \in Sessions
    PROVE  \/ window'[s] = window[s]
           \/ window'[s] = NoLines
           \/ \E h \in Hooks : /\ Owner[h] = s
                                /\ window'[s] = [q \in Rows |-> window[s][q] \o lines[h][q]]
<1>1. ASSUME NEW h \in Hooks, Inject(h), Owner[h] = s
      PROVE  window'[s] = [q \in Rows |-> window[s][q] \o lines[h][q]]
    BY <1>1 DEF Inject, TypeOK, WorldType
<1>2. ASSUME NEW h \in Hooks, Compact(h), Owner[h] = s
      PROVE  window'[s] = NoLines
    BY <1>2 DEF Compact, TypeOK, WorldType
<1>3. ASSUME NEW h \in Hooks, HookActs(h), ~Inject(h), ~Compact(h)
      PROVE  window' = window
    BY <1>3
    DEF HookActs, HookStep, Disclose, Begin, Abort, ReadMax, LoadMarkers,
        WriteMarkers, MarkerFails, Match, ReadFloor, Dedup, Score, InsertBatch,
        EmitBatch, FallBack, Refire, EmitRefired, WriteDecisions, worldVars
<1>4. ASSUME NEW h \in Hooks, HookActs(h), Owner[h] # s
      PROVE  window'[s] = window[s]
    BY <1>4, Locality
<1> QED
    BY <1>1, <1>2, <1>3, <1>4, WhoActs DEF worldVars

LEMMA LabelStep == LabelsAreSafe /\ LabelInv /\ [Next]_vars => LabelInv'
<1> SUFFICES ASSUME LabelsAreSafe, LabelInv, [Next]_vars
             PROVE  LabelInv'
    OBVIOUS
<1>1. TypeOK /\ TypeOK'
    BY StepType DEF LabelInv
<1>2. \A i, s, r : Names(i, s, r) => Names(i, s, r)'
    BY <1>1, NamesStay
<1>3. ASSUME NEW h \in Hooks
      PROVE  LinesNamed(h)' /\ FallbackInv(h)'
    <2>1. LinesNamed(h)'
        BY LinesNamedStep
    <2>2. CASE HookActs(h)
        BY <1>1, <2>1, <2>2, FallbackOwn DEF LabelInv
    <2>3. CASE ~HookActs(h)
        <3>1. pc'[h] = pc[h] /\ todo'[h] = todo[h] /\ refired'[h] = refired[h]
            BY <1>1, <2>3, WhoActs, Locality DEF workVars
        <3> QED
            BY <1>1, <2>1, <2>3, <3>1, FallbackOthers DEF LabelInv, LabelsAreSafe
    <2> QED
        BY <2>2, <2>3
<1>4. ASSUME NEW s \in Sessions, NEW r \in Rows, NEW k \in DOMAIN window'[s][r]
      PROVE  \E i : window'[s][r][k] = i /\ Names(i, s, r)
    <2>1. \A j \in DOMAIN window[s][r] : Names(window[s][r][j], s, r)
        BY DEF LabelInv, LabelsNameTheirFiring, Names
    <2>2. \/ window'[s] = window[s]
          \/ window'[s] = NoLines
          \/ \E h \in Hooks : /\ Owner[h] = s
                               /\ window'[s] = [q \in Rows |-> window[s][q] \o lines[h][q]]
        BY <1>1, WindowSteps
    <2>3. CASE window'[s] = window[s]
        BY <1>4, <2>1, <2>3
    <2>4. CASE window'[s] = NoLines
        BY <1>4, <2>4 DEF NoLines
    <2>5. ASSUME NEW h \in Hooks, Owner[h] = s,
                 window'[s] = [q \in Rows |-> window[s][q] \o lines[h][q]]
          PROVE  \E i : window'[s][r][k] = i /\ Names(i, s, r)
        <3>1. PICK a \in Seq(Nat), b \in Seq(Nat) : a = window[s][r] /\ b = lines[h][r]
            BY <1>1 DEF TypeOK, WorkType, WorldType
        <3>4. window'[s][r] = a \o b
            BY <2>5, <3>1, Zenon
        <3>2. \A j \in DOMAIN lines[h][r] : Names(lines[h][r][j], s, r)
            BY <2>5 DEF LabelInv, LinesNamed
        <3>3. \/ \E j \in DOMAIN a : window'[s][r][k] = a[j]
              \/ \E j \in DOMAIN b : window'[s][r][k] = b[j]
            <4>1. k \in DOMAIN (a \o b)
                BY <1>4, <3>4, Zenon
            <4>2. \/ \E j \in DOMAIN a : (a \o b)[k] = a[j]
                  \/ \E j \in DOMAIN b : (a \o b)[k] = b[j]
                BY <4>1, ConcatPick, Zenon
            <4> QED
                BY <3>4, <4>2, Zenon
        <3> QED
            BY <2>1, <3>1, <3>2, <3>3, Zenon
    <2> QED
        BY <2>2, <2>3, <2>4, <2>5
<1>5. LabelsNameTheirFiring'
    <2>1. ASSUME NEW s \in Sessions, NEW r \in Rows, NEW k \in DOMAIN window'[s][r]
          PROVE  /\ window'[s][r][k] \in DOMAIN firings'
                 /\ firings'[window'[s][r][k]].row = r
                 /\ firings'[window'[s][r][k]].session = s
        <3>1. PICK i : window'[s][r][k] = i /\ Names(i, s, r)
            BY <1>4, <2>1
        <3>2. Names(i, s, r)'
            BY <1>2, <3>1
        <3> QED
            BY <3>1, <3>2 DEF Names
    <2> QED
        BY <2>1 DEF LabelsNameTheirFiring
<1> QED
    BY <1>1, <1>3, <1>5 DEF LabelInv

\* The label of every line in a context names a firing of that row in that
\* session, so the agent rates what it was shown: on the batch path for any
\* number of sessions, and on the fallback while a single hook uses the store.
THEOREM LabelsRight ==
    ASSUME LabelsAreSafe
    PROVE  Spec => []LabelsNameTheirFiring
<1>1. Init => LabelInv
    BY InitType
    DEF Init, LabelInv, LabelsNameTheirFiring, LinesNamed, FallbackInv, NoLines
<1>2. LabelInv /\ [Next]_vars => LabelInv'
    BY LabelStep
<1>3. LabelInv => LabelsNameTheirFiring
    BY DEF LabelInv
<1> QED
    BY <1>1, <1>2, <1>3, PTL DEF Spec

-----------------------------------------------------------------------------
(* The context and the log agree *)

\* One hook process uses the store, it runs to its end, and the marker file
\* keeps what is written to it.
NothingIsLost == SoleHook /\ Faults \subseteq {"batch", "readback", "decisions"}

\* Where a row that was logged waits for its line.
Emitting == {"readback", "refire", "remax"}

Accounted(h, r) ==
    \/ window[Owner[h]][r] # <<>>
    \/ lines[h][r] # <<>>
    \/ pc[h] \in Emitting /\ r \in todo[h]

\* What the log counts is in the context or on its way there.
CountedInv(h) ==
    pc[h] \notin Briefing => \A r \in Rows :
        FiredAfter(Owner[h], r, markers[Owner[h]]) => Accounted(h, r)

MatchInv ==
    /\ OnceInv
    /\ \A s \in Sessions : (\A h \in Hooks : Owner[h] # s) => SessionIds(s) = {}
    /\ \A h \in Hooks : /\ CountedInv(h)
                        /\ pc[h] \in {"load", "write"} => floorArg[h] = Len(firings)

\* What the log counts after a step it counted before, or the step logged it.
LEMMA CountedBefore ==
    ASSUME TypeOK, [Next]_vars, NEW s, NEW r, NEW floor, CountedNext(s, r, floor)
    PROVE  \/ FiredAfter(s, r, floor)
           \/ \E h \in Hooks : s = Owner[h] /\ r \in todo[h] /\ (InsertBatch(h) \/ Refire(h, r))
<1>1. PICK i \in DOMAIN firings' : i > floor /\ firings'[i].session = s /\ firings'[i].row = r
    BY DEF CountedNext
<1>2. /\ Len(firings) \in Nat /\ Len(firings') \in Nat /\ DOMAIN firings = 1..Len(firings)
      /\ DOMAIN firings' = 1..Len(firings')
    BY LogGrows, StepType DEF TypeOK, StoreType
<1>3. CASE i \in 1..Len(firings)
    BY <1>1, <1>2, <1>3, LogGrows DEF FiredAfter
<1>4. CASE i \notin 1..Len(firings)
    <2>1. ASSUME NEW h \in Hooks, InsertBatch(h)
          PROVE  s = Owner[h] /\ r \in todo[h]
        <3>1. PICK order \in Bijection(1..Cardinality(todo[h]), todo[h]) :
                \A k \in 1..Cardinality(todo[h]) :
                    firings'[Len(firings) + k] = Firing(Owner[h], order[k])
            BY <2>1, BatchAppends
        <3>2. Len(firings') = Len(firings) + Cardinality(todo[h]) /\ Cardinality(todo[h]) \in Nat
            BY <2>1, BatchAppends, TodoCount
        <3>3. /\ i - Len(firings) \in 1..Cardinality(todo[h])
              /\ i = Len(firings) + (i - Len(firings))
            BY <1>2, <1>4, <3>2
        <3>4. firings'[i] = Firing(Owner[h], order[i - Len(firings)])
            BY <3>1, <3>3
        <3>5. order[i - Len(firings)] \in todo[h]
            BY <3>3 DEF Bijection, Surjection
        <3> QED
            BY <1>1, <3>4, <3>5 DEF Firing
    <2>2. ASSUME NEW h \in Hooks, NEW q \in Rows, Refire(h, q)
          PROVE  s = Owner[h] /\ r = q /\ q \in todo[h]
        <3>1. /\ Len(firings') = Len(firings) + 1
              /\ firings'[Len(firings')].session = Owner[h]
              /\ firings'[Len(firings')].row = q
            BY <2>2, RefireAppends
        <3>2. i = Len(firings')
            BY <1>2, <1>4, <3>1
        <3> QED
            BY <1>1, <2>2, <3>1, <3>2 DEF Refire
    <2>3. ASSUME NEW k \in DOMAIN firings, NEW outcome \in Outcomes, Rate(k, outcome)
          PROVE  FALSE
        BY <1>2, <1>4, <2>3 DEF Rate
    <2>4. CASE UNCHANGED firings
        BY <1>2, <1>4, <2>4
    <2> QED
        BY <2>1, <2>2, <2>3, <2>4, WhoLogs
<1> QED
    BY <1>3, <1>4

LEMMA AppendNotEmpty == \A x \in Seq(Nat), e \in Nat : Append(x, e) # <<>>
<1> TAKE x \in Seq(Nat), e \in Nat
<1>1. Len(Append(x, e)) = Len(x) + 1 /\ Len(x) \in Nat
    OBVIOUS
<1>2. Len(Append(x, e)) # 0
    BY <1>1
<1> QED
    BY <1>2

LEMMA ConcatEmpty == \A x, y \in Seq(Nat) : x \o y = <<>> => x = <<>> /\ y = <<>>
<1> TAKE x, y \in Seq(Nat)
<1>1. Len(x \o y) = Len(x) + Len(y)
    BY ConcatProperties
<1>2. Len(x) \in Nat /\ Len(y) \in Nat
    OBVIOUS
<1> SUFFICES ASSUME x \o y = <<>>
             PROVE  x = <<>> /\ y = <<>>
    OBVIOUS
<1>3. Len(x) + Len(y) = 0
    BY <1>1, Len(<<>>) = 0, Zenon
<1>4. Len(x) = 0 /\ Len(y) = 0
    BY <1>2, <1>3
<1> QED
    BY <1>4

\* While nothing is lost, a hook's own steps keep account of every row logged.
LEMMA CountedOwn ==
    ASSUME NothingIsLost, MatchInv, [Next]_vars, NEW h \in Hooks, HookActs(h)
    PROVE  /\ CountedInv(h)'
           /\ pc'[h] \in {"load", "write"} => floorArg'[h] = Len(firings')
<1> DEFINE s == Owner[h]
<1>1. /\ TypeOK /\ CountedInv(h) /\ s \in Sessions
      /\ pc[h] \in {"load", "write"} => floorArg[h] = Len(firings)
    BY DisclosureAssumption DEF MatchInv, OnceInv
<1> DEFINE Kept(r) == \/ window'[s][r] # <<>>
                      \/ lines'[h][r] # <<>>
                      \/ pc'[h] \in Emitting /\ r \in todo'[h]
           Counted == \A r \in Rows : CountedNext(s, r, markers'[s]) => Kept(r)
           Floor == pc'[h] \in {"load", "write"} => floorArg'[h] = Len(firings')
<1> SUFFICES (pc'[h] \notin Briefing => Counted) /\ Floor
    BY DEF CountedInv, Accounted, CountedNext, FiredAfter
<1> USE DEF Briefing, Emitting, Goto
<1>2. /\ pc \in [Hooks -> {"idle", "readmax", "load", "write", "match", "floor", "dedup",
                        "score", "insert", "readback", "refire", "remax", "decide", "print"}]
      /\ todo \in [Hooks -> SUBSET Rows] /\ lines \in [Hooks -> [Rows -> Seq(Nat)]]
      /\ refired \in [Hooks -> Rows \cup {NoRow}] /\ floorArg \in [Hooks -> Nat]
      /\ window \in [Sessions -> [Rows -> Seq(Nat)]] /\ markers \in [Sessions -> Nat]
    BY <1>1 DEF TypeOK, ControlType, WorkType, BriefType, WorldType, StoreType
<1>3. \A r \in Rows : CountedNext(s, r, markers[s]) =>
          \/ FiredAfter(s, r, markers[s])
          \/ r \in todo[h] /\ (InsertBatch(h) \/ Refire(h, r))
    BY <1>1, CountedBefore DEF NothingIsLost, SoleHook
<1>4. ASSUME pc[h] \notin Briefing, pc'[h] \notin Briefing, UNCHANGED <<firings, markers>>,
             \A r \in Rows : Accounted(h, r) => Kept(r)
      PROVE  Counted /\ Floor
    <2>1. \A r \in Rows : CountedNext(s, r, markers'[s]) => FiredAfter(s, r, markers[s])
        BY <1>4 DEF CountedNext, FiredAfter
    <2> QED
        BY <1>1, <1>4, <2>1 DEF CountedInv
<1>5. ASSUME pc[h] \notin Briefing \cup Emitting, pc'[h] \notin Briefing,
             UNCHANGED <<firings, markers, window, lines>>
      PROVE  Counted /\ Floor
    BY <1>4, <1>5 DEF Accounted
<1>6. CASE \/ \E event \in DOMAIN FlowsOf : Begin(h, event)
           \/ Match(h) \/ ReadFloor(h) \/ Dedup(h) \/ Score(h) \/ WriteDecisions(h)
    <2>1. /\ pc[h] \in {"idle", "match", "floor", "dedup", "score", "decide"}
          /\ pc'[h] \in {"match", "floor", "dedup", "score", "insert", "decide", "print"}
          /\ UNCHANGED <<firings, markers, window, lines>>
        BY <1>2, <1>6
        DEF Begin, Match, ReadFloor, Dedup, Score, WriteDecisions, storeVars, workVars, worldVars
    <2> QED
        BY <1>5, <2>1
<1>7. CASE Compact(h)
    BY <1>2, <1>7 DEF Compact
<1>8. CASE Abort(h)
    BY <1>8 DEF Abort, NothingIsLost
<1>9. CASE ReadMax(h)
    BY <1>2, <1>9 DEF ReadMax, storeVars
<1>10. CASE LoadMarkers(h)
    BY <1>1, <1>2, <1>10 DEF LoadMarkers, storeVars
<1>11. CASE WriteMarkers(h)
    <2>1. pc'[h] = "match" /\ UNCHANGED firings /\ markers'[s] = Len(firings)
        BY <1>1, <1>2, <1>11 DEF WriteMarkers, storeVars
    <2>2. ASSUME NEW r \in Rows
          PROVE  ~CountedNext(s, r, markers'[s])
        <3>1. DOMAIN firings = 1..Len(firings) /\ Len(firings) \in Nat
            BY <1>1 DEF TypeOK, StoreType
        <3> QED
            BY <2>1, <3>1 DEF CountedNext
    <2> QED
        BY <2>1, <2>2
<1>12. CASE MarkerFails(h)
    BY <1>12 DEF MarkerFails, NothingIsLost
<1>13. CASE InsertBatch(h)
    <2>1. /\ pc[h] = "insert" /\ pc'[h] = "readback"
          /\ UNCHANGED <<markers, window, lines, todo>>
        BY <1>2, <1>13 DEF InsertBatch, workVars, worldVars
    <2>2. \A r \in Rows : FiredAfter(s, r, markers[s]) =>
              window[s][r] # <<>> \/ lines[h][r] # <<>>
        BY <1>1, <2>1 DEF CountedInv, Accounted
    <2>3. ~(\E r \in Rows : Refire(h, r))
        BY <2>1 DEF Refire
    <2> QED
        BY <1>3, <2>1, <2>2, <2>3
<1>14. CASE EmitBatch(h)
    <2>1. /\ pc[h] = "readback" /\ pc'[h] = "decide"
          /\ UNCHANGED <<firings, markers, window>>
        BY <1>2, <1>14 DEF EmitBatch, storeVars
    <2>2. PICK id \in [todo[h] -> DOMAIN firings] :
            lines' = [lines EXCEPT ![h] =
                        [r \in Rows |-> IF r \in todo[h] THEN Append(@[r], id[r]) ELSE @[r]]]
        BY <1>14 DEF EmitBatch
    <2>3. \A r \in Rows : lines'[h][r] = IF r \in todo[h] THEN Append(lines[h][r], id[r])
                                         ELSE lines[h][r]
        BY <1>2, <2>2
    <2>4. \A r \in todo[h] : id[r] \in Nat
        BY <1>1, <2>2 DEF TypeOK, StoreType
    <2>5. \A r \in Rows : r \in todo[h] => lines'[h][r] # <<>>
        BY <1>2, <2>3, <2>4, AppendNotEmpty
    <2>6. \A r \in Rows : Accounted(h, r) => Kept(r)
        BY <2>1, <2>3, <2>5 DEF Accounted
    <2> QED
        BY <1>4, <2>1, <2>6
<1>15. CASE FallBack(h)
    <2>1. /\ pc[h] \in {"insert", "readback"} /\ pc'[h] = "refire"
          /\ UNCHANGED <<firings, markers, window, lines, todo>>
        BY <1>2, <1>15 DEF FallBack, storeVars, workVars, worldVars
    <2> QED
        BY <1>4, <2>1 DEF Accounted
<1>16. ASSUME NEW q \in Rows, Refire(h, q)
       PROVE  Counted /\ Floor
    <2>1. /\ pc[h] = "refire" /\ pc'[h] = "remax"
          /\ UNCHANGED <<markers, window, lines, todo>>
        BY <1>2, <1>16 DEF Refire, worldVars
    <2>2. \A r \in Rows : FiredAfter(s, r, markers[s]) =>
              window[s][r] # <<>> \/ lines[h][r] # <<>> \/ r \in todo[h]
        BY <1>1, <2>1 DEF CountedInv, Accounted
    <2> QED
        BY <1>3, <2>1, <2>2
<1>17. CASE EmitRefired(h)
    <2>1. /\ pc[h] = "remax"
          /\ pc'[h] = IF todo[h] = {refired[h]} THEN "decide" ELSE "refire"
          /\ todo'[h] = todo[h] \ {refired[h]}
          /\ UNCHANGED <<firings, markers, window>>
        BY <1>2, <1>17 DEF EmitRefired, storeVars
    <2>2. \A r \in Rows : lines'[h][r] = IF r = refired[h] THEN Append(lines[h][r], Len(firings))
                                         ELSE lines[h][r]
        BY <1>2, <1>17 DEF EmitRefired
    <2>3. Len(firings) \in Nat
        BY <1>1 DEF TypeOK, StoreType
    <2>4. \A r \in Rows : r = refired[h] => lines'[h][r] # <<>>
        BY <1>2, <2>2, <2>3, AppendNotEmpty
    <2>5. \A r \in todo[h] : r # refired[h] => pc'[h] = "refire" /\ r \in todo'[h]
        BY <2>1
    <2>6. \A r \in Rows : Accounted(h, r) => Kept(r)
        BY <2>1, <2>2, <2>4, <2>5 DEF Accounted
    <2>7. pc'[h] \in {"decide", "refire"}
        BY <2>1
    <2> QED
        BY <1>4, <2>1, <2>6, <2>7
<1>18. CASE Inject(h)
    <2>1. /\ pc[h] = "print" /\ pc'[h] = "idle"
          /\ UNCHANGED <<firings, markers>>
        BY <1>2, <1>18 DEF Inject, Reset, storeVars
    <2>2. \A r \in Rows : window'[s][r] = window[s][r] \o lines[h][r]
        BY <1>1, <1>2, <1>18 DEF Inject
    <2>3. ASSUME NEW r \in Rows, Accounted(h, r)
          PROVE  window'[s][r] # <<>>
        <3>1. window[s][r] # <<>> \/ lines[h][r] # <<>>
            BY <2>1, <2>3 DEF Accounted
        <3>2. window[s][r] \in Seq(Nat) /\ lines[h][r] \in Seq(Nat)
            BY <1>1, <1>2
        <3> QED
            BY <2>2, <3>1, <3>2, ConcatEmpty, Zenon
    <2> QED
        BY <1>4, <2>1, <2>3
<1> HIDE DEF Counted, Floor
<1> QED
    BY <1>6, <1>7, <1>8, <1>9, <1>10, <1>11, <1>12, <1>13, <1>14, <1>15, <1>16, <1>17, <1>18
    DEF HookActs, HookStep, Disclose

LEMMA MatchStep == NothingIsLost /\ MatchInv /\ [Next]_vars => MatchInv'
<1> SUFFICES ASSUME NothingIsLost, MatchInv, [Next]_vars
             PROVE  MatchInv'
    OBVIOUS
<1>1. TypeOK /\ TypeOK'
    BY StepType DEF MatchInv, OnceInv
<1>2. OnceInv'
    BY OnceStep DEF MatchInv, NothingIsLost, SoleHook, OneHookPerSession
<1>3. ASSUME NEW s \in Sessions, \A h \in Hooks : Owner[h] # s
      PROVE  SessionIds(s)' = {}
    <2>1. SessionIds(s) = {}
        BY <1>3 DEF MatchInv
    <2>2. \A i \in 1..Len(firings') : i > Len(firings) => firings'[i].session # s
        BY <1>1, <1>3, OthersLogElsewhere
    <2>3. /\ DOMAIN firings = 1..Len(firings) /\ DOMAIN firings' = 1..Len(firings')
          /\ Len(firings) \in Nat /\ Len(firings') \in Nat
          /\ \A i \in 1..Len(firings) : firings'[i].session = firings[i].session
        BY <1>1, LogGrows DEF TypeOK, StoreType
    <2> QED
        BY <2>1, <2>2, <2>3 DEF SessionIds
<1>4. ASSUME NEW h \in Hooks
      PROVE  /\ CountedInv(h)'
             /\ pc'[h] \in {"load", "write"} => floorArg'[h] = Len(firings')
    <2>1. CASE HookActs(h)
        BY <2>1, CountedOwn
    <2>2. CASE ~HookActs(h)
        <3>1. UNCHANGED <<markers, pc, workVars, briefVars, worldVars>>
            BY <2>2, WhoActs DEF NothingIsLost, SoleHook
        <3>2. \A g \in Hooks : ~HookActs(g)
            BY <2>2 DEF NothingIsLost, SoleHook
        <3>3. ASSUME NEW r \in Rows, CountedNext(Owner[h], r, markers[Owner[h]])
              PROVE  FiredAfter(Owner[h], r, markers[Owner[h]])
            BY <1>1, <3>2, <3>3, CountedBefore DEF HookActs, HookStep, Disclose
        <3>4. CountedInv(h)'
            BY <3>1, <3>3
            DEF MatchInv, CountedInv, Accounted, CountedNext, FiredAfter, workVars, worldVars
        <3>5. Len(firings') = Len(firings)
            <4>1. ASSUME NEW k \in DOMAIN firings, NEW outcome \in Outcomes, Rate(k, outcome)
                  PROVE  Len(firings') = Len(firings)
                BY <1>1, <4>1 DEF Rate, TypeOK, StoreType
            <4>2. \/ \E k \in DOMAIN firings, outcome \in Outcomes : Rate(k, outcome)
                  \/ UNCHANGED firings
                BY <3>2, WhoLogs DEF HookActs, HookStep, Disclose
            <4> QED
                BY <4>1, <4>2
        <3> QED
            BY <3>1, <3>4, <3>5 DEF MatchInv, briefVars
    <2> QED
        BY <2>1, <2>2
<1> QED
    BY <1>2, <1>3, <1>4 DEF MatchInv

\* While a single hook process uses the store, runs to its end, and the marker
\* file keeps what it is given, context and log agree whenever no hook runs: a
\* failed batch, read-back or decision row loses no line, and compaction hides
\* no row for good.
THEOREM LogMatchesWindow ==
    ASSUME NothingIsLost
    PROVE  Spec => []WindowMatchesLog
<1>1. Init => MatchInv
    BY OnceInit DEF Init, MatchInv, CountedInv, FiredAfter, SessionIds
<1>2. MatchInv /\ [Next]_vars => MatchInv'
    BY MatchStep
<1>3. MatchInv => WindowMatchesLog
    <2> SUFFICES ASSUME MatchInv, NEW s \in Sessions, Quiet(s), NEW r \in Rows
                 PROVE  window[s][r] # <<>> <=> FiredAfter(s, r, markers[s])
        BY DEF WindowMatchesLog
    <2>1. window[s][r] # <<>> => FiredAfter(s, r, markers[s])
        BY OnceInvImplies DEF MatchInv, DisclosedIsLogged
    <2>2. ASSUME FiredAfter(s, r, markers[s]), \A h \in Hooks : Owner[h] # s
          PROVE  FALSE
        BY <2>2 DEF MatchInv, FiredAfter, SessionIds
    <2>3. ASSUME FiredAfter(s, r, markers[s]), NEW h \in Hooks, Owner[h] = s
          PROVE  window[s][r] # <<>>
        <3>1. pc[h] = "idle" /\ lines[h] = NoLines
            BY <2>3 DEF Quiet, MatchInv, OnceInv, HookInv, BriefIsBlank
        <3> QED
            BY <2>3, <3>1 DEF MatchInv, CountedInv, Briefing, Accounted, Emitting, NoLines
    <2> QED
        BY <2>1, <2>2, <2>3
<1> QED
    BY <1>1, <1>2, <1>3, PTL DEF Spec
-----------------------------------------------------------------------------
(* The disclosure path implements the lifecycle of its rows *)

\* A session with a hook has one: what its hooks hold is what that one holds.
LEMMA OwnStages ==
    ASSUME OneHookPerSession, NEW h \in Hooks, NEW r
    PROVE  /\ HasLine(Owner[h], r) <=> lines[h][r] # <<>>
           /\ HasLine(Owner[h], r)' <=> lines'[h][r] # <<>>
           /\ IsChosen(Owner[h], r) <=> pc[h] \in Choosing /\ r \in todo[h]
           /\ IsChosen(Owner[h], r)' <=> pc'[h] \in Choosing /\ r \in todo'[h]
           /\ IsCounted(Owner[h], r) <=>
                /\ FiredAfter(Owner[h], r, markers[Owner[h]])
                /\ pc[h] = "dedup" => FiredAfter(Owner[h], r, floorArg[h])
           /\ IsCounted(Owner[h], r)' <=>
                /\ CountedNext(Owner[h], r, markers'[Owner[h]])
                /\ pc'[h] = "dedup" => CountedNext(Owner[h], r, floorArg'[h])
<1>1. \A g \in Hooks : Owner[g] = Owner[h] <=> g = h
    BY DEF OneHookPerSession
<1>2. /\ HasLine(Owner[h], r) <=> lines[h][r] # <<>>
      /\ HasLine(Owner[h], r)' <=> lines'[h][r] # <<>>
    BY <1>1 DEF HasLine
<1>3. /\ IsChosen(Owner[h], r) <=> pc[h] \in Choosing /\ r \in todo[h]
      /\ IsChosen(Owner[h], r)' <=> pc'[h] \in Choosing /\ r \in todo'[h]
    BY <1>1 DEF IsChosen
<1>4. IsCounted(Owner[h], r) <=>
        /\ FiredAfter(Owner[h], r, markers[Owner[h]])
        /\ pc[h] = "dedup" => FiredAfter(Owner[h], r, floorArg[h])
    BY <1>1 DEF IsCounted
<1>5. IsCounted(Owner[h], r)' <=>
        /\ CountedNext(Owner[h], r, markers'[Owner[h]])
        /\ pc'[h] = "dedup" => CountedNext(Owner[h], r, floorArg'[h])
    BY <1>1 DEF IsCounted, FiredAfter, CountedNext
<1> QED
    BY <1>2, <1>3, <1>4, <1>5

\* Every row of every session is at a stage of the lifecycle.
LEMMA LifeType ==
    OnceInv => /\ Life \in [Sessions -> [Rows -> Lifecycle!Stages]]
               /\ \A s \in Sessions, r \in Rows : Stage(s, r) \in Lifecycle!Stages
<1> SUFFICES ASSUME OnceInv
             PROVE  \A s \in Sessions, r \in Rows : Stage(s, r) \in Lifecycle!Stages
    BY DEF Life
<1> TAKE s \in Sessions, r \in Rows
<1>1. Len(window[s][r]) <= 1 /\ Len(window[s][r]) \in Nat
    BY OnceInvImplies DEF OnceInv, AtMostOncePerWindow, TypeOK, WorldType
<1>2. ~(Len(window[s][r]) > 1)
    BY <1>1
<1> QED
    BY <1>2 DEF Stage, Lifecycle!Stages

\* Where the log, the markers and the hooks of a session stay, its rows do.
LEMMA StageKept ==
    ASSUME NEW s, NEW r, window'[s][r] = window[s][r],
           HasLine(s, r)' <=> HasLine(s, r), IsChosen(s, r)' <=> IsChosen(s, r),
           IsCounted(s, r)' <=> IsCounted(s, r)
    PROVE  Stage(s, r)' = Stage(s, r)
    BY DEF Stage

\* Where only they or the markers change, rows are re-armed or spent again.
LEMMA StageRemarked ==
    ASSUME NEW s, NEW r, window'[s][r] = window[s][r],
           HasLine(s, r)' <=> HasLine(s, r), IsChosen(s, r)' <=> IsChosen(s, r)
    PROVE  Lifecycle!Remarked(Stage(s, r), Stage(s, r)')
    BY DEF Stage, Lifecycle!Remarked

LEMMA LifeKept ==
    ASSUME \A s \in Sessions, r \in Rows : Stage(s, r)' = Stage(s, r)
    PROVE  Life' = Life
    BY DEF Life
\* What a hook of one session does is nothing to the rows of another, but for
\* the floors it writes.
LEMMA OthersStages ==
    ASSUME TypeOK, [Next]_vars, NEW h \in Hooks, HookActs(h),
           NEW t \in Sessions \ {Owner[h]}, NEW r \in Rows
    PROVE  /\ window'[t][r] = window[t][r]
           /\ HasLine(t, r)' <=> HasLine(t, r)
           /\ IsChosen(t, r)' <=> IsChosen(t, r)
           /\ markers'[t] = markers[t] => (IsCounted(t, r)' <=> IsCounted(t, r))
<1>1. /\ window'[t] = window[t]
      /\ \A g \in Hooks : Owner[g] = t =>
            /\ pc'[g] = pc[g] /\ todo'[g] = todo[g] /\ lines'[g] = lines[g]
            /\ floorArg'[g] = floorArg[g]
    BY Locality
<1>2. HasLine(t, r)' <=> HasLine(t, r)
    BY <1>1 DEF HasLine
<1>3. IsChosen(t, r)' <=> IsChosen(t, r)
    BY <1>1 DEF IsChosen
<1>4. ASSUME NEW g \in Hooks, Owner[g] = t
      PROVE  ~InsertBatch(g) /\ \A q \in Rows : ~Refire(g, q)
    BY <1>1, <1>4 DEF InsertBatch, Refire, Goto, TypeOK, ControlType
<1>5. \A floor : FiredAfter(t, r, floor) <=> CountedNext(t, r, floor)
    BY <1>4, FiredMonotone, CountedBefore
<1>6. ASSUME markers'[t] = markers[t]
      PROVE  IsCounted(t, r)' <=> IsCounted(t, r)
    <2>1. IsCounted(t, r)' <=>
            /\ CountedNext(t, r, markers'[t])
            /\ \A g \in Hooks : Owner[g] = t /\ pc'[g] = "dedup" => CountedNext(t, r, floorArg'[g])
        BY DEF IsCounted, FiredAfter, CountedNext
    <2> QED
        BY <1>1, <1>5, <1>6, <2>1 DEF IsCounted
<1> QED
    BY <1>1, <1>2, <1>3, <1>6

\* The steps of the lifecycle, from what becomes of each row.
LEMMA Moves ==
    ASSUME NEW s \in Sessions, NEW R \in SUBSET Rows, NEW from, NEW to,
           \A t \in Sessions \ {s}, r \in Rows : Stage(t, r)' = Stage(t, r),
           \A r \in R : Stage(s, r) = from /\ Stage(s, r)' = to,
           \A r \in Rows \ R : Stage(s, r)' = Stage(s, r)
    PROVE  Lifecycle!Move(s, R, from, to)
<1>1. \A r \in R : Life[s][r] = from
    BY DEF Life
<1>2. Life' = [Life EXCEPT ![s] = [r \in Rows |-> IF r \in R THEN to ELSE @[r]]]
    BY DEF Life
<1> QED
    BY <1>1, <1>2 DEF Lifecycle!Move

LEMMA Drops ==
    ASSUME NEW s \in Sessions, NEW R \in SUBSET Rows,
           \A t \in Sessions \ {s}, r \in Rows : Stage(t, r)' = Stage(t, r),
           \A r \in R : \/ Stage(s, r) = "chosen" /\ Stage(s, r)' \in {"armed", "spent"}
                        \/ Stage(s, r) = "pending" /\ Stage(s, r)' = "spent",
           \A r \in Rows \ R : \/ Stage(s, r)' = Stage(s, r)
                               \/ Stage(s, r) = "armed" /\ Stage(s, r)' = "spent"
    PROVE  Lifecycle!Drop(s, R)
<1> DEFINE unlogged == {r \in R : Stage(s, r)' = "armed"}
           forgotten == {r \in Rows \ R : Stage(s, r)' # Stage(s, r)}
<1>1. /\ unlogged \in SUBSET Rows /\ forgotten \in SUBSET Rows
      /\ unlogged \subseteq R /\ forgotten \cap R = {}
    OBVIOUS
<1>2. /\ \A r \in unlogged : Life[s][r] = "chosen"
      /\ \A r \in R \ unlogged : Life[s][r] \in {"chosen", "pending"}
      /\ \A r \in forgotten : Life[s][r] = "armed"
    BY DEF Life
<1>3. \A r \in Rows : Stage(s, r)' = IF r \in unlogged THEN "armed"
                                     ELSE IF r \in R \cup forgotten THEN "spent"
                                     ELSE Stage(s, r)
    OBVIOUS
<1> HIDE DEF unlogged, forgotten
<1>4. Life' = [Life EXCEPT ![s] =
                [r \in Rows |-> IF r \in unlogged THEN "armed"
                                ELSE IF r \in R \cup forgotten THEN "spent" ELSE @[r]]]
    <2> DEFINE after == [r \in Rows |-> IF r \in unlogged THEN "armed"
                                       ELSE IF r \in R \cup forgotten THEN "spent"
                                       ELSE Life[s][r]]
    <2>1. \A r \in Rows : Life[s][r] = Stage(s, r)
        BY DEF Life
    <2>2. Life'[s] = [r \in Rows |-> Stage(s, r)']
        BY DEF Life
    <2>3. Life'[s] = after
        BY <1>3, <2>1, <2>2
    <2>4. \A t \in Sessions \ {s} : Life'[t] = Life[t]
        BY DEF Life
    <2>5. /\ Life' = [t \in Sessions |-> Life'[t]]
          /\ Life = [t \in Sessions |-> Life[t]]
        BY DEF Life
    <2> HIDE DEF after
    <2>6. Life' = [Life EXCEPT ![s] = after]
        BY <2>3, <2>4, <2>5
    <2> QED
        BY <2>6 DEF after
<1> QED
    BY <1>1, <1>2, <1>4 DEF Lifecycle!Drop

LEMMA Chooses ==
    ASSUME OnceInv, NEW s \in Sessions, NEW R \in SUBSET Rows,
           \A r \in R : Stage(s, r) = "armed" /\ Stage(s, r)' = "chosen",
           \A t \in Sessions, r \in Rows :
               (t = s /\ r \in R) \/ Lifecycle!Remarked(Stage(t, r), Stage(t, r)')
    PROVE  Lifecycle!Choose(s, R)
<1>1. \A t \in Sessions, r \in Rows : Stage(t, r)' \in Lifecycle!Stages
    BY LifeType DEF Lifecycle!Remarked, Lifecycle!Stages
<1>2. Life' \in [Sessions -> [Rows -> Lifecycle!Stages]]
    BY <1>1 DEF Life
<1>3. \A r \in R : Life[s][r] = "armed"
    BY DEF Life
<1>4. \A t \in Sessions, r \in Rows : Life[t][r] = Stage(t, r) /\ Life'[t][r] = Stage(t, r)'
    BY DEF Life
<1>5. \A t \in Sessions, r \in Rows :
         IF t = s /\ r \in R THEN Life'[t][r] = "chosen"
         ELSE Lifecycle!Remarked(Life[t][r], Life'[t][r])
    BY <1>4
<1> QED
    BY <1>2, <1>3, <1>5 DEF Lifecycle!Choose
LEMMA OneOfTwo ==
    \A x, y \in Seq(Nat) : Len(x) + Len(y) <= 1 /\ y # <<>> =>
        x = <<>> /\ ~(Len(x) > 1) /\ ~(Len(y) > 1)
<1> TAKE x, y \in Seq(Nat)
<1> HAVE Len(x) + Len(y) <= 1 /\ y # <<>>
<1>1. Len(x) \in Nat /\ Len(y) \in Nat
    OBVIOUS
<1>2. Len(y) # 0
    OBVIOUS
<1>3. Len(x) = 0 /\ Len(y) = 1
    BY <1>1, <1>2
<1> QED
    BY <1>3

LEMMA EmptyIsNeutral == \A x \in Seq(Nat) : <<>> \o x = x /\ x \o <<>> = x
    OBVIOUS

\* A hook's own step is a step of the lifecycle, or leaves every row where it is.
LEMMA LifeOwn ==
    ASSUME OneHookPerSession, OnceInv, [Next]_vars, NEW h \in Hooks, HookActs(h)
    PROVE  Lifecycle!Next \/ Life' = Life
<1> DEFINE s == Owner[h]
<1>1. /\ TypeOK /\ HookInv(h) /\ s \in Sessions
    BY DisclosureAssumption DEF OnceInv
<1>2. /\ pc \in [Hooks -> {"idle", "readmax", "load", "write", "match", "floor", "dedup",
                        "score", "insert", "readback", "refire", "remax", "decide", "print"}]
      /\ todo \in [Hooks -> SUBSET Rows] /\ lines \in [Hooks -> [Rows -> Seq(Nat)]]
      /\ refired \in [Hooks -> Rows \cup {NoRow}] /\ floorArg \in [Hooks -> Nat]
      /\ window \in [Sessions -> [Rows -> Seq(Nat)]]
    BY <1>1 DEF TypeOK, ControlType, WorkType, BriefType, WorldType
<1>3. \A r \in Rows :
        /\ HasLine(s, r) <=> lines[h][r] # <<>>
        /\ HasLine(s, r)' <=> lines'[h][r] # <<>>
        /\ IsChosen(s, r) <=> pc[h] \in Choosing /\ r \in todo[h]
        /\ IsChosen(s, r)' <=> pc'[h] \in Choosing /\ r \in todo'[h]
        /\ IsCounted(s, r) <=> /\ FiredAfter(s, r, markers[s])
                               /\ pc[h] = "dedup" => FiredAfter(s, r, floorArg[h])
        /\ IsCounted(s, r)' <=> /\ CountedNext(s, r, markers'[s])
                                /\ pc'[h] = "dedup" => CountedNext(s, r, floorArg'[h])
    BY OwnStages
<1>4. ASSUME UNCHANGED markers
      PROVE  \A t \in Sessions \ {s}, r \in Rows : Stage(t, r)' = Stage(t, r)
    BY <1>1, <1>4, OthersStages, StageKept
<1>5. \A t \in Sessions \ {s}, r \in Rows : Lifecycle!Remarked(Stage(t, r), Stage(t, r)')
    BY <1>1, OthersStages, StageRemarked
<1>6. ASSUME UNCHANGED firings
      PROVE  \A r, floor : CountedNext(s, r, floor) <=> FiredAfter(s, r, floor)
    BY <1>6 DEF CountedNext, FiredAfter
<1> USE DEF Goto
<1>7. ASSUME UNCHANGED <<firings, markers, window, lines>>,
             {pc[h], pc'[h]} \cap (Choosing \cup {"dedup"}) = {}
      PROVE  Life' = Life
    <2>1. ASSUME NEW r \in Rows
          PROVE  Stage(s, r)' = Stage(s, r)
        <3>1. IsCounted(s, r)' <=> IsCounted(s, r)
            BY <1>3, <1>6, <1>7
        <3>2. HasLine(s, r)' <=> HasLine(s, r)
            BY <1>3, <1>7
        <3>3. IsChosen(s, r)' <=> IsChosen(s, r)
            BY <1>3, <1>7
        <3> QED
            BY <1>7, <3>1, <3>2, <3>3, StageKept
    <2> QED
        BY <1>4, <1>7, <2>1, LifeKept
<1>8. CASE \/ \E event \in DOMAIN FlowsOf : Begin(h, event)
           \/ ReadMax(h) \/ LoadMarkers(h) \/ Match(h) \/ WriteDecisions(h)
    <2>1. /\ UNCHANGED <<firings, markers, window, lines>>
          /\ {pc[h], pc'[h]} \cap (Choosing \cup {"dedup"}) = {}
        BY <1>2, <1>8
        DEF Begin, ReadMax, LoadMarkers, Match, WriteDecisions, Choosing,
            storeVars, workVars, worldVars
    <2> QED
        BY <1>7, <2>1
<1>9. CASE InsertBatch(h) \/ FallBack(h) \/ \E q \in Rows : Refire(h, q)
    <2>1. /\ UNCHANGED <<markers, window, lines, todo>>
          /\ pc[h] \in Choosing /\ pc'[h] \in Choosing
        BY <1>2, <1>9 DEF InsertBatch, FallBack, Refire, Choosing, workVars, worldVars
    <2>2. \A r \in Rows : CountedNext(s, r, markers[s]) =>
              FiredAfter(s, r, markers[s]) \/ r \in todo[h]
        <3>1. ASSUME NEW g \in Hooks, Owner[g] = s
              PROVE  g = h
            BY <3>1 DEF OneHookPerSession
        <3> QED
            BY <1>1, <3>1, CountedBefore
    <2>3. \A r \in Rows : FiredAfter(s, r, markers[s]) => CountedNext(s, r, markers[s])
        BY <1>1, FiredMonotone
    <2>4. ASSUME NEW r \in Rows
          PROVE  Stage(s, r)' = Stage(s, r)
        <3>1. CASE r \in todo[h]
            <4>1. IsChosen(s, r) /\ IsChosen(s, r)'
                BY <1>3, <2>1, <3>1
            <4>2. HasLine(s, r)' <=> HasLine(s, r)
                BY <1>3, <2>1
            <4> QED
                BY <2>1, <4>1, <4>2 DEF Stage
        <3>2. CASE r \notin todo[h]
            <4>1. pc[h] # "dedup" /\ pc'[h] # "dedup"
                BY <2>1 DEF Choosing
            <4>2. IsCounted(s, r)' <=> IsCounted(s, r)
                BY <1>3, <2>1, <2>2, <2>3, <3>2, <4>1
            <4>3. HasLine(s, r)' <=> HasLine(s, r)
                BY <1>3, <2>1
            <4>4. IsChosen(s, r)' <=> IsChosen(s, r)
                BY <1>3, <2>1
            <4> QED
                BY <2>1, <4>2, <4>3, <4>4, StageKept
        <3> QED
            BY <3>1, <3>2
    <2> QED
        BY <1>4, <2>1, <2>4, LifeKept
<1>10. CASE WriteMarkers(h) \/ MarkerFails(h) \/ ReadFloor(h)
    <2>1. /\ UNCHANGED <<window, lines>>
          /\ {pc[h], pc'[h]} \cap Choosing = {}
        BY <1>2, <1>10 DEF WriteMarkers, MarkerFails, ReadFloor, Choosing, workVars, worldVars
    <2>2. ASSUME NEW r \in Rows
          PROVE  Lifecycle!Remarked(Stage(s, r), Stage(s, r)')
        <3>1. HasLine(s, r)' <=> HasLine(s, r)
            BY <1>3, <2>1
        <3>2. IsChosen(s, r)' <=> IsChosen(s, r)
            BY <1>3, <2>1
        <3> QED
            BY <2>1, <3>1, <3>2, StageRemarked
    <2>3. Lifecycle!Choose(s, {})
        BY <1>1, <1>5, <2>2, Chooses
    <2> QED
        BY <1>1, <2>3 DEF Lifecycle!Next
<1>11. CASE Dedup(h)
    <2>1. /\ UNCHANGED <<firings, markers, window, lines>>
          /\ pc[h] = "dedup" /\ pc'[h] = "score"
          /\ todo'[h] = {r \in todo[h] : ~FiredAfter(s, r, floorArg[h])}
        BY <1>2, <1>11 DEF Dedup, storeVars, worldVars
    <2>2. todo'[h] \in SUBSET Rows
        BY <1>2, <2>1
    <2>3. ASSUME NEW r \in todo'[h]
          PROVE  Stage(s, r) = "armed" /\ Stage(s, r)' = "chosen"
        <3>1. r \in Rows /\ ~IsCounted(s, r) /\ ~IsChosen(s, r) /\ IsChosen(s, r)'
            BY <1>2, <1>3, <2>1, <2>3 DEF Choosing
        <3>2. ~Recorded(s, r)
            BY <1>1, <2>1, <2>3 DEF Recorded
        <3>3. window[s][r] = <<>> /\ lines[h][r] = <<>>
            BY <1>1, <3>1, <3>2 DEF HookInv, SeenIsRecorded
        <3>4. ~HasLine(s, r) /\ ~HasLine(s, r)'
            BY <1>3, <2>1, <3>1, <3>3
        <3>5. ~(Len(window[s][r]) > 1)
            BY <3>3
        <3> QED
            BY <2>1, <3>1, <3>3, <3>4, <3>5 DEF Stage
    <2>4. ASSUME NEW r \in Rows \ todo'[h]
          PROVE  Lifecycle!Remarked(Stage(s, r), Stage(s, r)')
        <3>1. HasLine(s, r)' <=> HasLine(s, r)
            BY <1>3, <2>1
        <3>2. ~IsChosen(s, r)' /\ ~IsChosen(s, r)
            BY <1>3, <2>1, <2>4 DEF Choosing
        <3> QED
            BY <2>1, <3>1, <3>2, StageRemarked
    <2>5. Lifecycle!Choose(s, todo'[h])
        <3> DEFINE R == todo'[h]
        <3> HIDE DEF R
        <3>1. R \in SUBSET Rows
            BY <2>2 DEF R
        <3>2. \A r \in R : Stage(s, r) = "armed" /\ Stage(s, r)' = "chosen"
            BY <2>3 DEF R
        <3>3. \A t \in Sessions, r \in Rows :
                 (t = s /\ r \in R) \/ Lifecycle!Remarked(Stage(t, r), Stage(t, r)')
            BY <1>5, <2>4 DEF R
        <3>4. Lifecycle!Choose(s, R)
            BY <1>1, <3>1, <3>2, <3>3, Chooses
        <3> QED
            BY <3>4 DEF R
    <2> QED
        BY <1>1, <2>2, <2>5 DEF Lifecycle!Next
<1>12. CASE Compact(h)
    <2> DEFINE R == {r \in Rows : Life[s][r] = "shown"}
    <2>1. /\ UNCHANGED <<firings, markers, lines>>
          /\ pc[h] = "idle" /\ pc'[h] = "readmax" /\ lines[h] = NoLines
          /\ window'[s] = NoLines
        BY <1>1, <1>2, <1>12 DEF Compact, HookInv, BriefIsBlank, storeVars
    <2>2. ASSUME NEW r \in Rows
          PROVE  /\ ~HasLine(s, r) /\ ~HasLine(s, r)' /\ ~IsChosen(s, r) /\ ~IsChosen(s, r)'
                 /\ IsCounted(s, r)' <=> IsCounted(s, r)
                 /\ window[s][r] # <<>> => IsCounted(s, r)
        <3>1. lines[h][r] = <<>> /\ lines'[h][r] = <<>>
            BY <2>1 DEF NoLines
        <3>2. window[s][r] # <<>> => FiredAfter(s, r, markers[s])
            BY <1>1 DEF HookInv, SeenIsRecorded, Recorded
        <3> QED
            BY <1>3, <1>6, <2>1, <3>1, <3>2 DEF Choosing
    <2>3. ASSUME NEW r \in Rows
          PROVE  /\ Stage(s, r) = IF window[s][r] # <<>> THEN "shown"
                                  ELSE IF IsCounted(s, r) THEN "spent" ELSE "armed"
                 /\ Stage(s, r)' = IF IsCounted(s, r) THEN "spent" ELSE "armed"
        <3>1. Stage(s, r) # "shown twice"
            BY <1>1, LifeType DEF Lifecycle!Stages
        <3>2. window'[s][r] = <<>> /\ ~(Len(window'[s][r]) > 1)
            BY <2>1 DEF NoLines
        <3> QED
            BY <2>2, <3>1, <3>2 DEF Stage
    <2>4. R = {r \in Rows : window[s][r] # <<>>}
        BY <1>1, <2>3 DEF Life
    <2>5. Lifecycle!Move(s, R, "shown", "spent")
        <3> HIDE DEF R
        <3>1. R \in SUBSET Rows
            BY <2>4
        <3>2. \A r \in R : Stage(s, r) = "shown" /\ Stage(s, r)' = "spent"
            BY <2>2, <2>3, <2>4
        <3>3. \A r \in Rows \ R : Stage(s, r)' = Stage(s, r)
            BY <2>3, <2>4
        <3> QED
            BY <1>1, <1>4, <2>1, <3>1, <3>2, <3>3, Moves
    <2> QED
        BY <1>1, <2>5 DEF Lifecycle!Next, Lifecycle!Wipe
<1>13. CASE Abort(h)
    <2> DEFINE R == {r \in Rows : Stage(s, r) \in {"chosen", "pending"}}
    <2>1. /\ UNCHANGED <<firings, markers, window>>
          /\ pc'[h] = "idle" /\ lines'[h] = NoLines
        BY <1>2, <1>13 DEF Abort, Reset, storeVars, worldVars
    <2>2. ASSUME NEW r \in Rows
          PROVE  /\ ~HasLine(s, r)' /\ ~IsChosen(s, r)'
                 /\ IsCounted(s, r)' <=> FiredAfter(s, r, markers[s])
                 /\ IsCounted(s, r) => FiredAfter(s, r, markers[s])
                 /\ HasLine(s, r) => FiredAfter(s, r, markers[s])
        <3>1. lines'[h][r] = <<>>
            BY <2>1 DEF NoLines
        <3>2. lines[h][r] # <<>> => FiredAfter(s, r, markers[s])
            BY <1>1 DEF HookInv, SeenIsRecorded, Recorded
        <3> QED
            BY <1>3, <1>6, <2>1, <3>1, <3>2 DEF Choosing
    <2>3. \A r \in R : \/ Stage(s, r) = "chosen" /\ Stage(s, r)' \in {"armed", "spent"}
                       \/ Stage(s, r) = "pending" /\ Stage(s, r)' = "spent"
        BY <2>1, <2>2 DEF Stage
    <2>4. \A r \in Rows \ R : \/ Stage(s, r)' = Stage(s, r)
                              \/ Stage(s, r) = "armed" /\ Stage(s, r)' = "spent"
        BY <2>1, <2>2 DEF Stage
    <2>5. R \in SUBSET Rows
        OBVIOUS
    <2> HIDE DEF R
    <2>6. Lifecycle!Drop(s, R)
        BY <1>1, <1>4, <2>1, <2>3, <2>4, <2>5, Drops
    <2> QED
        BY <1>1, <2>5, <2>6 DEF Lifecycle!Next
<1>14. CASE Score(h)
    <2> DEFINE R == {r \in todo[h] : ~Fires(firings, r)}
    <2>1. /\ UNCHANGED <<firings, markers, window, lines>>
          /\ pc[h] = "score"
          /\ todo'[h] = todo[h] \ R
          /\ pc'[h] = IF \E r \in todo[h] : Fires(firings, r) THEN "insert" ELSE "decide"
        BY <1>2, <1>14 DEF Score, storeVars, worldVars
    <2>2. R \in SUBSET Rows
        BY <1>2
    <2>3. ASSUME NEW r \in Rows
          PROVE  /\ HasLine(s, r)' <=> HasLine(s, r)
                 /\ IsChosen(s, r) <=> r \in todo[h]
                 /\ IsChosen(s, r)' <=> r \in todo[h] \ R
                 /\ IsCounted(s, r)' <=> IsCounted(s, r)
        <3>1. HasLine(s, r)' <=> HasLine(s, r)
            BY <1>3, <2>1
        <3>2. IsChosen(s, r) <=> r \in todo[h]
            BY <1>3, <2>1 DEF Choosing
        <3>3. pc'[h] \in Choosing \/ todo[h] \ R = {}
            BY <2>1 DEF Choosing
        <3>4. IsChosen(s, r)' <=> r \in todo[h] \ R
            BY <1>3, <2>1, <3>3
        <3>5. pc[h] # "dedup" /\ pc'[h] # "dedup"
            BY <2>1
        <3>6. IsCounted(s, r)' <=> IsCounted(s, r)
            BY <1>3, <1>6, <2>1, <3>5
        <3> QED
            BY <3>1, <3>2, <3>4, <3>6
    <2>4. \A r \in todo[h] : window[s][r] = <<>> /\ lines[h][r] = <<>>
        BY <1>1, <2>1 DEF HookInv, ChosenIsUnseen, Choosing
    <2> HIDE DEF R
    <2>5. ASSUME NEW r \in R
          PROVE  Stage(s, r) = "chosen" /\ Stage(s, r)' \in {"armed", "spent"}
        <3>1. r \in todo[h] /\ r \in Rows
            BY <2>2, <2>5 DEF R
        <3>2. window[s][r] = <<>> /\ ~(Len(window[s][r]) > 1) /\ ~HasLine(s, r)
            BY <1>3, <2>4, <3>1
        <3> QED
            BY <2>1, <2>3, <2>5, <3>1, <3>2 DEF Stage
    <2>6. ASSUME NEW r \in Rows \ R
          PROVE  Stage(s, r)' = Stage(s, r)
        BY <2>1, <2>3, StageKept
    <2>7. Lifecycle!Drop(s, R)
        BY <1>1, <1>4, <2>1, <2>2, <2>5, <2>6, Drops
    <2> QED
        BY <1>1, <2>2, <2>7 DEF Lifecycle!Next
<1>15. ASSUME NEW R \in SUBSET Rows, UNCHANGED <<firings, markers, window>>,
              pc[h] \in Choosing, R \subseteq todo[h], todo'[h] = todo[h] \ R,
              pc'[h] \in Choosing \/ todo'[h] = {}, pc'[h] # "dedup",
              \A r \in R : lines'[h][r] # <<>>,
              \A r \in Rows \ R : lines'[h][r] = lines[h][r]
       PROVE  Lifecycle!Next
    <2>1. ASSUME NEW r \in R
          PROVE  Stage(s, r) = "chosen" /\ Stage(s, r)' = "pending"
        <3>1. window[s][r] = <<>> /\ ~(Len(window[s][r]) > 1) /\ lines[h][r] = <<>>
            BY <1>1, <1>15 DEF HookInv, ChosenIsUnseen
        <3>2. ~HasLine(s, r) /\ IsChosen(s, r) /\ HasLine(s, r)'
            BY <1>3, <1>15, <3>1
        <3> QED
            BY <1>15, <3>1, <3>2 DEF Stage
    <2>2. ASSUME NEW r \in Rows \ R
          PROVE  Stage(s, r)' = Stage(s, r)
        <3>1. HasLine(s, r)' <=> HasLine(s, r)
            BY <1>3, <1>15
        <3>2. IsChosen(s, r)' <=> IsChosen(s, r)
            BY <1>3, <1>15
        <3>3. pc[h] # "dedup"
            BY <1>15 DEF Choosing
        <3>4. IsCounted(s, r)' <=> IsCounted(s, r)
            BY <1>3, <1>6, <1>15, <3>3
        <3> QED
            BY <1>15, <3>1, <3>2, <3>4, StageKept
    <2>3. Lifecycle!Log(s, R)
        BY <1>1, <1>4, <1>15, <2>1, <2>2, Moves DEF Lifecycle!Log
    <2> QED
        BY <1>1, <2>3 DEF Lifecycle!Next
<1>16. CASE EmitBatch(h)
    <2>1. /\ UNCHANGED <<firings, markers, window>>
          /\ pc[h] = "readback" /\ pc'[h] = "decide" /\ todo'[h] = {}
        BY <1>2, <1>16 DEF EmitBatch, storeVars
    <2>2. PICK id \in [todo[h] -> DOMAIN firings] :
            lines' = [lines EXCEPT ![h] =
                        [r \in Rows |-> IF r \in todo[h] THEN Append(@[r], id[r]) ELSE @[r]]]
        BY <1>16 DEF EmitBatch
    <2>3. \A r \in Rows : lines'[h][r] = IF r \in todo[h] THEN Append(lines[h][r], id[r])
                                         ELSE lines[h][r]
        BY <1>2, <2>2
    <2>4. \A r \in todo[h] : id[r] \in Nat
        BY <1>1, <2>2 DEF TypeOK, StoreType
    <2>5. todo[h] \in SUBSET Rows /\ pc[h] \in Choosing
        BY <1>2, <2>1 DEF Choosing
    <2>6. \A r \in todo[h] : lines'[h][r] # <<>>
        BY <1>2, <2>3, <2>4, AppendNotEmpty
    <2> QED
        BY <1>15, <2>1, <2>3, <2>5, <2>6
<1>17. CASE EmitRefired(h)
    <2>1. /\ UNCHANGED <<firings, markers, window>>
          /\ pc[h] = "remax" /\ todo'[h] = todo[h] \ {refired[h]}
          /\ pc'[h] = IF todo[h] = {refired[h]} THEN "decide" ELSE "refire"
        BY <1>2, <1>17 DEF EmitRefired, storeVars
    <2>2. refired[h] \in todo[h] /\ todo[h] \in SUBSET Rows
        BY <1>1, <1>2, <2>1 DEF HookInv, InsertedIsRecorded
    <2>3. \A r \in Rows : lines'[h][r] = IF r = refired[h] THEN Append(lines[h][r], Len(firings))
                                         ELSE lines[h][r]
        BY <1>2, <1>17 DEF EmitRefired
    <2>4. Len(firings) \in Nat
        BY <1>1 DEF TypeOK, StoreType
    <2>5. lines'[h][refired[h]] # <<>>
        BY <1>2, <2>2, <2>3, <2>4, AppendNotEmpty
    <2>6. /\ {refired[h]} \in SUBSET Rows /\ {refired[h]} \subseteq todo[h]
          /\ pc[h] \in Choosing /\ pc'[h] # "dedup"
          /\ pc'[h] \in Choosing \/ todo'[h] = {}
        BY <2>1, <2>2 DEF Choosing
    <2> QED
        BY <1>15, <2>1, <2>3, <2>5, <2>6
<1>18. CASE Inject(h)
    <2> DEFINE R == {r \in Rows : lines[h][r] # <<>>}
    <2>1. /\ UNCHANGED <<firings, markers>>
          /\ pc[h] = "print" /\ pc'[h] = "idle" /\ lines'[h] = NoLines
          /\ \A r \in Rows : window'[s][r] = window[s][r] \o lines[h][r]
        BY <1>1, <1>2, <1>18 DEF Inject, Reset, storeVars
    <2>2. ASSUME NEW r \in Rows
          PROVE  /\ HasLine(s, r) <=> lines[h][r] # <<>>
                 /\ ~HasLine(s, r)' /\ ~IsChosen(s, r) /\ ~IsChosen(s, r)'
                 /\ IsCounted(s, r)' <=> IsCounted(s, r)
        <3>1. lines'[h][r] = <<>>
            BY <2>1 DEF NoLines
        <3> QED
            BY <1>3, <1>6, <2>1, <3>1 DEF Choosing
    <2>3. ASSUME NEW r \in R
          PROVE  Stage(s, r) = "pending" /\ Stage(s, r)' = "shown"
        <3>1. r \in Rows /\ lines[h][r] # <<>>
            BY <2>3
        <3>2. Len(window[s][r]) + Len(lines[h][r]) <= 1
            BY <1>1, <3>1 DEF HookInv, OnceWithLines
        <3>3. window[s][r] = <<>> /\ ~(Len(lines[h][r]) > 1) /\ ~(Len(window[s][r]) > 1)
            <4>1. window[s][r] \in Seq(Nat) /\ lines[h][r] \in Seq(Nat)
                BY <1>1, <1>2, <3>1
            <4> QED
                BY <3>1, <3>2, <4>1, OneOfTwo, Zenon
        <3>4. window'[s][r] = lines[h][r]
            <4>1. lines[h][r] \in Seq(Nat)
                BY <1>2, <3>1
            <4>2. window'[s][r] = window[s][r] \o lines[h][r]
                BY <2>1, <3>1
            <4> QED
                BY <3>3, <4>1, <4>2, EmptyIsNeutral, Zenon
        <3> QED
            BY <2>2, <3>1, <3>3, <3>4 DEF Stage
    <2>4. ASSUME NEW r \in Rows \ R
          PROVE  Stage(s, r)' = Stage(s, r)
        <3>1. lines[h][r] = <<>>
            BY <2>4
        <3>2. window'[s][r] = window[s][r]
            <4>1. window[s][r] \in Seq(Nat)
                BY <1>1, <1>2
            <4>2. window'[s][r] = window[s][r] \o lines[h][r]
                BY <2>1
            <4> QED
                BY <3>1, <4>1, <4>2, EmptyIsNeutral, Zenon
        <3>3. HasLine(s, r)' <=> HasLine(s, r)
            BY <2>2, <3>1
        <3> QED
            BY <2>2, <3>2, <3>3, StageKept
    <2>5. R \in SUBSET Rows
        OBVIOUS
    <2> HIDE DEF R
    <2>6. Lifecycle!Show(s, R)
        BY <1>1, <1>4, <2>1, <2>3, <2>4, <2>5, Moves DEF Lifecycle!Show
    <2> QED
        BY <1>1, <2>5, <2>6 DEF Lifecycle!Next
<1> QED
    BY <1>8, <1>9, <1>10, <1>11, <1>12, <1>13, <1>14, <1>16, <1>17, <1>18
    DEF HookActs, HookStep, Disclose

\* With one hook at a time per session, every row of every session goes through
\* the lifecycle of RowLifecycle, whatever fails and however sessions interleave.
THEOREM Refinement ==
    ASSUME OneHookPerSession
    PROVE  Spec => ImplementsLifecycle
<1>1. Init => OnceInv
    BY OnceInit
<1>2. OnceInv /\ [Next]_vars => OnceInv'
    BY OnceStep
<1>3. Init => Lifecycle!Init
    <2> SUFFICES ASSUME Init, NEW s \in Sessions, NEW r \in Rows
                 PROVE  Stage(s, r) = "armed"
        BY DEF Lifecycle!Init, Life
    <2>1. window[s][r] = <<>> /\ ~(Len(window[s][r]) > 1)
        BY DEF Init, NoLines
    <2>2. ~HasLine(s, r) /\ ~IsChosen(s, r) /\ ~IsCounted(s, r)
        BY DEF Init, NoLines, HasLine, IsChosen, IsCounted, FiredAfter
    <2> QED
        BY <2>1, <2>2 DEF Stage
<1>4. OnceInv /\ [Next]_vars => [Lifecycle!Next]_Life
    <2> SUFFICES ASSUME OnceInv, [Next]_vars
                 PROVE  Lifecycle!Next \/ Life' = Life
        OBVIOUS
    <2>1. CASE UNCHANGED <<markers, pc, workVars, briefVars, worldVars>>
        <3>1. ASSUME NEW s \in Sessions, NEW r \in Rows
              PROVE  Stage(s, r)' = Stage(s, r)
            <4>1. \A h \in Hooks : ~InsertBatch(h) /\ \A q \in Rows : ~Refire(h, q)
                BY <2>1 DEF OnceInv, TypeOK, ControlType, InsertBatch, Refire, Goto
            <4>2. \A floor : FiredAfter(s, r, floor) <=> CountedNext(s, r, floor)
                BY <4>1, FiredMonotone, CountedBefore DEF OnceInv
            <4>3. IsCounted(s, r)' <=>
                    /\ CountedNext(s, r, markers'[s])
                    /\ \A h \in Hooks : Owner[h] = s /\ pc'[h] = "dedup" =>
                          CountedNext(s, r, floorArg'[h])
                BY DEF IsCounted, FiredAfter, CountedNext
            <4>4. IsCounted(s, r)' <=> IsCounted(s, r)
                BY <2>1, <4>2, <4>3 DEF IsCounted, briefVars
            <4>5. HasLine(s, r)' <=> HasLine(s, r)
                BY <2>1 DEF HasLine, workVars
            <4>6. IsChosen(s, r)' <=> IsChosen(s, r)
                BY <2>1 DEF IsChosen, workVars
            <4> QED
                BY <2>1, <4>4, <4>5, <4>6, StageKept DEF worldVars
        <3> QED
            BY <3>1, LifeKept
    <2> QED
        BY <2>1, LifeOwn, WhoActs
<1> QED
    BY <1>1, <1>2, <1>3, <1>4, PTL DEF Spec, ImplementsLifecycle, Lifecycle!Spec
=============================================================================
