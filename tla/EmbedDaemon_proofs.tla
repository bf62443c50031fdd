------------------------- MODULE EmbedDaemon_proofs -------------------------
(***************************************************************************)
(* One warm daemon per machine, proved for any number of daemons and       *)
(* hooks, each of which may be killed anywhere.                            *)
(***************************************************************************)
EXTENDS EmbedDaemon, FiniteSetTheorems, TLAPS

\* Of two daemons that start or leave at once, both know it.
MovesAlone == \A d, e \in Moving : d # e => d \in overlapped

\* A daemon that has bound the path, and was not crossed, still has it.
HoldsPath ==
    \A d \in Daemons \ overlapped : daemon[d] \in {"bound", "serving"} => sock = d

\* Whoever is about to unlink a stale file finds no good daemon behind it.
UnlinksStale ==
    \A d, e \in Daemons :
        daemon[d] = "unlink" /\ daemon[e] = "serving" => e \in overlapped

OneInv == TypeOK /\ MovesAlone /\ HoldsPath /\ UnlinksStale

DaemonActs(d) == Start(d) \/ Close(d) \/ UnlinkOwn(d) \/ Die(d)

HookActs(h) == LoadCache(h) \/ HookStep(h) \/ KillHook(h)

-----------------------------------------------------------------------------
(* Types *)

LEMMA TypeInit == Init => TypeOK
    BY EmbedDaemonAssumption DEF Init, TypeOK

\* The daemon a hook starts is one that was not started before.
LEMMA StartsUnused ==
    ASSUME NEW free, free # {}
    PROVE  (CHOOSE d \in free : TRUE) \in free
    OBVIOUS

LEMMA TypeHook ==
    ASSUME TypeOK, NEW h \in Hooks, HookActs(h)
    PROVE  TypeOK'
<1> USE DEF TypeOK, Goto
<1>1. CASE LoadCache(h)
    BY <1>1 DEF LoadCache
<1>2. CASE AskDaemon(h)
    BY <1>2 DEF AskDaemon, Learn
<1>3. CASE FallBack(h)
    <2> DEFINE free == {d \in Daemons : daemon[d] = "none"}
               new == CHOOSE d \in free : TRUE
    <2>1. \/ UNCHANGED <<daemon, overlapped>>
          \/ /\ new \in Daemons
             /\ daemon' = [daemon EXCEPT ![new] = "boot"]
             /\ overlapped' \subseteq overlapped \cup Moving \cup {new}
        BY <1>3, StartsUnused DEF FallBack
    <2> HIDE DEF new
    <2>2. /\ daemon' \in [Daemons -> {"none", "boot", "unlink", "bind", "bound",
                                       "serving", "closing", "gone"}]
          /\ overlapped' \subseteq Daemons
        BY <2>1 DEF Moving
    <2>3. /\ pc' \in [Hooks -> {"idle", "ask", "truncate", "save", "served", "lexical"}]
          /\ known' \in [Hooks -> SUBSET Texts]
        BY <1>3 DEF FallBack, Learn
    <2> QED
        BY <1>3, <2>2, <2>3 DEF FallBack
<1>4. CASE TruncateCache(h)
    BY <1>4 DEF TruncateCache
<1>5. CASE SaveCache(h)
    BY <1>5 DEF SaveCache
<1>6. CASE Leave(h) \/ KillHook(h)
    BY <1>6 DEF Leave, KillHook, Exit
<1> QED
    BY <1>1, <1>2, <1>3, <1>4, <1>5, <1>6 DEF HookActs, HookStep

LEMMA TypeDaemon ==
    ASSUME TypeOK, NEW d \in Daemons, DaemonActs(d)
    PROVE  TypeOK'
<1> USE DEF TypeOK, To
<1>1. CASE Probe(d)
    BY <1>1 DEF Probe
<1>2. CASE UnlinkStale(d)
    BY <1>2 DEF UnlinkStale
<1>3. CASE Bind(d)
    BY <1>3 DEF Bind
<1>4. CASE Listen(d)
    BY <1>4 DEF Listen
<1>5. CASE Close(d)
    BY <1>5 DEF Close, Moving
<1>6. CASE UnlinkOwn(d)
    BY <1>6 DEF UnlinkOwn
<1>7. CASE Die(d)
    BY <1>7 DEF Die
<1> QED
    BY <1>1, <1>2, <1>3, <1>4, <1>5, <1>6, <1>7 DEF DaemonActs, Start

\* A step is a hook's, a daemon's, or none.
LEMMA WhoActs ==
    ASSUME [Next]_vars
    PROVE  \/ \E h \in Hooks : HookActs(h)
           \/ \E d \in Daemons : DaemonActs(d)
           \/ UNCHANGED vars
    BY DEF Next, HookActs, DaemonActs

-----------------------------------------------------------------------------
(* One daemon *)

LEMMA OneInit == Init => OneInv
    BY TypeInit, EmbedDaemonAssumption
       DEF Init, OneInv, MovesAlone, HoldsPath, UnlinksStale, Moving

\* Only the hook that starts a daemon touches what the invariant is about.
LEMMA HookKeeps ==
    ASSUME OneInv, NEW h \in Hooks, HookActs(h)
    PROVE  (MovesAlone /\ HoldsPath /\ UnlinksStale)'
<1> USE DEF OneInv, TypeOK, MovesAlone, HoldsPath, UnlinksStale, Moving
<1>1. CASE UNCHANGED <<sock, daemon, overlapped>>
    BY <1>1
<1>2. CASE FallBack(h)
    <2> DEFINE free == {d \in Daemons : daemon[d] = "none"}
               new == CHOOSE d \in free : TRUE
    <2>1. CASE free = {}
        BY <1>1, <1>2, <2>1 DEF FallBack
    <2>2. CASE free # {}
        <3>1. new \in Daemons /\ daemon[new] = "none"
            BY <2>2, StartsUnused
        <3>2. /\ daemon' = [daemon EXCEPT ![new] = "boot"]
              /\ overlapped' = IF Moving = {} THEN overlapped
                               ELSE overlapped \cup Moving \cup {new}
              /\ sock' = sock
            BY <1>2, <2>2 DEF FallBack
        <3> HIDE DEF new
        <3>3. Moving' = Moving \cup {new}
            BY <3>1, <3>2
        <3>4. MovesAlone'
            BY <3>2, <3>3
        <3>5. HoldsPath' /\ UnlinksStale'
            BY <3>1, <3>2
        <3> QED
            BY <3>4, <3>5
    <2> QED
        BY <2>1, <2>2
<1> QED
    BY <1>1, <1>2 DEF HookActs, HookStep, LoadCache, AskDaemon, TruncateCache,
                      SaveCache, Leave, KillHook, Exit

LEMMA DaemonKeeps ==
    ASSUME OneInv, NEW d \in Daemons, DaemonActs(d)
    PROVE  (MovesAlone /\ HoldsPath /\ UnlinksStale)'
<1> USE EmbedDaemonAssumption
    DEF OneInv, TypeOK, MovesAlone, HoldsPath, UnlinksStale, Moving, To
<1>1. CASE Probe(d)
    <2>1. /\ sock' = sock /\ overlapped' = overlapped
          /\ Moving' \subseteq Moving
          /\ \A e \in Daemons : daemon'[e] \in {"bound", "serving"} => daemon'[e] = daemon[e]
        BY <1>1 DEF Probe
    <2>2. MovesAlone' /\ HoldsPath'
        BY <2>1
    <2>3. UnlinksStale'
        BY <1>1 DEF Probe, Serving
    <2> QED
        BY <2>2, <2>3
<1>2. CASE UnlinkStale(d)
    <2>1. \A e \in Daemons \ overlapped : daemon[e] \notin {"bound", "serving"}
        BY <1>2 DEF UnlinkStale
    <2> QED
        BY <1>2, <2>1 DEF UnlinkStale
<1>3. CASE Bind(d)
    BY <1>3 DEF Bind
<1>4. CASE Listen(d)
    <2>1. /\ sock' = sock /\ overlapped' = overlapped
          /\ daemon[d] = "bound"
          /\ daemon' = [daemon EXCEPT ![d] = "serving"]
        BY <1>4 DEF Listen
    <2>2. MovesAlone' /\ HoldsPath'
        BY <2>1
    <2>3. UnlinksStale'
        BY <2>1
    <2> QED
        BY <2>2, <2>3
<1>5. CASE Close(d)
    <2>1. Moving' = Moving \cup {d}
        BY <1>5 DEF Close
    <2>2. MovesAlone'
        BY <1>5, <2>1 DEF Close
    <2>3. HoldsPath' /\ UnlinksStale'
        BY <1>5 DEF Close
    <2> QED
        BY <2>2, <2>3
<1>6. CASE UnlinkOwn(d)
    <2>1. \A e \in Daemons \ overlapped' : daemon'[e] \notin {"bound", "serving"}
        BY <1>6 DEF UnlinkOwn
    <2> QED
        BY <1>6, <2>1 DEF UnlinkOwn
<1>7. CASE Die(d)
    BY <1>7 DEF Die
<1> QED
    BY <1>1, <1>2, <1>3, <1>4, <1>5, <1>6, <1>7 DEF DaemonActs, Start

LEMMA OneStep == OneInv /\ [Next]_vars => OneInv'
<1> SUFFICES ASSUME OneInv, [Next]_vars
             PROVE  OneInv'
    OBVIOUS
<1>1. CASE \E h \in Hooks : HookActs(h)
    BY <1>1, TypeHook, HookKeeps DEF OneInv
<1>2. CASE \E d \in Daemons : DaemonActs(d)
    BY <1>2, TypeDaemon, DaemonKeeps DEF OneInv
<1>3. CASE UNCHANGED vars
    BY <1>3 DEF vars, OneInv, TypeOK, MovesAlone, HoldsPath, UnlinksStale, Moving
<1> QED
    BY <1>1, <1>2, <1>3, WhoActs

\* Every variable keeps its type, for any hooks, texts and daemons.
THEOREM TypeCorrect == Spec => []TypeOK
<1>1. OneInv => TypeOK
    BY DEF OneInv
<1> QED
    BY <1>1, OneInit, OneStep, PTL DEF Spec

\* However many daemons are started, killed or displaced, at most one serves among
\* those that no other crossed.
THEOREM OneServes == Spec => []OneDaemon
<1>1. ASSUME OneInv
      PROVE  OneDaemon
    <2> DEFINE S == {d \in Daemons \ overlapped : daemon[d] = "serving"}
    <2>1. S = {} \/ S = {sock}
        BY <1>1 DEF OneInv, HoldsPath
    <2>2. Cardinality(S) \in {0, 1}
        BY <2>1, FS_EmptySet, FS_Singleton
    <2> QED
        BY <2>2 DEF OneDaemon
<1> QED
    BY <1>1, OneInit, OneStep, PTL DEF Spec
=============================================================================
