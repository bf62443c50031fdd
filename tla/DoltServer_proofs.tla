-------------------------- MODULE DoltServer_proofs -------------------------
(***************************************************************************)
(* Where a statement for a Dolt store runs and what its caller is told,    *)
(* proved for any clients, stores, pids and faults.                        *)
(***************************************************************************)
EXTENDS DoltServer, FiniteSetTheorems, TLAPS

Working == {"lock", "spawn", "poll", "wire", "connect", "send", "cli"}

\* A process that is or was a server of this model was started for a store.
ServersHaveStores ==
    \A p \in Pids : proc[p].state \in {"starting", "listening", "stopping"} =>
        proc[p].store \in Stores

TypeInv == TypeOK /\ path \in Paths /\ ServersHaveStores

\* A connection opened by an info file whose process could be looked at is to a
\* process that first served the client's store: no other store's server ever
\* gets its pid.
ConnKnown ==
    \A c \in Clients \ unsure : conn[c] \in Pids =>
        proc[conn[c]].state # "none" /\ proc[conn[c]].store = path[c]

HasConn == \A c \in Clients : pc[c] \in {"connect", "send"} => conn[c] \in Pids

\* How often a client's statement may have run, and what is said of it.
TrueOf(c) ==
    /\ \A s \in Stores : ran[c][s] > 0 => s = path[c]
    /\ pc[c] = "cli" => ran[c][path[c]] <= (IF broke[c] THEN 1 ELSE 0)
    /\ ran[c][path[c]] <= (IF broke[c] THEN 2 ELSE 1)
    /\ outcome[c] = "ok" => ran[c][path[c]] >= 1
    /\ outcome[c] = "error" /\ ~broke[c] => ran[c][path[c]] = 0

\* Until the statement is sent nothing has run, whoever the client trusts.
CountOf(c) ==
    /\ pc[c] \in Working \ {"cli"} => ~broke[c] /\ \A s \in Stores : ran[c][s] = 0
    /\ pc[c] \in Working => outcome[c] = "none"
    /\ c \notin unsure => TrueOf(c)

TruthInv == TypeInv /\ HasConn /\ ConnKnown /\ \A c \in Clients : CountOf(c)

ClientActs(c) == Call(c) \/ Lock(c) \/ Step(c) \/ Exchange(c) \/ Killed(c)

ServerActs(p) == Listen(p) \/ Die(p) \/ Exit(p) \/ Reuse(p)

StopActs(s) == StopReads(s) \/ StopTerm(s) \/ StopKill(s)

LEMMA WhoActs ==
    ASSUME [Next]_vars
    PROVE  \/ \E c \in Clients : ClientActs(c)
           \/ \E p \in Pids : ServerActs(p)
           \/ \E s \in Stopped : StopActs(s)
           \/ \E copy \in Copies : Copy(copy[1], copy[2])
           \/ UNCHANGED vars
    BY DEF Next, ClientActs, ServerActs, StopActs

-----------------------------------------------------------------------------
(* Types *)

LEMMA TypeInit == Init => TypeInv
<1> SUFFICES ASSUME Init
             PROVE  TypeInv
    OBVIOUS
<1> QED
    BY DoltServerAssumption DEF Init, TypeInv, TypeOK, ServersHaveStores, Steps, Nobody

ProcType ==
    /\ proc \in [Pids -> [store : Stores \cup {"nowhere"},
                          state : {"none", "starting", "listening", "stopping", "dead", "foreign"}]]
    /\ ServersHaveStores

\* A process changes its state and keeps its store.
LEMMA StateTyped ==
    ASSUME ProcType, NEW p \in Pids,
           NEW st \in {"listening", "stopping", "dead", "foreign"},
           st \in {"dead", "foreign"} \/ proc[p].store \in Stores,
           InState(p, st)
    PROVE  ProcType'
<1> USE DEF InState, ProcType
<1>1. proc' \in [Pids -> [store : Stores \cup {"nowhere"},
                         state : {"none", "starting", "listening", "stopping", "dead", "foreign"}]]
    OBVIOUS
<1>2. \A q \in Pids : /\ proc'[q].store = proc[q].store
                      /\ proc'[q].state = IF q = p THEN st ELSE proc[q].state
    OBVIOUS
<1> QED
    BY <1>1, <1>2 DEF ServersHaveStores

LEMMA TypeClient ==
    ASSUME TypeInv, NEW c \in Clients, ClientActs(c)
    PROVE  TypeInv'
<1> USE DoltServerAssumption
    DEF TypeInv, TypeOK, ServersHaveStores, Steps, Goto, clientVars, history
<1>0. ASSUME Afresh(c)
      PROVE  /\ broke' \in [Clients -> BOOLEAN]
             /\ outcome' \in [Clients -> {"none", "ok", "error"}]
             /\ ran' \in [Clients -> [Stores -> Nat]]
    <2>1. [s \in Stores |-> 0] \in [Stores -> Nat]
        OBVIOUS
    <2> QED
        BY <1>0, <2>1 DEF Afresh
<1>1. CASE Call(c)
    <2>1. calls' \in [Clients -> Nat] /\ pc' \in [Clients -> Steps]
        BY <1>1 DEF Call
    <2> QED
        BY <1>1, <1>0, <2>1 DEF Call
<1>2. CASE Lock(c)
    <2>1. \/ Goto(c, "wire") /\ UNCHANGED spawnLock
          \/ Goto(c, "spawn") /\ spawnLock' = spawnLock \cup {c}
        BY <1>2 DEF Lock
    <2> QED
        BY <1>2, <2>1 DEF Lock
<1>3. CASE Spawn(c)
    <2>1. ASSUME NEW new \in Unused,
                 proc' = [proc EXCEPT ![new] = [store |-> path[c], state |-> "starting"]]
          PROVE  TypeInv'
        <3>1. new \in Pids
            BY <2>1 DEF Unused
        <3>2. /\ proc' \in [Pids -> [store : Stores \cup {"nowhere"},
                 state : {"none", "starting", "listening", "stopping", "dead", "foreign"}]]
              /\ ServersHaveStores'
            BY <2>1, <3>1
        <3> QED
            BY <1>3, <3>2 DEF Spawn
    <2>2. CASE UNCHANGED proc
        BY <1>3, <2>2 DEF Spawn
    <2> QED
        BY <1>3, <2>1, <2>2 DEF Spawn
<1>4. CASE Poll(c)
    BY <1>4 DEF Poll
<1>5. CASE Resolve(c)
    <2>1. Address(path[c]) \in Pids \cup {NoPid}
        BY DEF Address, Accepting, Alive
    <2>2. conn' = conn \/ conn' = [conn EXCEPT ![c] = Address(path[c])]
        BY <1>5 DEF Resolve
    <2>3. unsure' \subseteq unsure \cup {c}
        BY <1>5 DEF Resolve
    <2>4. \E next \in Steps : pc' = [pc EXCEPT ![c] = next]
        BY <1>5 DEF Resolve
    <2>5. pc' \in [Clients -> Steps]
        BY <2>4
    <2>6. conn' \in [Clients -> Pids \cup {NoPid}]
        BY <2>1, <2>2
    <2>7. unsure' \subseteq Clients
        BY <2>3
    <2> QED
        BY <1>5, <2>5, <2>6, <2>7 DEF Resolve
<1>6. CASE Connect(c)
    <2>1. \E q \in Pids \cup {NoPid} : conn' = [conn EXCEPT ![c] = q]
        BY <1>6 DEF Connect, AtPortOf
    <2>2. wireDead' \in [Clients -> BOOLEAN] /\ pc' \in [Clients -> Steps]
        BY <1>6 DEF Connect
    <2>3. conn' \in [Clients -> Pids \cup {NoPid}]
        BY <2>1
    <2> QED
        BY <1>6, <2>2, <2>3 DEF Connect
<1>7. CASE Send(c)
    <2>1. conn[c] \in Pids \cup {NoPid} /\ (Listening(conn[c]) => proc[conn[c]].store \in Stores)
        BY DEF Listening
    <2>2. /\ pc' \in [Clients -> Steps]
          /\ conn' \in [Clients -> Pids \cup {NoPid}]
          /\ broke' \in [Clients -> BOOLEAN]
          /\ outcome' \in [Clients -> {"none", "ok", "error"}]
        BY <1>7 DEF Send, Answered, Refused, Broken, Return
    <2>3. ran' \in [Clients -> [Stores -> Nat]]
        <3>1. ASSUME Listening(conn[c]), RunsIn(c, proc[conn[c]].store)
              PROVE  ran' \in [Clients -> [Stores -> Nat]]
            <4>1. proc[conn[c]].store \in Stores
                BY <2>1, <3>1
            <4> QED
                BY <3>1, <4>1 DEF RunsIn
        <3> QED
            BY <1>7, <3>1 DEF Send, Answered, Refused, Broken
    <2> QED
        BY <1>7, <2>2, <2>3 DEF Send
<1>8. CASE CommandLine(c)
    <2>1. /\ pc' \in [Clients -> Steps]
          /\ outcome' \in [Clients -> {"none", "ok", "error"}]
        BY <1>8 DEF CommandLine, Return
    <2>2. path[c] \in Stores
        OBVIOUS
    <2>3. ran' \in [Clients -> [Stores -> Nat]]
        <3>1. CASE RunsIn(c, path[c])
            BY <2>2, <3>1 DEF RunsIn
        <3>2. CASE UNCHANGED ran
            BY <3>2
        <3> QED
            BY <1>8, <3>1, <3>2 DEF CommandLine
    <2> QED
        BY <1>8, <2>1, <2>3 DEF CommandLine
<1>9. CASE Killed(c)
    BY <1>0, <1>9 DEF Killed
<1> QED
    BY <1>1, <1>2, <1>3, <1>4, <1>5, <1>6, <1>7, <1>8, <1>9 DEF ClientActs, Step, Exchange

LEMMA TypeServer ==
    ASSUME TypeInv, NEW p \in Pids, ServerActs(p)
    PROVE  TypeInv'
<1> USE DoltServerAssumption DEF TypeInv, TypeOK, Steps, clientVars, history
<1>1. ProcType
    BY DEF ProcType
<1>2. CASE Listen(p)
    <2>1. proc[p].store \in Stores
        BY <1>2 DEF Listen, ServersHaveStores
    <2>2. InState(p, "dead") \/ InState(p, "listening")
        BY <1>2 DEF Listen
    <2>3. ProcType'
        BY <1>1, <2>1, <2>2, StateTyped
    <2>4. info' \in [Stores -> Pids \cup {NoPid}] /\ late' \subseteq Stores
        <3>1. \/ info' = [info EXCEPT ![proc[p].store] = NoPid]
              \/ info' = [info EXCEPT ![proc[p].store] = p]
            BY <1>2 DEF Listen
        <3>2. late' \subseteq late \cup {proc[p].store}
            BY <1>2 DEF Listen
        <3> QED
            BY <2>1, <3>1, <3>2
    <2> QED
        BY <1>2, <2>3, <2>4 DEF Listen, ProcType
<1>3. CASE Die(p)
    <2>1. proc[p].store \in Stores
        BY <1>3 DEF Die, ServersHaveStores
    <2>2. ProcType'
        BY <1>1, <1>3, StateTyped DEF Die
    <2> QED
        BY <1>3, <2>1, <2>2 DEF Die, ProcType
<1>4. CASE Exit(p)
    <2>1. ProcType'
        BY <1>1, <1>4, StateTyped DEF Exit
    <2> QED
        BY <1>4, <2>1 DEF Exit, ProcType
<1>5. CASE Reuse(p)
    <2>1. ProcType'
        BY <1>1, <1>5, StateTyped DEF Reuse
    <2> QED
        BY <1>5, <2>1 DEF Reuse, ProcType
<1> QED
    BY <1>2, <1>3, <1>4, <1>5 DEF ServerActs

StopperType ==
    stopper \in [Stopped -> [pc : {"idle", "term", "kill"}, pid : Pids \cup {NoPid}]]

LEMMA StopperTyped ==
    ASSUME StopperType, NEW s \in Stopped,
           stopper' = [stopper EXCEPT ![s].pc = "kill"]
    PROVE  StopperType'
    BY DEF StopperType

LEMMA TypeStop ==
    ASSUME TypeInv, NEW s \in Stopped, StopActs(s)
    PROVE  TypeInv'
<1> USE DoltServerAssumption DEF TypeInv, TypeOK, Steps, Nobody, clientVars, history
<1>1. ProcType
    BY DEF ProcType
<1>2. CASE StopReads(s)
    BY <1>2 DEF StopReads, Alive, ServersHaveStores
<1>3. CASE StopTerm(s)
    <2> DEFINE p == stopper[s].pid
    <2>1. CASE stopper' = [stopper EXCEPT ![s] = Nobody] /\ UNCHANGED <<info, proc, late>>
        <3>2. stopper' \in [Stopped -> [pc : {"idle", "term", "kill"}, pid : Pids \cup {NoPid}]]
            BY <2>1
        <3> QED
            BY <1>3, <2>1, <3>2 DEF StopTerm, ServersHaveStores
    <2>2. CASE Alive(p) /\ stopper' = [stopper EXCEPT ![s].pc = "kill"]
        <3>1. StopperType'
            BY <2>2, StopperTyped DEF StopperType
        <3>2. CASE InState(p, "dead") /\ UNCHANGED <<info, late>>
            <4>1. ProcType'
                BY <1>1, <2>2, <3>2, StateTyped DEF Alive
            <4> QED
                BY <1>3, <3>1, <3>2, <4>1 DEF StopTerm, ProcType, StopperType
        <3>3. CASE /\ proc[p].state # "foreign"
                   /\ InState(p, "stopping")
                   /\ info' = [t \in Stores |-> IF t = proc[p].store /\ info[t] = p THEN NoPid
                                               ELSE info[t]]
                   /\ late' = late \cup {proc[p].store}
            <4>1. p \in Pids /\ proc[p].store \in Stores
                BY <2>2, <3>3 DEF Alive, ServersHaveStores
            <4>2. ProcType'
                BY <1>1, <3>3, <4>1, StateTyped
            <4>3. info' \in [Stores -> Pids \cup {NoPid}] /\ late' \subseteq Stores
                BY <3>3, <4>1
            <4> QED
                BY <1>3, <3>1, <4>2, <4>3 DEF StopTerm, ProcType, StopperType
        <3> QED
            BY <1>3, <2>2, <3>2, <3>3 DEF StopTerm
    <2> QED
        BY <1>3, <2>1, <2>2 DEF StopTerm
<1>4. CASE StopKill(s)
    <2>1. ProcType'
        <3>1. CASE Alive(stopper[s].pid) /\ InState(stopper[s].pid, "dead")
            BY <1>1, <3>1, StateTyped DEF Alive
        <3>2. CASE UNCHANGED proc
            BY <1>1, <3>2 DEF ProcType, ServersHaveStores
        <3> QED
            BY <1>4, <3>1, <3>2 DEF StopKill
    <2>2. stopper' \in [Stopped -> [pc : {"idle", "term", "kill"}, pid : Pids \cup {NoPid}]]
        BY <1>4 DEF StopKill
    <2> QED
        BY <1>4, <2>1, <2>2 DEF StopKill, ProcType
<1> QED
    BY <1>2, <1>3, <1>4 DEF StopActs

LEMMA TypeCopy ==
    ASSUME TypeInv, NEW copy \in Copies, Copy(copy[1], copy[2])
    PROVE  TypeInv'
    BY DoltServerAssumption
       DEF TypeInv, TypeOK, ServersHaveStores, Steps, Copy, clientVars, history

LEMMA TypeStep == TypeInv /\ [Next]_vars => TypeInv'
<1> SUFFICES ASSUME TypeInv, [Next]_vars
             PROVE  TypeInv'
    OBVIOUS
<1>1. CASE UNCHANGED vars
    BY <1>1 DEF vars, clientVars, history, TypeInv, TypeOK, ServersHaveStores, Steps
<1> QED
    BY <1>1, TypeClient, TypeServer, TypeStop, TypeCopy, WhoActs

\* Every variable keeps its type, and a server was started for a store.
THEOREM TypeCorrect == Spec => []TypeOK
<1>1. TypeInv => TypeOK
    BY DEF TypeInv
<1> QED
    BY <1>1, TypeInit, TypeStep, PTL DEF Spec

-----------------------------------------------------------------------------
(* Connections *)

\* A process that was a server once keeps the store it was started for.
LEMMA ConnStays ==
    ASSUME TypeInv, ConnKnown, UNCHANGED <<conn, path, unsure>>,
           \A q \in Pids : proc[q].state # "none" =>
               proc'[q].state # "none" /\ proc'[q].store = proc[q].store
    PROVE  ConnKnown'
    BY DEF TypeInv, TypeOK, ConnKnown

LEMMA HasConnStep ==
    ASSUME TypeInv, HasConn, [Next]_vars
    PROVE  HasConn'
<1> USE DoltServerAssumption DEF TypeInv, TypeOK, HasConn, Goto
<1>1. CASE UNCHANGED <<pc, conn>>
    BY <1>1
<1>2. ASSUME NEW c \in Clients, Resolve(c)
      PROVE  HasConn'
    <2>1. CASE pc' = [pc EXCEPT ![c] = "cli"] /\ UNCHANGED conn
        BY <2>1
    <2>2. CASE conn[c] # NoPid /\ pc' = [pc EXCEPT ![c] = "send"] /\ UNCHANGED conn
        BY <2>2
    <2>3. CASE /\ conn' = [conn EXCEPT ![c] = Address(path[c])]
               /\ Goto(c, IF Address(path[c]) = NoPid THEN "cli" ELSE "connect")
        <3>1. Address(path[c]) \in Pids \cup {NoPid}
            BY DEF Address, Accepting, Alive
        <3>2. \/ Address(path[c]) = NoPid /\ pc' = [pc EXCEPT ![c] = "cli"]
              \/ Address(path[c]) # NoPid /\ pc' = [pc EXCEPT ![c] = "connect"]
            BY <2>3
        <3> QED
            BY <2>3, <3>1, <3>2
    <2> QED
        BY <1>2, <2>1, <2>2, <2>3 DEF Resolve
<1>3. ASSUME NEW c \in Clients, Connect(c)
      PROVE  HasConn'
    BY <1>3 DEF Connect, AtPortOf
<1>4. ASSUME NEW c \in Clients, \E next \in Steps \ {"connect", "send"} : pc' = [pc EXCEPT ![c] = next],
             conn' = conn \/ \E p : conn' = [conn EXCEPT ![c] = p]
      PROVE  HasConn'
    BY <1>4
<1>5. ASSUME NEW c \in Clients,
             Call(c) \/ Lock(c) \/ Spawn(c) \/ Poll(c) \/ Send(c) \/ CommandLine(c) \/ Killed(c)
      PROVE  HasConn'
    <2>1. \E next \in Steps \ {"connect", "send"} : pc' = [pc EXCEPT ![c] = next]
        BY <1>5 DEF Call, Lock, Spawn, Poll, Send, Answered, Refused, Broken, CommandLine,
                    Return, Killed, Steps
    <2>2. conn' = conn \/ \E p : conn' = [conn EXCEPT ![c] = p]
        BY <1>5 DEF Call, Lock, Spawn, Poll, Send, Answered, Refused, Broken, CommandLine,
                    Killed, clientVars
    <2> QED
        BY <1>4, <2>1, <2>2
<1>6. ASSUME NEW p \in Pids, ServerActs(p)
      PROVE  UNCHANGED <<pc, conn>>
    BY <1>6 DEF ServerActs, Listen, Die, Exit, Reuse, clientVars
<1>7. ASSUME NEW s \in Stopped, StopActs(s)
      PROVE  UNCHANGED <<pc, conn>>
    BY <1>7 DEF StopActs, StopReads, StopTerm, StopKill, clientVars
<1> QED
    BY <1>1, <1>2, <1>3, <1>5, <1>6, <1>7, WhoActs
    DEF ClientActs, Step, Exchange, Copy, vars, clientVars

LEMMA ConnClient ==
    ASSUME TypeInv, HasConn, ConnKnown, NEW c \in Clients, ClientActs(c)
    PROVE  ConnKnown'
<1> USE DoltServerAssumption DEF TypeInv, TypeOK, ConnKnown
<1>1. CASE UNCHANGED <<conn, path, proc, unsure>>
    BY <1>1
<1>2. CASE Spawn(c)
    <2>1. \A q \in Pids : proc[q].state # "none" => proc'[q] = proc[q]
        BY <1>2 DEF Spawn, Unused
    <2> QED
        BY <1>2, <2>1, ConnStays DEF Spawn, clientVars, history
<1>3. CASE Resolve(c)
    <2>1. CASE UNCHANGED <<conn, unsure>>
        BY <1>3, <2>1 DEF Resolve
    <2>2. CASE /\ conn' = [conn EXCEPT ![c] = Address(path[c])]
               /\ unsure' = IF Address(path[c]) \in Unreadable THEN unsure \cup {c}
                                                              ELSE unsure \ {c}
        <3>1. ASSUME Address(path[c]) \in Pids \ Unreadable
              PROVE  /\ proc[Address(path[c])].state # "none"
                     /\ proc[Address(path[c])].store = path[c]
            BY <3>1 DEF Address, Accepting, Alive, Serves
        <3>2. UNCHANGED <<path, proc>>
            BY <1>3 DEF Resolve
        <3> QED
            BY <2>2, <3>1, <3>2
    <2> QED
        BY <1>3, <2>1, <2>2 DEF Resolve
<1>4. CASE Connect(c)
    <2>1. UNCHANGED <<path, proc, unsure>>
        BY <1>4 DEF Connect, history
    <2>2. CASE conn' = [conn EXCEPT ![c] = NoPid]
        BY <2>1, <2>2
    <2>3. ASSUME NEW q \in AtPortOf(conn[c]), conn' = [conn EXCEPT ![c] = q]
          PROVE  ConnKnown'
        <3>1. /\ proc[q].state = "listening" /\ proc[q].store = proc[conn[c]].store
              /\ conn[c] \in Pids
            BY <1>4, <2>3 DEF AtPortOf, Listening, Connect, HasConn
        <3> QED
            BY <2>1, <2>3, <3>1
    <2> QED
        BY <1>4, <2>2, <2>3 DEF Connect
<1>5. CASE Send(c)
    <2>1. UNCHANGED <<path, proc, unsure>>
        BY <1>5 DEF Send
    <2>2. UNCHANGED conn \/ conn' = [conn EXCEPT ![c] = NoPid]
        BY <1>5 DEF Send, Answered, Refused, Broken
    <2> QED
        BY <2>1, <2>2
<1>6. CASE Killed(c)
    BY <1>6 DEF Killed
<1> QED
    BY <1>1, <1>2, <1>3, <1>4, <1>5, <1>6
    DEF ClientActs, Step, Exchange, Call, Lock, Poll, CommandLine, clientVars, history

LEMMA ConnServer ==
    ASSUME TypeInv, ConnKnown, NEW p \in Pids, ServerActs(p)
    PROVE  ConnKnown'
<1> USE DEF TypeInv, TypeOK, InState
<1>1. \E st \in {"dead", "listening", "foreign"} : proc' = [proc EXCEPT ![p].state = st]
    BY DEF ServerActs, Listen, Die, Exit, Reuse
<1>2. UNCHANGED <<conn, path, unsure>>
    BY DEF ServerActs, Listen, Die, Exit, Reuse, clientVars, history
<1> QED
    BY <1>1, <1>2, ConnStays

LEMMA ConnStop ==
    ASSUME TypeInv, ConnKnown, NEW s \in Stopped, StopActs(s)
    PROVE  ConnKnown'
<1> USE DEF TypeInv, TypeOK, InState
<1> DEFINE p == stopper[s].pid
<1>1. \/ proc' = proc
      \/ /\ p \in Pids
         /\ \/ proc' = [proc EXCEPT ![p].state = "stopping"]
            \/ proc' = [proc EXCEPT ![p].state = "dead"]
    BY DEF StopActs, StopReads, StopTerm, StopKill, Alive
<1>2. UNCHANGED <<conn, path, unsure>>
    BY DEF StopActs, StopReads, StopTerm, StopKill, clientVars, history
<1>3. \A q \in Pids : proc[q].state # "none" =>
          proc'[q].state # "none" /\ proc'[q].store = proc[q].store
    <2> HIDE DEF p
    <2>1. ASSUME p \in Pids, NEW st \in {"stopping", "dead"}, proc' = [proc EXCEPT ![p].state = st],
                 NEW q \in Pids, proc[q].state # "none"
          PROVE  proc'[q].state # "none" /\ proc'[q].store = proc[q].store
        BY <2>1
    <2> QED
        BY <1>1, <2>1
<1> QED
    BY <1>2, <1>3, ConnStays

-----------------------------------------------------------------------------
(* What ran and what was said *)

LEMMA CountSame ==
    ASSUME NEW c \in Clients, CountOf(c), pc'[c] = pc[c], ran'[c] = ran[c],
           broke'[c] = broke[c], outcome'[c] = outcome[c], path'[c] = path[c],
           c \in unsure' <=> c \in unsure
    PROVE  CountOf(c)'
    BY DEF CountOf, TrueOf, Working

\* A client that only moves on, without running anything.
LEMMA CountMoves ==
    ASSUME TypeInv, NEW c \in Clients, CountOf(c),
           pc[c] \in Working \ {"cli"}, pc'[c] \in Working,
           ran'[c] = ran[c], broke'[c] = broke[c],
           outcome'[c] = outcome[c], path'[c] = path[c]
    PROVE  CountOf(c)'
    BY DEF CountOf, TrueOf, Working, TypeInv, TypeOK

LEMMA CountAfresh ==
    ASSUME TypeInv, NEW c \in Clients, Afresh(c), path' = path
    PROVE  CountOf(c)'
    BY DEF Afresh, CountOf, TrueOf, Working, TypeInv, TypeOK

LEMMA CountClient ==
    ASSUME TypeInv, HasConn, ConnKnown, \A e \in Clients : CountOf(e),
           NEW c \in Clients, ClientActs(c)
    PROVE  \A e \in Clients : CountOf(e)'
<1> USE DEF TypeInv, TypeOK, Goto, clientVars, history
<1>1. \A e \in Clients \ {c} : CountOf(e)'
    <2>1. \A e \in Clients \ {c} :
             /\ pc'[e] = pc[e] /\ ran'[e] = ran[e] /\ broke'[e] = broke[e]
             /\ outcome'[e] = outcome[e] /\ path'[e] = path[e]
             /\ e \in unsure' <=> e \in unsure
        BY DEF ClientActs, Step, Exchange, Call, Lock, Spawn, Poll, Resolve, Connect, Send,
               CommandLine, Killed, Afresh, Answered, Refused, Broken, RunsIn, Return
    <2> QED
        BY <2>1, CountSame
<1>2. CASE Call(c) \/ Killed(c)
    BY <1>1, <1>2, CountAfresh DEF Call, Killed
<1>3. CASE Lock(c) \/ Spawn(c) \/ Poll(c) \/ Resolve(c) \/ Connect(c)
    <2>1. /\ pc[c] \in Working \ {"cli"} /\ pc'[c] \in Working
          /\ ran' = ran /\ broke' = broke /\ outcome' = outcome /\ path' = path
        BY <1>3 DEF Lock, Spawn, Poll, Resolve, Connect, Working
    <2>2. CountOf(c)
        OBVIOUS
    <2>3. CountOf(c)'
        BY <2>1, <2>2, CountMoves
    <2> QED
        BY <1>1, <2>3
<1>4. CASE Send(c)
    <2>0. /\ pc[c] = "send" /\ conn[c] \in Pids
          /\ ~broke[c] /\ outcome[c] = "none" /\ \A s \in Stores : ran[c][s] = 0
          /\ UNCHANGED <<path, unsure>>
        BY <1>4 DEF Send, HasConn, CountOf, Working
    <2>1. CASE Listening(conn[c]) /\ RunsIn(c, proc[conn[c]].store) /\ c \notin unsure
        <3>1. proc[conn[c]].store = path[c] /\ path[c] \in Stores
            BY <2>0, <2>1 DEF ConnKnown
        <3>2. ran' = [ran EXCEPT ![c][path[c]] = @ + 1]
            BY <2>1, <3>1 DEF RunsIn
        <3>3. CASE Answered(c)
            BY <2>0, <2>1, <3>1, <3>2, <3>3 DEF Answered, Return, CountOf, TrueOf, Working
        <3>4. CASE Broken(c)
            BY <2>0, <2>1, <3>1, <3>2, <3>4 DEF Broken, CountOf, TrueOf, Working
        <3>5. ~Refused(c)
            BY <2>0, <3>1, <3>2 DEF Refused
        <3> QED
            BY <1>1, <1>4, <3>3, <3>4, <3>5 DEF Send
    <2>2. CASE UNCHANGED ran
        <3>1. Refused(c) \/ Broken(c)
            <4>1. ASSUME Answered(c)
                  PROVE  FALSE
                <5>1. proc[conn[c]].store \in Stores
                    BY <2>0, <4>1 DEF Answered, Listening, ServersHaveStores
                <5> QED
                    BY <2>0, <2>2, <4>1, <5>1 DEF Answered, RunsIn
            <4> QED
                BY <1>4, <4>1 DEF Send
        <3>2. CASE Refused(c)
            BY <1>1, <2>0, <2>2, <3>2 DEF Refused, Return, CountOf, TrueOf, Working
        <3>3. CASE Broken(c)
            BY <1>1, <2>0, <2>2, <3>3 DEF Broken, CountOf, TrueOf, Working
        <3> QED
            BY <3>1, <3>2, <3>3
    <2>3. CASE c \in unsure
        BY <1>1, <1>4, <2>0, <2>3 DEF Send, Answered, Refused, Broken, Return, CountOf, Working
    <2> QED
        BY <1>4, <2>1, <2>2, <2>3 DEF Send, Answered, Refused, Broken
<1>5. CASE CommandLine(c)
    <2>0. pc[c] = "cli" /\ UNCHANGED <<path, unsure, broke>> /\ path[c] \in Stores
        BY <1>5 DEF CommandLine
    <2>1. CASE RunsIn(c, path[c]) /\ Return(c, "ok")
        BY <1>1, <2>0, <2>1 DEF RunsIn, Return, CountOf, TrueOf, Working
    <2>2. CASE Return(c, "error") /\ UNCHANGED ran
        BY <1>1, <2>0, <2>2 DEF Return, CountOf, TrueOf, Working
    <2> QED
        BY <1>5, <2>1, <2>2 DEF CommandLine
<1> QED
    BY <1>2, <1>3, <1>4, <1>5 DEF ClientActs, Step, Exchange

LEMMA TruthInit == Init => TruthInv
<1> SUFFICES ASSUME Init
             PROVE  TruthInv
    OBVIOUS
<1>1. TypeInv
    BY TypeInit
<1>2. HasConn /\ ConnKnown /\ \A c \in Clients : CountOf(c)
    BY <1>1, DoltServerAssumption
    DEF Init, HasConn, ConnKnown, CountOf, TrueOf, Working, TypeInv, TypeOK
<1> QED
    BY <1>1, <1>2 DEF TruthInv

LEMMA TruthStep == TruthInv /\ [Next]_vars => TruthInv'
<1> SUFFICES ASSUME TruthInv, [Next]_vars
             PROVE  TruthInv'
    OBVIOUS
<1> USE DEF TruthInv
<1>1. TypeInv' /\ HasConn'
    BY TypeStep, HasConnStep
<1>2. CASE \E c \in Clients : ClientActs(c)
    BY <1>1, <1>2, ConnClient, CountClient
<1>3. ASSUME UNCHANGED <<pc, path, history>> \/ UNCHANGED <<pc, path, ran, broke, outcome, unsure>>
      PROVE  \A c \in Clients : CountOf(c)'
    BY <1>3, CountSame DEF history
<1>4. CASE \E p \in Pids : ServerActs(p)
    <2>1. UNCHANGED <<pc, path, ran, broke, outcome, unsure>>
        BY <1>4 DEF ServerActs, Listen, Die, Exit, Reuse, clientVars, history
    <2> QED
        BY <1>1, <1>3, <1>4, <2>1, ConnServer
<1>5. CASE \E s \in Stopped : StopActs(s)
    <2>1. UNCHANGED <<pc, path, ran, broke, outcome, unsure>>
        BY <1>5 DEF StopActs, StopReads, StopTerm, StopKill, clientVars, history
    <2> QED
        BY <1>1, <1>3, <1>5, <2>1, ConnStop
<1>6. CASE \/ \E copy \in Copies : Copy(copy[1], copy[2])
           \/ UNCHANGED vars
    <2>1. UNCHANGED <<pc, path, conn, proc, history>>
        BY <1>6 DEF Copy, vars, clientVars
    <2>2. ConnKnown'
        BY <2>1 DEF ConnKnown, history
    <2>3. \A c \in Clients : CountOf(c)'
        BY <1>3, <2>1
    <2> QED
        BY <1>1, <2>2, <2>3
<1> QED
    BY <1>2, <1>4, <1>5, <1>6, WhoActs

\* No statement for one store runs in another, whatever info files name, whichever
\* pids are used again, and whoever copies a store, unless the process that its
\* client found by the info file could not be looked at.
THEOREM OwnStore == Spec => []RunsInItsStore
<1>1. TruthInv => RunsInItsStore
    BY DEF TruthInv, CountOf, TrueOf, RunsInItsStore
<1> QED
    BY <1>1, TruthInit, TruthStep, PTL DEF Spec

\* What the caller is told of its statement is what happened to it.
THEOREM CallersToldTheTruth == Spec => []ToldTheTruth
<1>1. TruthInv => ToldTheTruth
    BY DEF TruthInv, CountOf, TrueOf, ToldTheTruth
<1> QED
    BY <1>1, TruthInit, TruthStep, PTL DEF Spec

-----------------------------------------------------------------------------
(* Spawning *)

\* The spawn lock is held by the clients that are spawning or polling, one per store.
HoldersSpawn ==
    /\ \A c \in Clients : c \in spawnLock <=> pc[c] \in {"spawn", "poll"}
    /\ \A c, d \in spawnLock : path[c] = path[d] => c = d

\* What the operator is about to kill was a server of a store that is late, or is
\* no server any more.
StopKnows ==
    \A t \in Stopped : stopper[t].pc \in {"term", "kill"} =>
        /\ stopper[t].pid \in Pids
        /\ proc[stopper[t].pid].state # "none"
        /\ stopper[t].pc = "kill" => \/ proc[stopper[t].pid].state \in {"dead", "foreign"}
                                      \/ proc[stopper[t].pid].store \in late

\* While nothing at store s was late: its server is being waited for by the client
\* that started it or can be found by its info file, nobody is about to start
\* another, and there is no other.
OneServer(s) ==
    /\ \A p \in Pids : Running(p, s) =>
          \/ proc[p].state = "starting" /\ \E c \in Clients : pc[c] = "poll" /\ path[c] = s
          \/ proc[p].state = "listening" /\ info[s] = p
    /\ \A c \in Clients, p \in Pids : pc[c] = "spawn" /\ path[c] = s => ~Running(p, s)
    /\ \A p, q \in Pids : Running(p, s) /\ Running(q, s) => p = q

HerdInv ==
    /\ TypeInv /\ HoldersSpawn /\ StopKnows
    /\ \A s \in Stores \ late : OneServer(s)

\* Nothing that OneServer(s) is about has changed, but for servers that are gone.
LEMMA OneServerStays ==
    ASSUME NEW s, OneServer(s),
           \A p \in Pids : Running(p, s)' => Running(p, s) /\ proc'[p].state = proc[p].state,
           info'[s] = info[s], path' = path,
           \A c \in Clients : path[c] = s =>
               /\ pc[c] = "poll" => pc'[c] = "poll"
               /\ pc'[c] = "spawn" => pc[c] = "spawn"
    PROVE  OneServer(s)'
<1>1. \A p \in Pids : Running(p, s)' =>
          \/ proc'[p].state = "starting" /\ \E c \in Clients : pc'[c] = "poll" /\ path'[c] = s
          \/ proc'[p].state = "listening" /\ info'[s] = p
    BY DEF OneServer
<1>2. \A c \in Clients, p \in Pids : pc'[c] = "spawn" /\ path'[c] = s => ~Running(p, s)'
    BY DEF OneServer
<1>3. \A p, q \in Pids : Running(p, s)' /\ Running(q, s)' => p = q
    BY DEF OneServer
<1> QED
    BY <1>1, <1>2, <1>3 DEF OneServer

LEMMA HerdInit == Init => HerdInv
<1> SUFFICES ASSUME Init
             PROVE  HerdInv
    OBVIOUS
<1>1. TypeInv
    BY TypeInit
<1>2. HoldersSpawn /\ StopKnows /\ \A s \in Stores : OneServer(s)
    BY <1>1 DEF Init, HoldersSpawn, StopKnows, OneServer, Running, Nobody, TypeInv, TypeOK
<1> QED
    BY <1>1, <1>2 DEF HerdInv

\* Whoever gets the lock and finds no server may start one.
LEMMA HerdLock ==
    ASSUME HerdInv, NEW c \in Clients, Lock(c)
    PROVE  (HoldersSpawn /\ \A s \in Stores \ late : OneServer(s))'
<1> USE DEF HerdInv, TypeInv, TypeOK, HoldersSpawn, Goto, clientVars, history
<1>1. CASE Accepting(path[c])
    BY <1>1 DEF Lock, OneServer, Running
<1>2. CASE ~Accepting(path[c])
    <2>1. /\ spawnLock' = spawnLock \cup {c}
          /\ pc' = [pc EXCEPT ![c] = "spawn"]
          /\ pc[c] = "lock"
          /\ \A d \in spawnLock : path[d] # path[c]
          /\ UNCHANGED <<info, proc, path, late>>
        BY <1>2 DEF Lock, Holders
    <2>2. HoldersSpawn'
        BY <2>1
    <2>3. ASSUME NEW p \in Pids, path[c] \notin late
          PROVE  ~Running(p, path[c])
        <3>1. \A d \in Clients : pc[d] = "poll" => path[d] # path[c]
            BY <2>1
        <3>2. SUFFICES ASSUME Running(p, path[c])
                       PROVE  FALSE
            OBVIOUS
        <3>3. proc[p].state = "listening" /\ proc[p].store = path[c] /\ info[path[c]] = p
            BY <2>3, <3>1, <3>2 DEF OneServer, Running
        <3>4. p \in AtPortOf(p)
            BY <3>3 DEF AtPortOf, Listening
        <3> QED
            BY <1>2, <3>3, <3>4 DEF Accepting, Serves, Alive
    <2>4. ASSUME NEW s \in Stores \ late
          PROVE  OneServer(s)'
        BY <2>1, <2>3, <2>4 DEF OneServer, Running
    <2> QED
        BY <2>1, <2>2, <2>4
<1> QED
    BY <1>1, <1>2

LEMMA HerdSpawn ==
    ASSUME HerdInv, NEW c \in Clients, Spawn(c)
    PROVE  (HoldersSpawn /\ StopKnows /\ \A s \in Stores \ late : OneServer(s))'
<1> USE DEF HerdInv, TypeInv, TypeOK, HoldersSpawn, Goto, clientVars, history
<1>1. ASSUME NEW new \in Unused,
             proc' = [proc EXCEPT ![new] = [store |-> path[c], state |-> "starting"]],
             Goto(c, "poll"),
             UNCHANGED spawnLock
      PROVE  (HoldersSpawn /\ StopKnows /\ \A s \in Stores \ late : OneServer(s))'
    <2>1. new \in Pids /\ proc[new].state = "none"
        BY <1>1 DEF Unused
    <2>2. /\ pc[c] = "spawn" /\ pc' = [pc EXCEPT ![c] = "poll"]
          /\ UNCHANGED <<info, path, late, stopper, spawnLock>>
        BY <1>1 DEF Spawn
    <2>3. /\ proc'[new].store = path[c] /\ proc'[new].state = "starting"
          /\ \A q \in Pids \ {new} : proc'[q] = proc[q]
        BY <1>1, <2>1
    <2>4. HoldersSpawn'
        BY <2>2
    <2>5. StopKnows'
        BY <2>1, <2>2, <2>3 DEF StopKnows
    <2>6. ASSUME NEW s \in Stores \ late, s # path[c]
          PROVE  OneServer(s)'
        <3>1. \A p \in Pids : Running(p, s)' => Running(p, s) /\ proc'[p].state = proc[p].state
            BY <2>1, <2>3, <2>6 DEF Running
        <3>2. \A d \in Clients : path[d] = s => pc'[d] = pc[d]
            BY <2>2, <2>6
        <3> QED
            BY <2>2, <2>6, <3>1, <3>2, OneServerStays
    <2>7. ASSUME path[c] \notin late
          PROVE  OneServer(path[c])'
        <3>1. \A p \in Pids : Running(p, path[c])' => p = new
            BY <2>1, <2>2, <2>3, <2>7 DEF OneServer, Running
        <3>2. \A d \in Clients : path[d] = path[c] => pc'[d] # "spawn"
            BY <2>2
        <3> QED
            BY <2>1, <2>2, <2>3, <3>1, <3>2 DEF OneServer
    <2> QED
        BY <2>2, <2>4, <2>5, <2>6, <2>7
<1>2. CASE /\ spawnLock' = spawnLock \ {c}
           /\ Goto(c, "wire")
           /\ UNCHANGED proc
    <2>1. /\ pc[c] = "spawn" /\ pc' = [pc EXCEPT ![c] = "wire"]
          /\ UNCHANGED <<info, path, late, stopper, proc>>
        BY <1>2 DEF Spawn
    <2>2. HoldersSpawn' /\ StopKnows'
        BY <1>2, <2>1 DEF StopKnows
    <2>3. \A s \in Stores \ late : OneServer(s)'
        BY <2>1 DEF OneServer, Running
    <2> QED
        BY <2>1, <2>2, <2>3
<1> QED
    BY <1>1, <1>2 DEF Spawn

LEMMA HerdPoll ==
    ASSUME HerdInv, NEW c \in Clients, Poll(c)
    PROVE  (HoldersSpawn /\ StopKnows /\ \A s \in Stores \ late : OneServer(s))'
<1> USE DEF HerdInv, TypeInv, TypeOK, HoldersSpawn, Goto, clientVars, history
<1>1. /\ pc[c] = "poll" /\ pc' = [pc EXCEPT ![c] = "wire"]
      /\ spawnLock' = spawnLock \ {c}
      /\ UNCHANGED <<info, path, stopper, proc>>
      /\ late \subseteq late'
      /\ \/ path[c] \in late'
         \/ Accepting(path[c]) /\ proc[info[path[c]]].store = path[c]
    BY DEF Poll
<1>2. HoldersSpawn' /\ StopKnows'
    BY <1>1 DEF StopKnows
<1>3. ASSUME NEW s \in Stores \ late'
      PROVE  OneServer(s)'
    <2>1. CASE s # path[c]
        BY <1>1, <1>3, <2>1 DEF OneServer, Running
    <2>2. CASE s = path[c]
        <3>1. Accepting(s) /\ proc[info[s]].store = s /\ OneServer(s) /\ info[s] \in Pids
            BY <1>1, <1>3, <2>2 DEF Accepting, Alive
        <3>2. PICK q \in Pids : proc[q].state = "listening" /\ proc[q].store = s
            BY <3>1 DEF Accepting, AtPortOf, Listening
        <3>3. Running(q, s)
            BY <3>2 DEF Running
        <3>4. info[s] = q /\ \A r \in Pids : Running(r, s) => r = q
            BY <3>1, <3>2, <3>3 DEF OneServer
        <3> QED
            BY <1>1, <2>2, <3>1, <3>2, <3>4 DEF OneServer, Running
    <2> QED
        BY <2>1, <2>2
<1> QED
    BY <1>2, <1>3

\* Every other step of a client leaves the lock and the processes alone.
LEMMA HerdClient ==
    ASSUME HerdInv, NEW c \in Clients, ClientActs(c)
    PROVE  (HoldersSpawn /\ StopKnows /\ \A s \in Stores \ late : OneServer(s))'
<1> USE DEF HerdInv, TypeInv, TypeOK, HoldersSpawn, Goto, clientVars, history
<1>1. CASE Lock(c)
    BY <1>1, HerdLock DEF Lock, StopKnows
<1>2. CASE Spawn(c)
    BY <1>2, HerdSpawn
<1>3. CASE Poll(c)
    BY <1>3, HerdPoll
<1>4. CASE Call(c) \/ Resolve(c) \/ Connect(c) \/ Send(c) \/ CommandLine(c)
    <2>1. /\ \E next \in Steps \ {"spawn", "poll"} : pc' = [pc EXCEPT ![c] = next]
          /\ pc[c] \notin {"spawn", "poll"}
          /\ UNCHANGED <<info, proc, path, late, stopper, spawnLock>>
        BY <1>4 DEF Call, Resolve, Connect, Send, Answered, Refused, Broken, CommandLine,
                    Return, Steps
    <2>2. HoldersSpawn' /\ StopKnows'
        BY <2>1 DEF StopKnows
    <2>3. \A s \in Stores \ late : OneServer(s)'
        BY <2>1 DEF OneServer, Running
    <2> QED
        BY <2>1, <2>2, <2>3
<1>5. CASE Killed(c)
    <2>1. /\ pc' = [pc EXCEPT ![c] = "idle"] /\ spawnLock' = spawnLock \ {c}
          /\ UNCHANGED <<info, proc, path, stopper>>
          /\ late \subseteq late'
          /\ pc[c] = "poll" => path[c] \in late'
        BY <1>5 DEF Killed
    <2>2. HoldersSpawn' /\ StopKnows'
        BY <2>1 DEF StopKnows
    <2>3. ASSUME NEW s \in Stores \ late'
          PROVE  OneServer(s)'
        <3>1. \A d \in Clients : path[d] = s /\ pc[d] = "poll" => pc'[d] = "poll"
            BY <2>1, <2>3
        <3>2. \A d \in Clients : pc'[d] = "spawn" => pc[d] = "spawn"
            BY <2>1
        <3>3. \A p \in Pids : Running(p, s)' <=> Running(p, s)
            BY <2>1 DEF Running
        <3> QED
            BY <2>1, <2>3, <3>1, <3>2, <3>3, OneServerStays
    <2> QED
        BY <2>2, <2>3
<1> QED
    BY <1>1, <1>2, <1>3, <1>4, <1>5 DEF ClientActs, Step, Exchange

LEMMA HerdServer ==
    ASSUME HerdInv, NEW p \in Pids, ServerActs(p)
    PROVE  (HoldersSpawn /\ StopKnows /\ \A s \in Stores \ late : OneServer(s))'
<1> USE DoltServerAssumption DEF HerdInv, TypeInv, TypeOK, InState, clientVars, history
<1>1. HoldersSpawn'
    BY DEF ServerActs, Listen, Die, Exit, Reuse, HoldersSpawn
<1>2. CASE Listen(p)
    <2> DEFINE own == proc[p].store
    <2>1. /\ proc[p].state = "starting"
          /\ proc'[p].store = own
          /\ proc'[p].state \in {"dead", "listening"}
          /\ \A q \in Pids \ {p} : proc'[q] = proc[q]
          /\ \A s \in Stores \ {own} : info'[s] = info[s]
          /\ UNCHANGED <<pc, path, stopper>>
          /\ late \subseteq late'
        BY <1>2 DEF Listen
    <2>2. own \in late' \/ (proc'[p].state = "listening" /\ info'[own] = p)
        BY <1>2 DEF Listen, ServersHaveStores
    <2> HIDE DEF own
    <2>3. StopKnows'
        <3>1. \A q \in Pids :
                 /\ proc[q].state # "none" => proc'[q].state # "none"
                 /\ proc[q].state \in {"dead", "foreign"} => proc'[q] = proc[q]
                 /\ proc'[q].store = proc[q].store
            BY <2>1 DEF own
        <3>2. ASSUME NEW u \in Stopped, stopper[u].pc \in {"term", "kill"}
              PROVE  /\ stopper[u].pid \in Pids
                     /\ proc'[stopper[u].pid].state # "none"
                     /\ stopper[u].pc = "kill" =>
                          \/ proc'[stopper[u].pid].state \in {"dead", "foreign"}
                          \/ proc'[stopper[u].pid].store \in late'
            <4>1. /\ stopper[u].pid \in Pids /\ proc[stopper[u].pid].state # "none"
                  /\ stopper[u].pc = "kill" =>
                       \/ proc[stopper[u].pid].state \in {"dead", "foreign"}
                       \/ proc[stopper[u].pid].store \in late
                BY <3>2 DEF StopKnows
            <4> DEFINE v == stopper[u].pid
            <4>0. v \in Pids
                BY <4>1
            <4> HIDE DEF v
            <4>2. /\ proc[v].state # "none" => proc'[v].state # "none"
                  /\ proc[v].state \in {"dead", "foreign"} => proc'[v] = proc[v]
                  /\ proc'[v].store = proc[v].store
                BY <3>1, <4>0
            <4> QED
                BY <2>1, <4>1, <4>2 DEF v
        <3> QED
            BY <2>1, <3>2 DEF StopKnows
    <2>4. ASSUME NEW s \in Stores \ late'
          PROVE  OneServer(s)'
        <3>1. CASE s # own
            <4>1. \A q \in Pids : Running(q, s)' => Running(q, s) /\ proc'[q].state = proc[q].state
                BY <2>1, <3>1 DEF Running
            <4> QED
                BY <2>1, <2>4, <3>1, <4>1, OneServerStays
        <3>2. CASE s = own
            <4>1. OneServer(s) /\ Running(p, s)
                BY <2>1, <2>4, <3>2 DEF Running, own
            <4>2. \A q \in Pids : Running(q, s)' => q = p
                <5>1. \A q \in Pids \ {p} : Running(q, s)' => Running(q, s)
                    BY <2>1 DEF Running
                <5> QED
                    BY <4>1, <5>1 DEF OneServer
            <4>3. \A c \in Clients : ~(pc[c] = "spawn" /\ path[c] = s)
                BY <4>1 DEF OneServer
            <4>4. proc'[p].state = "listening" /\ info'[s] = p
                BY <2>2, <2>4, <3>2
            <4> QED
                BY <2>1, <4>2, <4>3, <4>4 DEF OneServer
        <3> QED
            BY <3>1, <3>2
    <2> QED
        BY <1>1, <2>3, <2>4
<1>3. CASE Die(p) \/ Exit(p) \/ Reuse(p)
    <2>1. /\ proc[p].state # "none"
          /\ proc'[p].state \in {"dead", "foreign"}
          /\ proc'[p].store = proc[p].store
          /\ \A q \in Pids \ {p} : proc'[q] = proc[q]
          /\ UNCHANGED <<info, pc, path, stopper>>
          /\ late \subseteq late'
        BY <1>3 DEF Die, Exit, Reuse
    <2>2. StopKnows'
        BY <2>1 DEF StopKnows
    <2>3. ASSUME NEW s \in Stores \ late'
          PROVE  OneServer(s)'
        <3>1. \A q \in Pids : Running(q, s)' => Running(q, s) /\ proc'[q].state = proc[q].state
            BY <2>1, <2>3 DEF Running
        <3> QED
            BY <2>1, <2>3, <3>1, OneServerStays
    <2> QED
        BY <1>1, <2>2, <2>3
<1> QED
    BY <1>2, <1>3 DEF ServerActs

LEMMA HerdStop ==
    ASSUME HerdInv, NEW t \in Stopped, StopActs(t)
    PROVE  (HoldersSpawn /\ StopKnows /\ \A s \in Stores \ late : OneServer(s))'
<1> USE DoltServerAssumption DEF HerdInv, TypeInv, TypeOK, InState, clientVars, history
<1> DEFINE p == stopper[t].pid
           own == proc[p].store
<1>1. HoldersSpawn' /\ UNCHANGED <<pc, path>>
    BY DEF StopActs, StopReads, StopTerm, StopKill, HoldersSpawn
<1>2. CASE StopReads(t)
    <2>1. UNCHANGED <<info, proc, late>> /\ Alive(info[t])
        BY <1>2 DEF StopReads
    <2>2. /\ stopper'[t] = [pc |-> "term", pid |-> info[t]]
          /\ \A u \in Stopped \ {t} : stopper'[u] = stopper[u]
        BY <1>2 DEF StopReads
    <2>3. StopKnows'
        <3>1. info[t] \in Pids /\ proc[info[t]].state # "none"
            BY <2>1 DEF Alive
        <3>2. \A u \in Stopped \ {t} : stopper'[u] = stopper[u]
            BY <2>2
        <3>3. stopper'[t].pc = "term" /\ stopper'[t].pid = info[t]
            BY <2>2
        <3>4. UNCHANGED <<proc, late>>
            BY <2>1
        <3> QED
            BY <3>1, <3>2, <3>3, <3>4 DEF StopKnows
    <2>4. \A s \in Stores \ late : OneServer(s)'
        BY <1>1, <2>1 DEF OneServer, Running
    <2> QED
        BY <1>1, <2>1, <2>3, <2>4
<1>3. CASE /\ stopper' = [stopper EXCEPT ![t] = Nobody]
           /\ UNCHANGED <<info, proc, late>>
    BY <1>1, <1>3 DEF StopKnows, OneServer, Running, Nobody
<1>4. ASSUME NEW st \in {"stopping", "dead"}, InState(p, st), p \in Pids,
             \/ stopper' = [stopper EXCEPT ![t].pc = "kill"]
             \/ stopper' = [stopper EXCEPT ![t] = Nobody],
             proc[p].state # "none",
             \A s \in Stores \ {own} : info'[s] = info[s],
             late \subseteq late',
             \/ own \in late'
             \/ proc[p].state = "foreign" /\ st = "dead" /\ UNCHANGED info
      PROVE  (HoldersSpawn /\ StopKnows /\ \A s \in Stores \ late : OneServer(s))'
    <2>1. /\ proc'[p].store = own /\ proc'[p].state = st
          /\ \A q \in Pids \ {p} : proc'[q] = proc[q]
        BY <1>4
    <2> HIDE DEF own
    <2>2. StopKnows'
        <3>1. stopper'[t].pc \in {"term", "kill"} =>
                 /\ stopper'[t].pid = p /\ p \in Pids /\ proc'[p].state # "none"
                 /\ proc'[p].state \in {"dead", "foreign"} \/ proc'[p].store \in late'
            BY <1>4, <2>1 DEF Nobody
        <3>2. ASSUME NEW u \in Stopped \ {t}, stopper'[u].pc \in {"term", "kill"}
              PROVE  /\ stopper'[u].pid \in Pids
                     /\ proc'[stopper'[u].pid].state # "none"
                     /\ stopper'[u].pc = "kill" =>
                          \/ proc'[stopper'[u].pid].state \in {"dead", "foreign"}
                          \/ proc'[stopper'[u].pid].store \in late'
            <4>1. stopper'[u] = stopper[u]
                BY <1>4
            <4>2. /\ stopper[u].pid \in Pids /\ proc[stopper[u].pid].state # "none"
                  /\ stopper[u].pc = "kill" =>
                       \/ proc[stopper[u].pid].state \in {"dead", "foreign"}
                       \/ proc[stopper[u].pid].store \in late
                BY <3>2, <4>1 DEF StopKnows
            <4>3. CASE stopper[u].pid = p
                BY <1>4, <2>1, <4>1, <4>2, <4>3 DEF own
            <4>4. CASE stopper[u].pid # p
                BY <1>4, <2>1, <4>1, <4>2, <4>4
            <4> QED
                BY <4>3, <4>4
        <3> QED
            BY <3>1, <3>2 DEF StopKnows
    <2>3. ASSUME NEW s \in Stores \ late'
          PROVE  OneServer(s)'
        <3>1. info'[s] = info[s]
            BY <1>4, <2>3
        <3>2. \A q \in Pids : Running(q, s)' => Running(q, s) /\ proc'[q].state = proc[q].state
            BY <1>4, <2>1, <2>3 DEF Running, own
        <3> QED
            BY <1>1, <1>4, <2>3, <3>1, <3>2, OneServerStays
    <2> QED
        BY <1>1, <2>2, <2>3
<1>5. CASE StopTerm(t) /\ Alive(p) /\ stopper' = [stopper EXCEPT ![t].pc = "kill"]
    <2>1. p \in Pids /\ proc[p].state # "none"
        BY <1>5 DEF Alive
    <2>2. \/ /\ proc[p].state = "foreign" /\ InState(p, "dead") /\ UNCHANGED <<info, late>>
          \/ /\ InState(p, "stopping")
             /\ info' = [s \in Stores |-> IF s = own /\ info[s] = p THEN NoPid ELSE info[s]]
             /\ late' = late \cup {own}
        <3>1. stopper[t].pc = "term" /\ stopper'[t].pc = "kill"
            BY <1>5 DEF StopTerm
        <3>2. ~(stopper' = [stopper EXCEPT ![t] = Nobody])
            BY <3>1 DEF Nobody
        <3> QED
            BY <1>5, <3>2 DEF StopTerm
    <2>3. CASE proc[p].state = "foreign" /\ InState(p, "dead") /\ UNCHANGED <<info, late>>
        BY <1>4, <1>5, <2>1, <2>3
    <2>4. CASE /\ InState(p, "stopping")
               /\ info' = [s \in Stores |-> IF s = own /\ info[s] = p THEN NoPid ELSE info[s]]
               /\ late' = late \cup {own}
        <3>1. \A s \in Stores \ {own} : info'[s] = info[s]
            BY <2>4
        <3>2. own \in late' /\ late \subseteq late'
            BY <2>4
        <3> HIDE DEF own, p, HerdInv, TypeInv, TypeOK
        <3>3. InState(p, "stopping") /\ stopper' = [stopper EXCEPT ![t].pc = "kill"]
            BY <1>5, <2>4
        <3> QED
            BY <1>4, <2>1, <3>1, <3>2, <3>3
    <2> QED
        BY <2>2, <2>3, <2>4
<1>6. CASE StopKill(t) /\ Alive(p) /\ InState(p, "dead")
    <2>1. /\ p \in Pids /\ proc[p].state # "none"
          /\ stopper' = [stopper EXCEPT ![t] = Nobody] /\ UNCHANGED <<info, late>>
          /\ stopper[t].pc = "kill"
        BY <1>6 DEF StopKill, Alive
    <2>2. own \in late \/ proc[p].state = "foreign"
        BY <1>6, <2>1 DEF StopKnows, Alive
    <2> QED
        BY <1>4, <1>6, <2>1, <2>2
<1> QED
    BY <1>2, <1>3, <1>5, <1>6 DEF StopActs, StopTerm, StopKill

LEMMA HerdStep == HerdInv /\ [Next]_vars => HerdInv'
<1> SUFFICES ASSUME HerdInv, [Next]_vars
             PROVE  HerdInv'
    OBVIOUS
<1> USE DEF HerdInv
<1>1. TypeInv'
    BY TypeStep
<1>2. CASE \E c \in Clients : ClientActs(c)
    BY <1>1, <1>2, HerdClient
<1>3. CASE \E p \in Pids : ServerActs(p)
    BY <1>1, <1>3, HerdServer
<1>4. CASE \E t \in Stopped : StopActs(t)
    BY <1>1, <1>4, HerdStop
<1>5. CASE \E copy \in Copies : Copy(copy[1], copy[2])
    <2> PICK copy \in Copies : Copy(copy[1], copy[2])
        BY <1>5
    <2>1. HoldersSpawn' /\ StopKnows'
        BY DEF Copy, HoldersSpawn, StopKnows, clientVars, history
    <2>2. ASSUME NEW s \in Stores \ late
          PROVE  OneServer(s)'
        BY <2>2, DoltServerAssumption
        DEF Copy, OneServer, Running, TypeInv, TypeOK, clientVars, history
    <2>3. late' = late
        BY DEF Copy, history
    <2> QED
        BY <1>1, <2>1, <2>2, <2>3
<1>6. CASE UNCHANGED vars
    BY <1>1, <1>6
    DEF vars, clientVars, history, HoldersSpawn, StopKnows, OneServer, Running
<1> QED
    BY <1>2, <1>3, <1>4, <1>5, <1>6, WhoActs

\* Racing callers start one server: while nothing at a store was late, stopped or
\* killed, it has at most one server process, however many callers found none.
THEOREM OneServerPerStore == Spec => []NoHerd
<1>1. ASSUME HerdInv
      PROVE  NoHerd
    <2> SUFFICES ASSUME NEW s \in Stores \ late
                 PROVE  Cardinality({p \in Pids : Running(p, s)}) <= 1
        BY DEF NoHerd
    <2> DEFINE S == {p \in Pids : Running(p, s)}
    <2>1. S = {} \/ \E p \in Pids : S = {p}
        BY <1>1 DEF HerdInv, OneServer, Running
    <2>2. Cardinality(S) \in {0, 1}
        BY <2>1, FS_EmptySet, FS_Singleton
    <2> QED
        BY <2>2
<1> QED
    BY <1>1, HerdInit, HerdStep, PTL DEF Spec
=============================================================================
