----------------------------- MODULE DoltServer -----------------------------
(***************************************************************************)
(* One statement's way to a Dolt store (DoltBackend.execute_sql in         *)
(* storage_backends.py, over dolt_server.py): make sure a resident server  *)
(* accepts on the store, try the wire protocol, fall back to the dolt      *)
(* command line.  Beside the clients, an operator stops servers, servers   *)
(* lose races or die and leave a stale sql-server.info behind, pids are    *)
(* used again, and a store is copied with its info file in it.             *)
(***************************************************************************)
EXTENDS Naturals, FiniteSets

CONSTANTS
    Clients,        \* backend instances, one per process
    Paths,          \* which store each client opens: the possible choices
    Enabled,        \* clients with MONITION_SQL_SERVER set
    Wire,           \* clients with pymysql installed
    Stores,
    Pids,           \* process ids a server may get
    Unreadable,     \* those whose process is another user's: the kernel refuses to
                    \* say which working directory it has
    NoPid,          \* no info file, or an unparsable one
    Copies,         \* <<a, b>>: store b is made by copying a
    ServerFaults,   \* what the environment may do: "die", "reuse", "slow", "kill"
    Stopped,        \* stores an operator stops
    MaxCalls        \* bound: statements each client executes

ASSUME DoltServerAssumption ==
    /\ Paths \subseteq [Clients -> Stores]
    /\ Enabled \subseteq Clients
    /\ Wire \subseteq Clients
    /\ NoPid \notin Pids /\ "nowhere" \notin Stores
    /\ Copies \subseteq Stores \X Stores
    /\ ServerFaults \subseteq {"die", "reuse", "slow", "kill"}
    /\ Unreadable \subseteq Pids
    /\ Stopped \subseteq Stores
    /\ MaxCalls \in [Clients -> Nat]

VARIABLES
    info,       \* .dolt/sql-server.info of each store: the pid in it
    proc,       \* each pid's process: [store, state], where the store is the one its
                \* first process served, which is also the port an info file has for it
    spawnLock,  \* the clients holding monition-sqlserver.lock
    path,       \* the store each backend instance was opened on
    pc, conn, wireDead, calls,  \* a client: where it is, its cached connection,
                                \* its permanent opt-out, statements executed
    stopper,    \* the operator at each store: [pc, pid]
    (* History *)
    ran,        \* how often the client's statement has run, in each store
    broke,      \* whether its connection broke under it
    unsure,     \* clients whose connection goes to the port of an info file that
                \* names an unreadable process
    outcome,    \* what execute_sql told the caller
    late        \* stores where a server missed the readiness budget, was asked to
                \* stop, or died, or its caller was killed: a second spawn is due

clientVars == <<path, conn, wireDead, calls>>
history == <<ran, broke, unsure, outcome, late>>
vars == <<info, proc, spawnLock, pc, clientVars, stopper, history>>

Nobody == [pc |-> "idle", pid |-> NoPid]

Init ==
    /\ info = [s \in Stores |-> NoPid]
    /\ proc = [p \in Pids |-> [store |-> "nowhere", state |-> "none"]]
    /\ spawnLock = {}
    /\ path \in Paths
    /\ pc = [c \in Clients |-> "idle"]
    /\ conn = [c \in Clients |-> NoPid]
    /\ wireDead = [c \in Clients |-> FALSE]
    /\ calls = [c \in Clients |-> 0]
    /\ stopper = [s \in Stopped |-> Nobody]
    /\ ran = [c \in Clients |-> [s \in Stores |-> 0]]
    /\ broke = [c \in Clients |-> FALSE]
    /\ unsure = {}
    /\ outcome = [c \in Clients |-> "none"]
    /\ late = {}

Goto(c, next) == pc' = [pc EXCEPT ![c] = next]

Alive(p) == p \in Pids /\ proc[p].state \in {"starting", "listening", "stopping", "foreign"}
Running(p, s) == proc[p].store = s /\ proc[p].state \in {"starting", "listening", "stopping"}
Listening(p) == p \in Pids /\ proc[p].state = "listening"
InState(p, state) == proc' = [proc EXCEPT ![p].state = state]

\* The servers that listen on the port an info file has beside the pid p: the port
\* is computed from the store's path, and no two stores here have the same.
AtPortOf(p) == {q \in Pids : Listening(q) /\ proc[q].store = proc[p].store}

\* _serves_this_store: the process's working directory is the store; one that
\* cannot be read is trusted.
Serves(p, s) ==
    \/ p \in Unreadable
    \/ proc[p].state # "foreign" /\ proc[p].store = s

\* Slip: as it was before the ownership check.
Accepting_AnyStore(s) == Alive(info[s]) /\ AtPortOf(info[s]) # {}

\* running(): the info file names a live process that serves this very store, and
\* its port is open.
Accepting(s) == Alive(info[s]) /\ Serves(info[s], s) /\ AtPortOf(info[s]) # {}

Address(s) == IF Accepting(s) THEN info[s] ELSE NoPid

-----------------------------------------------------------------------------
(* execute_sql *)

\* Nothing has run yet, and nothing been said, of the statement of c.
Afresh(c) ==
    /\ ran' = [ran EXCEPT ![c] = [s \in Stores |-> 0]]
    /\ broke' = [broke EXCEPT ![c] = FALSE]
    /\ outcome' = [outcome EXCEPT ![c] = "none"]

Call(c) ==
    /\ pc[c] = "idle"
    /\ calls[c] < MaxCalls[c]
    /\ calls' = [calls EXCEPT ![c] = @ + 1]
    /\ Afresh(c)
    /\ Goto(c, IF c \in Enabled /\ ~Accepting(path[c]) THEN "lock" ELSE "wire")
    /\ UNCHANGED <<info, proc, spawnLock, path, conn, wireDead, stopper, unsure, late>>

Holders(s) == {c \in spawnLock : path[c] = s}

\* Slip: no second look once the lock is held.
Lock_NoRecheck(c) ==
    /\ pc[c] = "lock"
    /\ Holders(path[c]) = {}
    /\ spawnLock' = spawnLock \cup {c}
    /\ Goto(c, "spawn")
    /\ UNCHANGED <<info, proc, clientVars, stopper, history>>

\* flock blocks until no one else holds it; then the check is made again.
Lock(c) ==
    /\ pc[c] = "lock"
    /\ Holders(path[c]) = {}
    /\ IF Accepting(path[c]) THEN Goto(c, "wire") /\ UNCHANGED spawnLock
       ELSE Goto(c, "spawn") /\ spawnLock' = spawnLock \cup {c}
    /\ UNCHANGED <<info, proc, clientVars, stopper, history>>

Unused == {p \in Pids : proc[p].state = "none"}

\* Popen; when it fails (or no pid of the model is left) the lock is given back.
Spawn(c) ==
    /\ pc[c] = "spawn"
    /\ \/ /\ \E p \in Unused :
                proc' = [proc EXCEPT ![p] = [store |-> path[c], state |-> "starting"]]
          /\ Goto(c, "poll")
          /\ UNCHANGED spawnLock
       \/ /\ spawnLock' = spawnLock \ {c}
          /\ Goto(c, "wire")
          /\ UNCHANGED proc
    /\ UNCHANGED <<info, clientVars, stopper, history>>

\* Slip: the lock is given back only when the server came up.
Poll_KeepsLock(c) ==
    /\ pc[c] = "poll"
    /\ \/ Accepting(path[c]) /\ spawnLock' = spawnLock \ {c} /\ UNCHANGED late
       \/ /\ ~Accepting(path[c])
          /\ late' = late \cup {path[c]}
          /\ UNCHANGED spawnLock
    /\ Goto(c, "wire")
    /\ UNCHANGED <<info, proc, clientVars, stopper, ran, broke, unsure, outcome>>

\* Poll until the server accepts, or the readiness budget is used up.  A caller
\* that trusts an unreadable process leaves its own server behind, starting.
Poll(c) ==
    /\ pc[c] = "poll"
    /\ \/ /\ Accepting(path[c])
          /\ late' = late \cup (IF proc[info[path[c]]].store = path[c] THEN {} ELSE {path[c]})
       \/ /\ ~Accepting(path[c])
          /\ "slow" \in ServerFaults \/ \A p \in Pids : proc[p] # [store |-> path[c], state |-> "starting"]
          /\ late' = late \cup {path[c]}
    /\ spawnLock' = spawnLock \ {c}
    /\ Goto(c, "wire")
    /\ UNCHANGED <<info, proc, clientVars, stopper, ran, broke, unsure, outcome>>

\* _wire_execute: the cached connection, else the address of an accepting server.
Resolve(c) ==
    /\ pc[c] = "wire"
    /\ IF c \notin Wire \/ wireDead[c] THEN Goto(c, "cli") /\ UNCHANGED <<conn, unsure>>
       ELSE IF conn[c] # NoPid THEN Goto(c, "send") /\ UNCHANGED <<conn, unsure>>
       ELSE /\ conn' = [conn EXCEPT ![c] = Address(path[c])]
            /\ unsure' = IF Address(path[c]) \in Unreadable THEN unsure \cup {c}
                                                           ELSE unsure \ {c}
            /\ Goto(c, IF Address(path[c]) = NoPid THEN "cli" ELSE "connect")
    /\ UNCHANGED <<info, proc, spawnLock, path, wireDead, calls, stopper, ran, broke, outcome, late>>

\* _wire_open connects to whoever listens on that port by now: nobody is an open
\* failure, and every exception there opts the process out of the wire for good.
Connect(c) ==
    /\ pc[c] = "connect"
    /\ \/ /\ \E q \in AtPortOf(conn[c]) : conn' = [conn EXCEPT ![c] = q]
          /\ Goto(c, "send")
          /\ UNCHANGED wireDead
       \/ /\ AtPortOf(conn[c]) = {}
          /\ conn' = [conn EXCEPT ![c] = NoPid]
          /\ wireDead' = [wireDead EXCEPT ![c] = TRUE]
          /\ Goto(c, "cli")
    /\ UNCHANGED <<info, proc, spawnLock, path, calls, stopper, history>>

RunsIn(c, s) == ran' = [ran EXCEPT ![c][s] = @ + 1]

Return(c, result) ==
    /\ outcome' = [outcome EXCEPT ![c] = result]
    /\ Goto(c, "idle")

\* Slip: `if rows:`, so that a statement with no rows to return looks unanswered.
Answered_Truthy(c) ==
    /\ Listening(conn[c])
    /\ RunsIn(c, proc[conn[c]].store)
    /\ \/ Return(c, "ok")
       \/ Goto(c, "cli") /\ UNCHANGED outcome
    /\ UNCHANGED <<conn, broke>>

Answered(c) ==
    /\ Listening(conn[c])
    /\ RunsIn(c, proc[conn[c]].store)
    /\ Return(c, "ok")
    /\ UNCHANGED <<conn, broke>>

\* A query error is the caller's: it is raised, not run again.
Refused(c) ==
    /\ Listening(conn[c])
    /\ Return(c, "error")
    /\ UNCHANGED <<conn, broke, ran>>

\* Errno 2006 or 2013: the server is gone, before or after it ran the statement.
\* The connection is dropped and the command line runs it (again).
Broken(c) ==
    /\ \/ ~Listening(conn[c]) /\ UNCHANGED ran
       \/ Listening(conn[c]) /\ "die" \in ServerFaults /\ RunsIn(c, proc[conn[c]].store)
    /\ conn' = [conn EXCEPT ![c] = NoPid]
    /\ broke' = [broke EXCEPT ![c] = TRUE]
    /\ Goto(c, "cli")
    /\ UNCHANGED outcome

Send(c) ==
    /\ pc[c] = "send"
    /\ Answered(c) \/ Refused(c) \/ Broken(c)
    /\ UNCHANGED <<info, proc, spawnLock, path, wireDead, calls, stopper, unsure, late>>

\* `dolt sql -q`: through the store's server or, when none holds the store, on the
\* files.  It may fail at any time: a bad query, or another process has the store.
CommandLine(c) ==
    /\ pc[c] = "cli"
    /\ \/ /\ \A p \in Pids : proc[p] # [store |-> path[c], state |-> "stopping"]
          /\ RunsIn(c, path[c])
          /\ Return(c, "ok")
       \/ Return(c, "error") /\ UNCHANGED ran
    /\ UNCHANGED <<info, proc, spawnLock, clientVars, stopper, broke, unsure, late>>

\* A caller is killed wherever it is: the kernel closes its lock, a server it has
\* started lives on, and nobody is told what became of its statement.  The next call
\* on the store is another process's.
Killed(c) ==
    /\ "kill" \in ServerFaults
    /\ pc[c] # "idle"
    /\ Goto(c, "idle")
    /\ Afresh(c)
    /\ unsure' = unsure \ {c}
    /\ spawnLock' = spawnLock \ {c}
    /\ conn' = [conn EXCEPT ![c] = NoPid]
    /\ wireDead' = [wireDead EXCEPT ![c] = FALSE]
    /\ late' = IF pc[c] = "poll" THEN late \cup {path[c]} ELSE late
    /\ UNCHANGED <<info, proc, path, calls, stopper>>

Step(c) == Spawn(c) \/ Poll(c) \/ Resolve(c)

\* What has no time limit: the handshake, the answer, the command.
Exchange(c) == Connect(c) \/ Send(c) \/ CommandLine(c)

-----------------------------------------------------------------------------
(* The servers and their surroundings *)

\* The server binds and writes the info file; one that finds its store served has
\* written it too, and takes it away again.
Listen(p) ==
    /\ proc[p].state = "starting"
    /\ LET s == proc[p].store
           taken == \E q \in Pids \ {p} :
                      proc[q].store = s /\ proc[q].state \in {"listening", "stopping"}
       IN IF taken
          THEN /\ InState(p, "dead")
               /\ info' = [info EXCEPT ![s] = NoPid]
               /\ late' = late \cup {s}
          ELSE /\ InState(p, "listening")
               /\ info' = [info EXCEPT ![s] = p]
               /\ UNCHANGED late
    /\ UNCHANGED <<spawnLock, pc, clientVars, stopper, ran, broke, unsure, outcome>>

\* A server is killed from outside: its info file stays.
Die(p) ==
    /\ "die" \in ServerFaults
    /\ proc[p].state \in {"starting", "listening"}
    /\ InState(p, "dead")
    /\ late' = late \cup {proc[p].store}
    /\ UNCHANGED <<info, spawnLock, pc, clientVars, stopper, ran, broke, unsure, outcome>>

\* A server asked to terminate has shut down.
Exit(p) ==
    /\ proc[p].state = "stopping"
    /\ InState(p, "dead")
    /\ UNCHANGED <<info, spawnLock, pc, clientVars, stopper, history>>

\* The pid of a dead server goes to a process that has nothing to do with dolt.
Reuse(p) ==
    /\ "reuse" \in ServerFaults
    /\ proc[p].state = "dead"
    /\ InState(p, "foreign")
    /\ UNCHANGED <<info, spawnLock, pc, clientVars, stopper, history>>

\* cp -r of a served store, before anyone opens the copy.
Copy(a, b) ==
    /\ info[a] # NoPid
    /\ info[b] = NoPid
    /\ \A c \in Clients : path[c] = b => calls[c] = 0
    /\ info' = [info EXCEPT ![b] = info[a]]
    /\ UNCHANGED <<proc, spawnLock, pc, clientVars, stopper, history>>

-----------------------------------------------------------------------------
(* stop() *)

StopReads(s) ==
    /\ stopper[s].pc = "idle"
    /\ Alive(info[s])
    /\ stopper' = [stopper EXCEPT ![s] = [pc |-> "term", pid |-> info[s]]]
    /\ UNCHANGED <<info, proc, spawnLock, pc, clientVars, history>>

\* SIGTERM: a server withdraws its info file at once and may linger, holding the
\* store; anything else just dies, unless it is another user's.
StopTerm(s) ==
    /\ stopper[s].pc = "term"
    /\ LET p == stopper[s].pid  own == proc[p].store IN
       \/ /\ ~Alive(p) \/ p \in Unreadable
          /\ stopper' = [stopper EXCEPT ![s] = Nobody]
          /\ UNCHANGED <<info, proc, late>>
       \/ /\ Alive(p)
          /\ stopper' = [stopper EXCEPT ![s].pc = "kill"]
          /\ IF proc[p].state = "foreign"
             THEN InState(p, "dead") /\ UNCHANGED <<info, late>>
             ELSE /\ InState(p, "stopping")
                  /\ info' = [t \in Stores |-> IF t = own /\ info[t] = p THEN NoPid ELSE info[t]]
                  /\ late' = late \cup {own}
    /\ UNCHANGED <<spawnLock, pc, clientVars, ran, broke, unsure, outcome>>

\* The grace period ends, or the process has gone: SIGKILL leaves no doubt.
StopKill(s) ==
    /\ stopper[s].pc = "kill"
    /\ \/ Alive(stopper[s].pid) /\ InState(stopper[s].pid, "dead")
       \/ /\ ~Alive(stopper[s].pid) \/ stopper[s].pid \in Unreadable
          /\ UNCHANGED proc
    /\ stopper' = [stopper EXCEPT ![s] = Nobody]
    /\ UNCHANGED <<info, spawnLock, pc, clientVars, ran, broke, unsure, outcome, late>>

Next ==
    \/ \E c \in Clients : Call(c) \/ Lock(c) \/ Step(c) \/ Exchange(c) \/ Killed(c)
    \/ \E p \in Pids : Listen(p) \/ Die(p) \/ Exit(p) \/ Reuse(p)
    \/ \E s \in Stopped : StopReads(s) \/ StopTerm(s) \/ StopKill(s)
    \/ \E copy \in Copies : Copy(copy[1], copy[2])

\* Processes run, the kernel hands a file lock to each waiter in its turn, and a
\* server that was started binds or gives up.  Nothing makes a server or a dolt
\* command answer: connect_timeout is the only limit the code sets there.
Fairness ==
    /\ \A c \in Clients : WF_vars(Step(c)) /\ SF_vars(Lock(c))
    /\ \A p \in Pids : WF_vars(Listen(p))

Spec == Init /\ [][Next]_vars
FairSpec == Spec /\ Fairness

-----------------------------------------------------------------------------
(* Properties *)

Steps == {"idle", "lock", "spawn", "poll", "wire", "connect", "send", "cli"}

TypeOK ==
    /\ info \in [Stores -> Pids \cup {NoPid}]
    /\ proc \in [Pids -> [store : Stores \cup {"nowhere"},
                          state : {"none", "starting", "listening", "stopping", "dead", "foreign"}]]
    /\ spawnLock \subseteq Clients
    /\ pc \in [Clients -> Steps]
    /\ conn \in [Clients -> Pids \cup {NoPid}]
    /\ wireDead \in [Clients -> BOOLEAN]
    /\ path \in [Clients -> Stores]
    /\ calls \in [Clients -> Nat]
    /\ stopper \in [Stopped -> [pc : {"idle", "term", "kill"}, pid : Pids \cup {NoPid}]]
    /\ ran \in [Clients -> [Stores -> Nat]]
    /\ broke \in [Clients -> BOOLEAN]
    /\ unsure \subseteq Clients
    /\ outcome \in [Clients -> {"none", "ok", "error"}]
    /\ late \subseteq Stores

\* A statement for one store never runs in another, though a copied or stale info
\* file names a live server of another store (the defect _serves_this_store mends),
\* unless the process the file names could not be looked at, and was trusted.
RunsInItsStore ==
    \A c \in Clients \ unsure, s \in Stores : ran[c][s] > 0 => s = path[c]

\* The caller is told the truth: a statement reported as done ran exactly once and
\* one reported as failed did not run, unless its connection broke under it, when
\* the command line ran it a second time after it may already have run.  It takes
\* a failure of the command line to mean that nothing was run.
ToldTheTruth ==
    \A c \in Clients \ unsure :
        LET times == ran[c][path[c]] IN
        /\ times <= (IF broke[c] THEN 2 ELSE 1)
        /\ outcome[c] = "ok" => times >= 1
        /\ outcome[c] = "error" /\ ~broke[c] => times = 0

\* Racing callers do not start a herd of servers: while nothing was late, stopped
\* or killed, a store gets one server process, however many callers found none.
NoHerd ==
    \A s \in Stores \ late :
        Cardinality({p \in Pids : Running(p, s)}) <= 1

Waiting == {"lock", "spawn", "poll", "wire"}

\* Failing open: whatever servers, other callers and their killers do, a caller
\* gets past the lock, the spawn and the readiness poll and hands its statement
\* over.  From there on it may wait for ever: no statement has a time limit.
HandsOver == \A c \in Clients : pc[c] \in Waiting ~> pc[c] \notin Waiting
=============================================================================
