---------------------------- MODULE EmbedDaemon ----------------------------
(***************************************************************************)
(* The warm embedding daemon and the hooks that use it (embed.py): hooks   *)
(* load an unlocked cache file, ask the daemon for what is missing, start  *)
(* one and embed in process when it does not answer, and write the cache   *)
(* back whole.  Daemons share one socket path; each probes it, unlinks     *)
(* what looks stale, binds, serves, and unlinks the path when it leaves.   *)
(***************************************************************************)
EXTENDS FiniteSets, Naturals

CONSTANTS
    Hooks,          \* processes calling embed_texts
    Texts,
    Daemons,        \* daemon processes that may be started
    NoDaemon,       \* nothing at the socket path
    Torn,           \* a cache file whose writer was killed in the middle
    Kills           \* whether a daemon or a hook may be killed

ASSUME EmbedDaemonAssumption ==
    /\ NoDaemon \notin Daemons
    /\ Kills \in BOOLEAN

VARIABLES
    sock,       \* which daemon bound the file at the socket path
    daemon,     \* where each daemon process is
    cache,      \* the cache file: the texts it has vectors for, or Torn
    pc,         \* where each hook is
    texts,      \* what a hook was asked to embed
    known,      \* the texts a hook has vectors for
    (* History *)
    overlapped  \* daemons that started or left while another one did, or whose file
                \* a daemon that had lost the path removed when it left

vars == <<sock, daemon, cache, pc, texts, known, overlapped>>

Init ==
    /\ sock = NoDaemon
    /\ daemon = [d \in Daemons |-> "none"]
    /\ cache = {}
    /\ pc = [h \in Hooks |-> "idle"]
    /\ texts = [h \in Hooks |-> {}]
    /\ known = [h \in Hooks |-> {}]
    /\ overlapped = {}

Goto(h, next) == pc' = [pc EXCEPT ![h] = next]

Serving(d) == d \in Daemons /\ daemon[d] = "serving"

Moving == {d \in Daemons : daemon[d] \in {"boot", "unlink", "bind", "bound", "closing"}}

-----------------------------------------------------------------------------
(* embed_texts *)

\* An unreadable or half-written file is an empty cache.
LoadCache(h) ==
    /\ pc[h] = "idle"
    /\ \E T \in (SUBSET Texts) \ {{}} :
         /\ texts' = [texts EXCEPT ![h] = T]
         /\ known' = [known EXCEPT ![h] = IF cache = Torn THEN {} ELSE cache]
         /\ Goto(h, IF T \subseteq known'[h] THEN "served" ELSE "ask")
    /\ UNCHANGED <<sock, daemon, cache, overlapped>>

Learn(h) == known' = [known EXCEPT ![h] = @ \cup texts[h]]

\* _daemon_embed: whoever serves the path answers.
AskDaemon(h) ==
    /\ pc[h] = "ask"
    /\ Serving(sock)
    /\ Learn(h)
    /\ Goto(h, "truncate")
    /\ UNCHANGED <<sock, daemon, cache, texts, overlapped>>

\* Slip: the hook waits for the daemon it has started.
FallBack_Waits(h) ==
    /\ pc[h] = "ask"
    /\ ~Serving(sock) /\ \E d \in Daemons : daemon[d] = "none"
    /\ daemon' = [daemon EXCEPT ![CHOOSE d \in Daemons : daemon[d] = "none"] = "boot"]
    /\ UNCHANGED <<sock, cache, pc, texts, known, overlapped>>

\* No answer, or none in time: one daemon is started for the next hook, and this
\* one embeds in process, or, when that fails too, does without.
FallBack(h) ==
    /\ pc[h] = "ask"
    /\ ~Serving(sock) \/ Kills
    /\ LET free == {d \in Daemons : daemon[d] = "none"}
           d == CHOOSE d \in free : TRUE
       IN IF free = {} THEN UNCHANGED <<daemon, overlapped>>
          ELSE /\ daemon' = [daemon EXCEPT ![d] = "boot"]
               /\ overlapped' = IF Moving = {} THEN overlapped
                                ELSE overlapped \cup Moving \cup {d}
    /\ \/ Learn(h) /\ Goto(h, "truncate")
       \/ Goto(h, "lexical") /\ UNCHANGED known
    /\ UNCHANGED <<sock, cache, texts>>

\* _save_cache: open(path, "w") empties the file, json.dump fills it.
TruncateCache(h) ==
    /\ pc[h] = "truncate"
    /\ cache' = Torn
    /\ Goto(h, "save")
    /\ UNCHANGED <<sock, daemon, texts, known, overlapped>>

SaveCache(h) ==
    /\ pc[h] = "save"
    /\ cache' = known[h]
    /\ Goto(h, "served")
    /\ UNCHANGED <<sock, daemon, texts, known, overlapped>>

Exit(h) ==
    /\ Goto(h, "idle")
    /\ texts' = [texts EXCEPT ![h] = {}]
    /\ known' = [known EXCEPT ![h] = {}]
    /\ UNCHANGED <<sock, daemon, cache, overlapped>>

Leave(h) == pc[h] \in {"served", "lexical"} /\ Exit(h)

\* Killed at the harness's timeout, maybe between the two writes of the cache.
KillHook(h) == Kills /\ pc[h] # "idle" /\ Exit(h)

-----------------------------------------------------------------------------
(* run_daemon *)

To(d, next) == daemon' = [daemon EXCEPT ![d] = next]

\* Slip: any file at the path is taken for stale.
Probe_TakesAllForStale(d) ==
    /\ daemon[d] = "boot"
    /\ To(d, IF sock = NoDaemon THEN "bind" ELSE "unlink")
    /\ UNCHANGED <<sock, cache, pc, texts, known, overlapped>>

\* A daemon that answers makes this one redundant; a file nobody answers at (its
\* owner is dead, leaving, or not listening yet) is stale.
Probe(d) ==
    /\ daemon[d] = "boot"
    /\ To(d, CASE sock = NoDaemon -> "bind"
               [] Serving(sock)   -> "gone"
               [] OTHER           -> "unlink")
    /\ UNCHANGED <<sock, cache, pc, texts, known, overlapped>>

\* os.unlink(path), whatever is there by now; if nothing is, it raises and ends
\* the daemon.
UnlinkStale(d) ==
    /\ daemon[d] = "unlink"
    /\ To(d, IF sock = NoDaemon THEN "gone" ELSE "bind")
    /\ sock' = NoDaemon
    /\ UNCHANGED <<cache, pc, texts, known, overlapped>>

Bind(d) ==
    /\ daemon[d] = "bind"
    /\ IF sock = NoDaemon THEN sock' = d /\ To(d, "bound")
       ELSE To(d, "gone") /\ UNCHANGED sock
    /\ UNCHANGED <<cache, pc, texts, known, overlapped>>

Listen(d) ==
    /\ daemon[d] = "bound"
    /\ To(d, "serving")
    /\ UNCHANGED <<sock, cache, pc, texts, known, overlapped>>

\* Slip: only the daemon at the path counts its idle time.
Close_AtPathOnly(d) ==
    /\ daemon[d] = "serving"
    /\ sock = d
    /\ To(d, "closing")
    /\ overlapped' = IF Moving = {} THEN overlapped ELSE overlapped \cup Moving \cup {d}
    /\ UNCHANGED <<sock, cache, pc, texts, known>>

\* Idle for DAEMON_IDLE_TIMEOUT, or grown past DAEMON_RSS_MAX_MB: srv.close() ...
Close(d) ==
    /\ daemon[d] = "serving"
    /\ To(d, "closing")
    /\ overlapped' = IF Moving = {} THEN overlapped ELSE overlapped \cup Moving \cup {d}
    /\ UNCHANGED <<sock, cache, pc, texts, known>>

\* ... and then the path is unlinked, whoever has bound it since.
UnlinkOwn(d) ==
    /\ daemon[d] = "closing"
    /\ sock' = NoDaemon
    /\ overlapped' = overlapped \cup ({sock} \ {d, NoDaemon})
    /\ To(d, "gone")
    /\ UNCHANGED <<cache, pc, texts, known>>

\* Killed: the socket file stays.
Die(d) ==
    /\ Kills
    /\ daemon[d] \notin {"none", "gone"}
    /\ To(d, "gone")
    /\ UNCHANGED <<sock, cache, pc, texts, known, overlapped>>

HookStep(h) ==
    AskDaemon(h) \/ FallBack(h) \/ TruncateCache(h) \/ SaveCache(h) \/ Leave(h)

Start(d) == Probe(d) \/ UnlinkStale(d) \/ Bind(d) \/ Listen(d)

Next ==
    \/ \E h \in Hooks : LoadCache(h) \/ HookStep(h) \/ KillHook(h)
    \/ \E d \in Daemons : Start(d) \/ Close(d) \/ UnlinkOwn(d) \/ Die(d)

\* Processes run (a kill is never owed); a daemon nobody can reach gets no connection and times out.
Fairness ==
    /\ \A h \in Hooks : WF_vars(HookStep(h))
    /\ \A d \in Daemons :
         WF_vars(Start(d)) /\ WF_vars(UnlinkOwn(d)) /\ WF_vars(sock # d /\ Close(d))

Spec == Init /\ [][Next]_vars
FairSpec == Spec /\ Fairness

-----------------------------------------------------------------------------
(* Properties *)

TypeOK ==
    /\ sock \in Daemons \cup {NoDaemon}
    /\ daemon \in [Daemons -> {"none", "boot", "unlink", "bind", "bound",
                               "serving", "closing", "gone"}]
    /\ cache \in (SUBSET Texts) \cup {Torn}
    /\ pc \in [Hooks -> {"idle", "ask", "truncate", "save", "served", "lexical"}]
    /\ texts \in [Hooks -> SUBSET Texts]
    /\ known \in [Hooks -> SUBSET Texts]
    /\ overlapped \subseteq Daemons

\* One daemon per machine, whatever was killed and left its socket behind, among
\* those whose start and end no other daemon's crossed (a probe and the unlink or
\* bind after it are not atomic, and a bound socket refuses until it listens) and
\* whose file no displaced daemon took away.
OneDaemon == Cardinality({d \in Daemons \ overlapped : daemon[d] = "serving"}) <= 1

\* A daemon that lost its path to another one does not stay for ever: its memory
\* is given back when it times out.
UnreachableLeaves ==
    \A d \in Daemons : daemon[d] = "serving" /\ sock # d ~> daemon[d] = "gone"

\* Failing open: a hook gets vectors for all its texts or goes on without any,
\* whether daemons answer or not and however often the cache file was torn.
HooksServed ==
    \A h \in Hooks :
        pc[h] = "ask" ~> \/ pc[h] = "served" /\ texts[h] \subseteq known[h]
                         \/ pc[h] \in {"lexical", "idle"}
=============================================================================
