---------------------------- MODULE MCInstrument ----------------------------
(* Values for the constants of Instrument. *)
EXTENDS Instrument, TLC
CONSTANTS v1, v2, pre, bash, edit, skill, t1, t2, hub, p1, p2

SameCommand == v1 :> (pre :> "guarded") @@ v2 :> (pre :> "guarded")
WiderMatcher == v1 :> (pre :> edit) @@ v2 :> (pre :> bash)
OneSkill == <<skill>>
Alike == Permutations(Processes)

\* A duplicate of our hook, one of them beside somebody's own; an untouched skill.
Before ==
    "settings" :> [kind |-> "whole", hooks |-> pre :>
        << [matcher |-> edit, hooks |-> {[event |-> pre, command |-> "guarded"], t1}],
           [matcher |-> edit, hooks |-> {[event |-> pre, command |-> "guarded"]}] >>]
    @@ "local" :> [kind |-> "whole", own |-> "none", theirs |-> {}]
    @@ skill :> [kind |-> "whole", stamp |-> v1, body |-> v1]
    @@ "readme" :> [kind |-> "whole", own |-> "none", theirs |-> {}]
    @@ [f \in {"store", "mcp", "pre-commit"} |-> Absent]
=============================================================================
