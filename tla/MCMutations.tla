---------------------------- MODULE MCMutations ----------------------------
(* Values for the constants of Mutations. *)
EXTENDS Mutations, TLC

CONSTANTS c1, c2, t1, t2, keyword, glob, needle, high, null

State(kind, spec) == [f \in Fields |-> CASE f = "trigger_kind" -> kind
                                         [] f = "trigger_spec" -> spec
                                         [] OTHER -> null]

SameClients == Permutations({c1, c2})

Created == {State("on_demand", keyword), State("tool_call", needle)}
=============================================================================
