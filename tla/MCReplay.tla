------------------------------ MODULE MCReplay ------------------------------
(* Values for the constants of Replay. *)
EXTENDS Replay, TLC
CONSTANTS r1, r2, k1, k2, k3

\* Two runs of one condition, in the same second or not, or one run of two and a
\* manifest that is refused.
SomePlans ==
    {[id |-> r1 :> 1 @@ r2 :> i, manifest |-> r1 :> <<k1>> @@ r2 :> <<k1>>] : i \in {1, 2}}
    \cup {[id |-> r1 :> 1 @@ r2 :> 2, manifest |-> r1 :> <<k1, k2>> @@ r2 :> m] : m \in {<<>>, <<k1, k1>>, <<k3>>}}
OneReused == {r1 :> "own" @@ r2 :> "reused"}
=============================================================================
