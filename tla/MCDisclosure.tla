---------------------------- MODULE MCDisclosure ----------------------------
(* Values for the constants of Disclosure, and the model values TLC uses. *)
EXTENDS Disclosure, TLC

CONSTANTS s1, s2, h1, h2, r1, r2

OwnSession == h1 :> s1 @@ h2 :> s2       \* one hook process per session
SharedSession == h1 :> s1 @@ h2 :> s1    \* parallel hooks of one session
Solo == h1 :> s1

TwoSessionStart == r1 :> "session_start" @@ r2 :> "session_start"
OneOnDemand == r1 :> "on_demand"
OneSessionStart == r1 :> "session_start"
=============================================================================
