----------------------------- MODULE MCTuning ------------------------------
(* Values for the constants of Tuning. *)
EXTENDS Tuning, TLC
CONSTANTS r1, r2, ka, kb, kc, q1, q2, q3, s1, s2

\* r1 is reached by keyword for q1 and q2, r2 for q2 alone; the rest is similarity.
Said == (q1 :> {ka}) @@ (q2 :> {ka, kb}) @@ (q3 :> {kc})
\* q2 quotes a line that says kb; without it, it is q1.
Quoting == (q1 :> q1) @@ (q2 :> q1) @@ (q3 :> q3)
\* The keyword kc draws a row towards q3, and away from the rest.
Near == [r \in Rows |-> [words \in SUBSET Keywords |->
           IF kc \in words THEN (q1 :> 4) @@ (q2 :> 2) @@ (q3 :> 7)
           ELSE (q1 :> 5) @@ (q2 :> 2) @@ (q3 :> 4)]]
\* Only even similarities can be stored; 5 is rounded up, 7 down.
ToEven == [x \in 0 .. 8 |-> CASE x = 5 -> 6 [] x = 8 -> 8 [] x = 7 -> 6 [] OTHER -> 2 * (x \div 2)]
Violated == (r1 :> {q3}) @@ (r2 :> {})
Twins == {<<r1, r2>>}
Given == (r1 :> <<kb, ka>>) @@ (r2 :> <<kb>>)
Asking == Permutations(Sessions)
=============================================================================
