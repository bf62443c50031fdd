----------------------------- MODULE MCCuration -----------------------------
(* Values for the constants of Curation. *)
EXTENDS Curation, TLC
CONSTANTS c1, c2, m1, m2, d1, s1

OneLesson == <<[lesson |-> m2, words |-> {}], Malformed>>
Entry(lesson, words) == [lesson |-> lesson, active |-> TRUE, signature |-> TRUE,
                         born |-> words, words |-> words]
Retired(row) == [row EXCEPT !.active = FALSE]
\* A row alone, or with a retired one that says the same in one line.
OneOrTwoRows == {<<Entry(m1, {d1})>>, <<Entry(m1, {d1}), Retired(Entry(m1, {}))>>}
\* One-liners are alike when equal, texts also when only the one-liner differs.
EqualLines == {<<m, m>> : m \in Lessons}
LikeTexts == {<<t, u>> \in (SUBSET Wordings) \X SUBSET Wordings :
                t = u \/ (t \cap Details # {} /\ t \cap Details = u \cap Details)}
ClientsAlike == Permutations(Clients)
=============================================================================
