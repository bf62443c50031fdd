---------------------------- MODULE RowLifecycle ----------------------------
(***************************************************************************)
(* What the disclosure path promises for each row of each session: a hook  *)
(* chooses the row only while it is armed, shows it at most once for each  *)
(* time it was chosen, and between two showings its text must have been    *)
(* wiped from the session's context and the row armed again.               *)
(***************************************************************************)
CONSTANTS Sessions, Rows

VARIABLE life

(* armed   - the log does not count the row as shown                       *)
(* chosen  - a hook has passed it through dedup and may log it             *)
(* pending - it is logged and its line waits to be printed                 *)
(* shown   - the session's context holds its line                          *)
(* spent   - the log counts it as shown, the context does not hold it      *)
Stages == {"armed", "chosen", "pending", "shown", "spent"}

Init == life = [s \in Sessions |-> [r \in Rows |-> "armed"]]

\* The rows R of session s, all at stage `from`, move to stage `to`.
Move(s, R, from, to) ==
    /\ \A r \in R : life[s][r] = from
    /\ life' = [life EXCEPT ![s] = [r \in Rows |-> IF r \in R THEN to ELSE @[r]]]

\* The markers decide which rows are armed.  A new state of them re-arms spent
\* rows, or forgets having done so; rows on their way to the context, or in it,
\* are beyond their reach.
Remarked(before, after) ==
    \/ after = before
    \/ {before, after} = {"armed", "spent"}

\* A hook reads the markers and chooses among the rows they leave armed.  R is
\* empty when the markers only change.
Choose(s, R) ==
    /\ \A r \in R : life[s][r] = "armed"
    /\ life' \in [Sessions -> [Rows -> Stages]]
    /\ \A t \in Sessions, r \in Rows :
         IF t = s /\ r \in R THEN life'[t][r] = "chosen"
         ELSE Remarked(life[t][r], life'[t][r])

Log(s, R) == Move(s, R, "chosen", "pending")

Show(s, R) == Move(s, R, "pending", "shown")

\* Compaction takes everything shown out of the context.
Wipe(s) == Move(s, {r \in Rows : life[s][r] = "shown"}, "shown", "spent")

\* A suppressed row, or all the work of a hook that dies.  What was logged is
\* spent; what was only chosen may or may not have reached the log.  With the hook
\* goes what it had read of the markers: rows armed by that are spent again.
Drop(s, R) ==
    \E unlogged, forgotten \in SUBSET Rows :
        /\ unlogged \subseteq R /\ forgotten \cap R = {}
        /\ \A r \in unlogged : life[s][r] = "chosen"
        /\ \A r \in R \ unlogged : life[s][r] \in {"chosen", "pending"}
        /\ \A r \in forgotten : life[s][r] = "armed"
        /\ life' = [life EXCEPT ![s] =
                      [r \in Rows |-> IF r \in unlogged THEN "armed"
                                      ELSE IF r \in R \cup forgotten THEN "spent" ELSE @[r]]]

Next ==
    \/ \E s \in Sessions, R \in SUBSET Rows :
         Choose(s, R) \/ Log(s, R) \/ Show(s, R) \/ Drop(s, R)
    \/ \E s \in Sessions : Wipe(s)

Spec == Init /\ [][Next]_life
=============================================================================
