-------------------------------- MODULE Lists --------------------------------
(* A list comprehension with a condition, [x for x in s if x in S]: the      *)
(* elements of a sequence that belong to a set, in their order.              *)
EXTENDS Naturals, Sequences

\* What is kept of the first n elements, for each n.
OnlyUpTo(s, S) ==
    LET kept[n \in 0 .. Len(s)] ==
            IF n = 0 THEN <<>>
            ELSE IF s[n] \in S THEN Append(kept[n - 1], s[n]) ELSE kept[n - 1]
    IN kept

Only(s, S) == OnlyUpTo(s, S)[Len(s)]
=============================================================================
