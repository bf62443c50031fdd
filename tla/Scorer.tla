------------------------------- MODULE Scorer -------------------------------
(***************************************************************************)
(* The EV scorer (score.py): whether a takeaway is disclosed or held back, *)
(* computed from the firings table alone.  A firings table is a sequence;  *)
(* the id of a firing is its position, as ids are handed out in order and  *)
(* no firing is ever deleted.                                              *)
(***************************************************************************)
EXTENDS Integers, Sequences, FiniteSets

CONSTANTS
    NColdStart,     \* score.py N_COLD_START: ratings needed before precision counts
    NUnratedPause   \* score.py N_UNRATED_PAUSE: firings tolerated without a rating

ASSUME ScorerAssumption ==
    /\ NColdStart \in Nat \ {0}
    /\ NUnratedPause \in Nat \ {0}

Unrated == "unrated"
Outcomes == {"helpful", "noise"}

FiringsOf(log, row) == {i \in DOMAIN log : log[i].row = row}

Rated(log, row) == {i \in FiringsOf(log, row) : log[i].outcome # Unrated}

Helpful(log, row) == {i \in FiringsOf(log, row) : log[i].outcome = "helpful"}

\* Slip: paused at the limit only.
ColdPaused_AtLimit(log, row) ==
    /\ Rated(log, row) = {}
    /\ Cardinality(FiringsOf(log, row)) = NUnratedPause

\* Slip: no pause.
ColdPaused_Never(log, row) == FALSE

\* Heavy traffic and no feedback at all.
ColdPaused(log, row) ==
    /\ Rated(log, row) = {}
    /\ Cardinality(FiringsOf(log, row)) >= NUnratedPause

ColdStart(log, row) == Cardinality(Rated(log, row)) < NColdStart

\* helpful / evidence_count >= EV_THRESHOLD, with EV_THRESHOLD = 0.5.
PreciseEnough(log, row) ==
    2 * Cardinality(Helpful(log, row)) >= Cardinality(Rated(log, row))

\* The decision of score(): TRUE is "fire", FALSE is "suppress".
Fires(log, row) ==
    /\ ~ColdPaused(log, row)
    /\ ColdStart(log, row) \/ PreciseEnough(log, row)
=============================================================================
