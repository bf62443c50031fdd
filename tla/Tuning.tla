------------------------------- MODULE Tuning -------------------------------
(***************************************************************************)
(* The loop that tunes on_demand rows: a prompt matches rows by keyword or *)
(* by similarity (modules.py, on_demand_match and _cap_hits in             *)
(* store_write.py), the relevance cascade and the EV scorer judge the hits *)
(* (relevance/cascade.py, _disclose in hooks.py), firings are logged with  *)
(* what they matched on and rated, and from the rated firings `propose`    *)
(* (proposals.py) and `calibrate` (calibrate.py) derive new specs and      *)
(* thresholds, which a person applies later, in any order, or not at all.  *)
(***************************************************************************)
EXTENDS Naturals, Sequences, FiniteSets, SequencesExt, Lists

CONSTANTS
    Rows, Keywords, Queries, Sessions,
    NoWord,             \* the keyword of a firing that matched by similarity
    Words,              \* the keywords that occur in each query
    Stripped,           \* each query without the lines of monition's own it quotes
    Sim,                \* the similarity of each row, with each set of keywords, and query
    Rounded,            \* a similarity rounded to the digits a threshold is stored with
    Missed,             \* the queries of each row's violations
    Alike,              \* pairs of rows that share MERGE_MIN_SHARED_TOKENS tokens
    FirstSpec,          \* each row's trigger_spec: a sequence of keywords
    NColdStart, NUnratedPause, \* the bounds of score.py
    SimThreshold,       \* embed.py SIM_THRESHOLD
    MaxSim,             \* a similarity of 1.0
    TopK,               \* store_write.py SEMANTIC_TOP_K
    MinSoloNoise, MinViolations, MinHelpfulSemantic, MinCofireSessions,
    GraduateMinRated,   \* the floors of proposals.py
    MinRatings,         \* and of calibrate.py
    MaxPrompts          \* bound: prompts

ASSUME TuningAssumption ==
    /\ Words \in [Queries -> SUBSET Keywords]
    /\ Stripped \in [Queries -> Queries]
    /\ Sim \in [Rows -> [SUBSET Keywords -> [Queries -> 0 .. MaxSim]]]
    /\ Missed \in [Rows -> SUBSET Queries]
    /\ Alike \subseteq Rows \X Rows
    /\ FirstSpec \in [Rows -> Seq(Keywords)]
    /\ NoWord \notin Keywords
    /\ MaxSim \in Nat /\ SimThreshold \in 0 .. MaxSim
    /\ Rounded \in [0 .. MaxSim -> 0 .. MaxSim]
    /\ \A x, y \in 0 .. MaxSim : x <= y => Rounded[x] <= Rounded[y]
    /\ \A x \in 0 .. MaxSim : Rounded[Rounded[x]] = Rounded[x]
    /\ Rounded[SimThreshold] = SimThreshold
    /\ IsFiniteSet(Rows)

VARIABLES
    spec, theta, active,    \* each row's trigger_spec, sem_threshold and status
    firings,                \* the set of [row, said, query, session, keyword, outcome]: the
                            \* prompt as it was (situation), and as it was matched (evidence)
    prompts,                \* prompts so far
    proposal,               \* what `propose` read and printed: [pc, spec, props, owed]
    cal,                    \* `calibrate --apply` in progress, the same
    (* History *)
    owed                    \* <<row, query>>: the helpful queries that the last tuning of
                            \* the row knew of and claims to keep (proposal.owed, cal.owed)
tuningVars == <<spec, theta, active, firings, prompts, proposal, cal, owed>>

Idle == [pc |-> "none", spec |-> FirstSpec, props |-> {}, owed |-> {}]

TuningInit ==
    /\ spec = FirstSpec
    /\ theta = [r \in Rows |-> SimThreshold]
    /\ active = Rows
    /\ firings = {}
    /\ prompts = 0
    /\ proposal = Idle
    /\ cal = Idle
    /\ owed = {}

-----------------------------------------------------------------------------
(* Matching *)

\* lexical_match: the first keyword of the spec that the query contains.
Lexical(s, q) == \E i \in DOMAIN s : s[i] \in Words[q]
FirstKeyword(s, q) == s[CHOOSE i \in DOMAIN s : s[i] \in Words[q]
                                               /\ \A j \in 1 .. i - 1 : s[j] \notin Words[q]]

\* What is embedded of a row is its one_liner and its trigger_spec.
Score(r, s, q) == Sim[r][ToSet(s)][q]
Likeness(r, q) == Score(r, spec[r], q)

\* semantic_rank: at or above the row's own threshold.
Semantic(r, q) == Likeness(r, q) >= theta[r]

\* _not_yet_fired.
Fresh(s) == {r \in active : \A f \in firings : f.row # r \/ f.session # s}

\* The k most similar rows; ties are broken in some order.
Best(rows, q, k) ==
    CHOOSE best \in SUBSET rows :
        /\ Cardinality(best) = (IF Cardinality(rows) < k THEN Cardinality(rows) ELSE k)
        /\ \A r \in best, p \in rows \ best : Likeness(r, q) >= Likeness(p, q)

\* _cap_hits: only hits by similarity count against the cap.
Capped(lexical, semantic, q, k) == lexical \cup Best(semantic, q, k)

-----------------------------------------------------------------------------
(* The EV scorer, on the firings of a row *)

Of(r) == {f \in firings : f.row = r}
Rated(r) == {f \in Of(r) : f.outcome # "unrated"}
HelpfulOf(r) == {f \in Rated(r) : f.outcome = "helpful"}

\* score(): paused, having fired often and never been rated, or rated often enough and
\* mostly not helpful.
HeldBack(r) ==
    \/ Rated(r) = {} /\ Cardinality(Of(r)) >= NUnratedPause
    \/ /\ Cardinality(Rated(r)) >= NColdStart
       /\ 2 * Cardinality(HelpfulOf(r)) < Cardinality(Rated(r))

-----------------------------------------------------------------------------
(* The cascade *)

\* SpanSanitizer. With the cascade off or the sanitizer broken, or when nothing else is
\* left of it, the prompt goes to the matcher as it is.
Inputs(q) == {q, Stripped[q]}

\* The head, scoring the prompt as it was, is confident of some hits that they are noise;
\* of none if it is off, not staged, or fails.
Doubts(hits) == SUBSET hits

\* run_scorers and commit_suppress_only: a doubtful verdict fires, as does a hit that
\* a broken scorer, or one past the budget, abstains on.
Committed(hits, doubted) == hits \ doubted

\* prompt_hook on a prompt p that is matched as q. The injection budget may leave less
\* than the cap. _disclose asks the EV scorer of what is left, keyword matches too.
Prompt(s, p, q, doubted, k) ==
    LET lexical == {r \in Fresh(s) : Lexical(spec[r], q)}
        semantic == {r \in Fresh(s) \ lexical : Semantic(r, q)}
        hits == Capped(lexical, semantic, q, k)
        fired == {r \in Committed(hits, doubted) : ~HeldBack(r)}
    IN
    /\ prompts < MaxPrompts
    /\ doubted \in Doubts(hits)
    /\ fired # {}
    /\ prompts' = prompts + 1
    /\ firings' = firings \cup
         {[row |-> r, said |-> p, query |-> q, session |-> s, outcome |-> "unrated",
           keyword |-> IF r \in lexical THEN FirstKeyword(spec[r], q) ELSE NoWord] : r \in fired}
    /\ UNCHANGED <<spec, theta, active, proposal, cal, owed>>

\* A person may think again.
Rate(f, outcome) ==
    /\ f.outcome # outcome
    /\ firings' = (firings \ {f}) \cup {[f EXCEPT !.outcome = outcome]}
    /\ UNCHANGED <<spec, theta, active, prompts, proposal, cal, owed>>

-----------------------------------------------------------------------------
(* The rules of propose *)

LexicalOnes(fs) == {f \in fs : f.keyword # NoWord}

\* batch_sizes: rows delivered for one query of one session share the cause, and noise
\* among them says nothing of one row.
Moment(f) == <<f.session, f.said>>
Solo(f) == \A g \in firings : Moment(g) = Moment(f) => g.row = f.row
SoloNoise(r) == {f \in Rated(r) : f.outcome = "noise" /\ Solo(f)}

\* Nothing helpful was logged for the keyword, and the production matcher finds
\* every helpful lexical query by the rest of the spec.
LosesNothing(r, s, k) ==
    \A f \in LexicalOnes(HelpfulOf(r)) : f.keyword # k /\ Lexical(s, f.query)

WithoutWord(s, k) == Only(s, ToSet(s) \ {k})

Tighten(r, s) ==
    {WithoutWord(s, k) : k \in {k \in ToSet(s) :
        /\ Len(s) >= 2
        /\ Cardinality({f \in SoloNoise(r) : f.keyword = k}) >= MinSoloNoise
        /\ LosesNothing(r, WithoutWord(s, k), k)}}

Common(qs) == {k \in Keywords : \A q \in qs : k \in Words[q]}

Broaden(r, s) ==
    {Append(s, k) : k \in {k \in Common(Missed[r]) :
        Cardinality(Missed[r]) >= MinViolations /\ k \notin ToSet(s)}}

Migrate(r, s) ==
    LET helpful == {f \in HelpfulOf(r) : f.keyword = NoWord} IN
    {Append(s, k) : k \in {k \in Common({f.query : f \in helpful}) :
        /\ Cardinality(helpful) >= MinHelpfulSemantic
        /\ k \notin ToSet(s)
        /\ \A f \in SoloNoise(r) : k \notin Words[f.query]}}

\* Rows to retire: the loser of a pair that keeps firing on the same prompts and says
\* the same, and a row helpful in most sessions, once its content is elsewhere.
Merged(r) ==
    \E p \in active \ {r} :
        /\ <<r, p>> \in Alike
        /\ Cardinality({f.session : f \in {f \in Of(r) : \E g \in Of(p) : Moment(g) = Moment(f)}})
             >= MinCofireSessions

Graduates(r) ==
    /\ Cardinality(Rated(r)) >= GraduateMinRated
    /\ 5 * Cardinality(HelpfulOf(r)) >= 4 * Cardinality(Rated(r))
    /\ 2 * Cardinality({f.session : f \in Of(r)})
         >= Cardinality({f.session : f \in firings})

Replaced(r, known) == {x \in owed : x[1] # r} \cup {x \in known : x[1] = r}

\* What propose claims to keep: the helpful lexical firings that the spec it read matches.
\* calibrate: every helpful firing that still reaches the row; it scores the prompt as it
\* was, so it cannot claim the ones that quoted monition's lines.
KeptByKeyword(r, s) == {<<r, f.query>> : f \in {f \in LexicalOnes(HelpfulOf(r)) : Lexical(s, f.query)}}
KeptByEither(r, s) ==
    {<<r, f.query>> : f \in {f \in HelpfulOf(r) :
        f.said = f.query /\ (Lexical(s, f.query) \/ Score(r, s, f.query) >= theta[r])}}

-----------------------------------------------------------------------------
(* propose, and what people make of what it printed *)

ReadRows ==
    /\ proposal.pc = "none"
    /\ proposal' = [Idle EXCEPT !.pc = "rows", !.spec = spec]
    /\ UNCHANGED <<spec, theta, active, firings, prompts, cal, owed>>

ReadFirings ==
    /\ proposal.pc = "rows"
    /\ proposal' = [proposal EXCEPT
          !.pc = "printed",
          !.props = UNION {{<<r, s>> : s \in Tighten(r, proposal.spec[r])
                                             \cup Broaden(r, proposal.spec[r])
                                             \cup Migrate(r, proposal.spec[r])} : r \in active},
          !.owed = UNION {KeptByKeyword(r, proposal.spec[r]) : r \in active}]
    /\ proposal'.props # {}
    /\ UNCHANGED <<spec, theta, active, firings, prompts, cal, owed>>

\* retarget overwrites the spec, whatever it is by now.
Retarget(r, s) ==
    /\ <<r, s>> \in proposal.props
    /\ s # spec[r]
    /\ spec' = [spec EXCEPT ![r] = s]
    /\ proposal' = [proposal EXCEPT !.props = @ \ {<<r, s>>}]
    /\ owed' = Replaced(r, proposal.owed)
    /\ UNCHANGED <<theta, active, firings, prompts, cal>>

Dismiss ==
    /\ proposal.pc = "printed"
    /\ proposal' = Idle
    /\ UNCHANGED <<spec, theta, active, firings, prompts, cal, owed>>

Retire(r) ==
    /\ r \in active
    /\ Merged(r) \/ Graduates(r)
    /\ active' = active \ {r}
    /\ owed' = Replaced(r, {})
    /\ UNCHANGED <<spec, theta, firings, prompts, proposal, cal>>

-----------------------------------------------------------------------------
(* calibrate --apply: the threshold is computed anew, then set; one person at a time *)

\* The scores of the firings that were rated so, by the spec s.
ScoresOf(r, s, semantic, outcome) ==
    {Score(r, s, f.said) : f \in {f \in semantic : f.outcome = outcome}}

\* Slip: the threshold that cuts off the most noise.
Proposed_MostNoise(r, s, semantic) ==
    LET noise == ScoresOf(r, s, semantic, "noise") \ {MaxSim}
    IN IF noise = {} THEN theta[r] ELSE 1 + CHOOSE x \in noise : \A y \in noise : y <= x

\* _propose_theta: the lowest score of a helpful firing, or 1.0 if there is none.
Proposed(r, s, semantic) ==
    LET scores == ScoresOf(r, s, semantic, "helpful") IN
    IF scores = {} THEN MaxSim
    ELSE LET least == CHOOSE x \in scores : \A y \in scores : x <= y
         IN IF least > SimThreshold THEN least ELSE SimThreshold

\* Slip: every row is taken to be at the threshold that it starts with.
Current_First(r) == SimThreshold

\* The threshold a proposal has to raise.
Current(r) == theta[r]

ReadCalibrate ==
    /\ cal.pc = "none"
    /\ cal' = [Idle EXCEPT !.pc = "rows", !.spec = spec]
    /\ UNCHANGED <<spec, theta, active, firings, prompts, proposal, owed>>

\* rescore: each rated firing by today's spec; what a keyword covers now is not the
\* threshold's any more. What is compared is exact; what will be stored is rounded.
Rescore ==
    LET semantic(r) == {f \in Rated(r) : ~Lexical(cal.spec[r], f.said)}
        proposed(r) == Proposed(r, cal.spec[r], semantic(r))
        rises(r) == \E x \in ScoresOf(r, cal.spec[r], semantic(r), "noise") :
                       Current(r) <= x /\ x < proposed(r)
        ready == {r \in active : Cardinality(Rated(r)) >= MinRatings /\ rises(r)}
    IN
    /\ cal.pc = "rows"
    /\ ready # {}
    /\ cal' = [cal EXCEPT !.pc = "set",
                          !.props = {<<r, Rounded[proposed(r)]>> : r \in ready},
                          !.owed = UNION {KeptByEither(r, cal.spec[r]) : r \in ready}]
    /\ UNCHANGED <<spec, theta, active, firings, prompts, proposal, owed>>

SetThreshold(r, t) ==
    /\ cal.pc = "set" /\ <<r, t>> \in cal.props
    /\ theta' = [theta EXCEPT ![r] = t]
    /\ cal' = Idle
    /\ LET known == IF spec[r] = cal.spec[r] THEN cal.owed
                    ELSE {x \in owed : Lexical(spec[r], x[2])}
       IN owed' = Replaced(r, known)
    /\ UNCHANGED <<spec, active, firings, prompts, proposal>>

\* Killed, or nothing to propose.
EndCalibrate ==
    /\ cal.pc # "none"
    /\ cal' = Idle
    /\ UNCHANGED <<spec, theta, active, firings, prompts, proposal, owed>>

TuningNext ==
    \/ \E s \in Sessions, p \in Queries, doubted \in SUBSET Rows, k \in 0 .. TopK :
          \E q \in Inputs(p) : Prompt(s, p, q, doubted, k)
    \/ \E f \in firings, o \in {"helpful", "noise"} : Rate(f, o)
    \/ ReadRows \/ ReadFirings \/ Dismiss
    \/ \E p \in proposal.props : Retarget(p[1], p[2])
    \/ \E r \in Rows : Retire(r)
    \/ ReadCalibrate \/ Rescore \/ EndCalibrate
    \/ \E p \in cal.props : SetThreshold(p[1], p[2])

TuningSpec == TuningInit /\ [][TuningNext]_tuningVars

-----------------------------------------------------------------------------
(* Properties *)

\* Tuning keeps what was helpful: after any sequence of applied proposals, of propose
\* and of calibrate, the helpful queries that the last one knew of still match the row by
\* keyword, or are similar to it up to the rounding of its threshold.
HelpfulKept ==
    \A x \in owed : \/ Lexical(spec[x[1]], x[2])
                    \/ Rounded[Likeness(x[1], x[2])] >= theta[x[1]]

\* calibrate makes rows quieter, never louder: whatever is rated or thought again,
\* retargeted or proposed between two runs of it, it lowers no threshold.
ThresholdsNeverFall == [][\A r \in Rows : theta'[r] >= theta[r]]_tuningVars
=============================================================================
