------------------------------ MODULE Scoring ------------------------------
(* The number beside a candidate (matching/score.js, the writing of it in analysis.js,
   and the arithmetic of scripts/score-migrate.mjs).

   The model judges requirement by requirement; the code prices the verdicts, adds a
   nudge for the location and stores all three.  An older build priced them another
   way and stored the total only: a migration recovers the nudge by subtraction.  The
   price of silence is a setting, and a refresh prices the stored verdicts again.

   Shares are hundredths, in exact arithmetic where the code has doubles. *)
EXTENDS Integers, FiniteSets, FiniteSetsExt

CONSTANTS
    Requirements,   \* of one job, by number: must-haves, then preferred, then contextual
    Silences,       \* values of MATCH_SILENCE_FRACTION, in hundredths
    Bonuses, Penalties,     \* locationBonus, upwards and downwards
    MaxNudge,       \* MAX_NUDGE
    Unknown         \* no row, no opinion, no nudge, no weight

Nudges == Bonuses \union {-n : n \in Penalties}
Tiers == {"must_have", "preferred", "contextual"}
TierWeight == [must_have |-> 30, preferred |-> 10, contextual |-> 5]
Verdicts == {"meets", "partial", "contradicted", "no_evidence"}

ASSUME ScoringAssumption ==
    /\ Cardinality(Requirements) \in Nat /\ Requirements = 1..Cardinality(Requirements)
    /\ Silences \subseteq 0..60         \* "below partial"; the setting itself takes up to 100
    /\ MaxNudge \in Nat /\ Bonuses \union Penalties \subseteq 0..MaxNudge
    /\ Unknown \notin Int

VARIABLES
    silence,    \* MATCH_SILENCE_FRACTION of the running build
    answer,     \* what the model says of each requirement, and their tiers
    friction,   \* the nudge its answer is worth
    stored,     \* the row: absolute_fit and criteria
    pricedAt,   \* history: the fraction it was last priced at
    clamped     \* history: the migration counted it as approximate

scoringVars == <<silence, answer, friction, stored, pricedAt, clamped>>

Clamp(n) == Max({0, Min({100, n})})
(* Math.round(a / b) *)
Rounded(a, b) == (2 * a + b) \div (2 * b)
Total(terms, set) == MapThenSumSet(LAMBDA r : terms[r], set)

(* Tiers as requirementsFrom lists them. *)
Jobs == {t \in [Requirements -> Tiers] :
            \A r, q \in Requirements : r < q => TierWeight[t[r]] >= TierWeight[t[q]]}

(* A verdict that is missing or says something else is silence. *)
Answers == Verdicts \union {"garbled"}
Heard(a) == IF a \in Verdicts THEN a ELSE "no_evidence"

-----------------------------------------------------------------------------
(* Pricing verdicts *)

Worth(status, s) ==
    CASE status = "meets" -> 100
      [] status = "partial" -> 60
      [] status = "contradicted" -> 0
      [] OTHER -> s

WeightOf(row) == IF row.weight # Unknown THEN row.weight ELSE TierWeight[row.tier]

(* scoreAgainst and rescoreBreakdown: the one reads the requirements, the other what *)
(* the one has stored.                                                               *)
Breakdown(job, said) ==
    [r \in Requirements |-> [tier |-> job[r], weight |-> TierWeight[job[r]], status |-> Heard(said[r])]]

Weighed(rows) == [r \in Requirements |-> WeightOf(rows[r])]
Earned(rows, s) == [r \in Requirements |-> Worth(rows[r].status, s) * WeightOf(rows[r])]
Mentioned(rows) == {r \in Requirements : rows[r].status # "no_evidence"}

(* Faulty variant: what was not mentioned leaves the sum, as it used to. *)
FitOfTheMentioned(rows, s) ==
    IF Mentioned(rows) = {} THEN Unknown
    ELSE Rounded(Total(Earned(rows, s), Mentioned(rows)), Total(Weighed(rows), Mentioned(rows)))

Fit(rows, s) ==
    IF Mentioned(rows) = {} THEN Unknown
    ELSE Rounded(Total(Earned(rows, s), Requirements), Total(Weighed(rows), Requirements))

Coverage(rows) ==
    Rounded(100 * Total(Weighed(rows), Mentioned(rows)), Total(Weighed(rows), Requirements))

(* oldFitOf: the arithmetic before silence had a price. *)
OldFit(rows) ==
    IF Mentioned(rows) = {} THEN Unknown
    ELSE Rounded(Total(Earned(rows, 0), Mentioned(rows)), Total(Weighed(rows), Mentioned(rows)))

(* A row that the keywords wrote has no verdicts; Keywords has its score. *)
KeywordRow(n) == [scale |-> "new", fit |-> n, by |-> "keywords"]
ModelRow(scale, fit, rows, nudge) ==
    [scale |-> scale, fit |-> fit, by |-> "model", verdicts |-> rows, nudge |-> nudge,
     coverage |-> Coverage(rows)]

(* As long as one piece of evidence weighs half a percent of the job. *)
FewRequirements == Cardinality(Requirements) <= 34

ScoringTypeOK ==
    /\ silence \in Silences
    /\ stored # Unknown =>
        /\ stored.fit \in 0..100 /\ stored.scale \in {"old", "new"}
        /\ stored.by = "model" => /\ stored.coverage \in 0..100 /\ (FewRequirements => stored.coverage # 0)
                                  /\ stored.scale = "new" => stored.nudge # Unknown

(* What an older build left, whose rows may lack their weights. *)
OlderRows(job, said, n) ==
    {ModelRow("old", Clamp(OldFit(Breakdown(job, said)) + n), rows, Unknown) :
        rows \in {Breakdown(job, said),
                  [r \in Requirements |-> [Breakdown(job, said)[r] EXCEPT !.weight = Unknown]]}}

ScoringInit ==
    /\ silence \in Silences /\ friction \in Nudges
    /\ answer \in [job : Jobs, said : [Requirements -> Answers]]
    /\ stored \in {Unknown} \union
           IF \A r \in Requirements : Heard(answer.said[r]) = "no_evidence" THEN {}
           ELSE OlderRows(answer.job, answer.said, friction)
    /\ pricedAt = Unknown /\ clamped = FALSE

-----------------------------------------------------------------------------
(* The life of a stored judgement *)

Priced(rows, n, s) == Clamp(Fit(rows, s) + n)

(* analyseBatch on a miss: priced, nudged, stored; without an opinion the keywords speak. *)
Judge ==
    LET rows == Breakdown(answer.job, answer.said) IN
    /\ stored = Unknown
    /\ stored' = IF Fit(rows, silence) = Unknown THEN KeywordRow(0)
                 ELSE ModelRow("new", Priced(rows, friction, silence), rows, friction)
    /\ pricedAt' = silence
    /\ UNCHANGED <<silence, answer, friction, clamped>>

(* What the subtraction gives, and whether it is reported as approximate. *)
Recovered == stored.fit - OldFit(stored.verdicts)
MayBeClamped ==
    LET before == OldFit(stored.verdicts) IN
    \/ stored.fit >= 100 /\ before + MaxNudge > 100
    \/ stored.fit <= 0 /\ before - MaxNudge < 0

(* rescoreOne *)
MigrateRow ==
    /\ stored # Unknown /\ stored.scale = "old"
    /\ stored' = ModelRow("new", Priced(stored.verdicts, Recovered, silence), stored.verdicts, Recovered)
    /\ clamped' = MayBeClamped /\ pricedAt' = silence
    /\ UNCHANGED <<silence, answer, friction>>

(* rescoreStored *)
RefreshRow ==
    /\ stored # Unknown /\ stored.scale = "new" /\ stored.by = "model"
    /\ stored' = [stored EXCEPT !.fit = Priced(stored.verdicts, stored.nudge, silence),
                                !.coverage = Coverage(stored.verdicts)]
    /\ pricedAt' = silence
    /\ UNCHANGED <<silence, answer, friction, clamped>>

SetSilence(s) ==
    /\ silence' = s
    /\ UNCHANGED <<answer, friction, stored, pricedAt, clamped>>

ScoringNext ==
    \/ Judge \/ MigrateRow \/ RefreshRow
    \/ \E s \in Silences : SetSilence(s)

ScoringSpec == ScoringInit /\ [][ScoringNext]_scoringVars

-----------------------------------------------------------------------------
(* A judgement that was migrated, stored and refreshed is what judging anew would
   give at the fraction it was priced at, for every row the migration did not report:
   the nudge is the one the location was worth, whatever tiers and weights were
   stored (rescoreOne, rescoreStored, rescoreBreakdown). *)
StoredIsJudgedAnew ==
    stored # Unknown /\ stored.scale = "new" /\ stored.by = "model" /\ ~clamped =>
        /\ stored.nudge = friction
        /\ stored.fit = Priced(Breakdown(answer.job, answer.said), friction, pricedAt)

(* Nobody rises by saying less: a requirement the CV gives evidence of is worth more
   than one it is silent about, and a proven failure less, in any job, so that the
   numbers of two candidates are ordered as their verdicts are. *)
SayingLessNeverPays ==
    stored # Unknown /\ stored.by = "model" =>
        \A r \in Requirements :
            LET with(status) == [stored.verdicts EXCEPT ![r].status = status]
                fit(status) == Fit(with(status), silence)
            IN /\ fit("meets") >= fit("partial") /\ fit("partial") >= fit("contradicted")
               /\ fit("no_evidence") # Unknown =>
                    fit("partial") >= fit("no_evidence") /\ fit("no_evidence") >= fit("contradicted")

(* What is stored beside a judgement and the number itself are one thing: migrated,
   refreshed and judged rows agree with their verdicts. *)
ScoringIsSound == ScoringTypeOK /\ StoredIsJudgedAnew /\ SayingLessNeverPays
=============================================================================
