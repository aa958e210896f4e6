------------------------------ MODULE Keywords ------------------------------
(* The score that needs no model (match.js): what is found of a job in a CV, weighed
   over the components that can be judged at all, and shown relative to the pool of a
   keyword search.  Shares are fractions of Parts, in exact arithmetic where the code
   has doubles. *)
EXTENDS Integers, FiniteSets, FiniteSetsExt

CONSTANTS
    Pooled,     \* candidates
    Parts,      \* in how many parts a share is measured
    Absent      \* nothing was asked, or in an alphabet that the CV has not

Components == {"required", "preferred", "title", "keywords"}
Weights == [required |-> 50, preferred |-> 18, title |-> 12, keywords |-> 20]
CredibleTopRaw == 55
TopBand == 2

ASSUME KeywordsAssumption ==
    /\ IsFiniteSet(Pooled) /\ Pooled # {}
    /\ Parts \in Nat \ {0} /\ Absent \notin Nat

Shares == 0..Parts \union {Absent}

VARIABLE reading    \* of each CV: the share of each component it evidences

KeywordsTypeOK == reading \in [Pooled -> [Components -> Shares]]

KeywordsInit == reading = [c \in Pooled |-> [k \in Components |-> Absent]]

(* Math.round(a / b) *)
Nearest(a, b) == (2 * a + b) \div (2 * b)

Applies(read) == {k \in Components : read[k] # Absent}

(* Faulty variant: a component that cannot be judged counts as failed. *)
PointsOfAll(read, k) == Nearest(1000 * Weights[k] * read[k], Parts * 100)

(* scoreCandidate: the weights that apply fill a hundred, points are kept to a tenth. *)
Points(read, k) ==
    Nearest(1000 * Weights[k] * read[k], Parts * MapThenSumSet(LAMBDA j : Weights[j], Applies(read)))

KeywordScore(read) ==
    LET points == [k \in Applies(read) |-> Points(read, k)]
    IN IF Applies(read) = {} THEN 0 ELSE Nearest(MapThenSumSet(LAMBDA k : points[k], Applies(read)), 10)

Raw == [c \in Pooled |-> KeywordScore(reading[c])]

(* normalizeAgainstPool *)
Shown(raws, c) ==
    LET top == Max({raws[d] : d \in DOMAIN raws})
        ceiling == IF top >= CredibleTopRaw THEN 100 ELSE Nearest(100 * top, CredibleTopRaw)
    IN IF top <= 0 THEN 0
       ELSE IF raws[c] >= top - TopBand THEN ceiling
       ELSE Nearest(raws[c] * ceiling, top)

(* Another job, another CV, another way to say it. *)
ReadAgain(c, k, share) == reading' = [reading EXCEPT ![c][k] = share]

KeywordsNext == \E c \in Pooled, k \in Components, share \in Shares : ReadAgain(c, k, share)

KeywordsSpec == KeywordsInit /\ [][KeywordsNext]_reading

-----------------------------------------------------------------------------
(* The score fills a hundred and no more, although each component is rounded by
   itself; to evidence more never lowers it, and neither does leaving out a component
   that nothing was found for: what cannot be judged is not failed. *)
KeywordsAreFair ==
    \A c \in Pooled :
        LET read == reading[c] IN
        /\ KeywordScore(read) \in 0..100
        /\ Applies(read) # {} /\ (\A k \in Applies(read) : read[k] = Parts) => KeywordScore(read) = 100
        /\ \A k \in Applies(read) :
            /\ read[k] < Parts => KeywordScore([read EXCEPT ![k] = @ + 1]) >= KeywordScore(read)
            /\ read[k] = 0 => KeywordScore([read EXCEPT ![k] = Absent]) >= KeywordScore(read)

(* In a pool the order stays, a weak field makes no perfect match, and whoever is
   behind may leave without moving those before. *)
PoolIsFair ==
    LET raws == Raw IN
    \A c, d \in Pooled :
        /\ Shown(raws, c) \in 0..100
        /\ raws[c] >= raws[d] => Shown(raws, c) >= Shown(raws, d)
        /\ Shown(raws, c) = 100 => \E e \in Pooled : raws[e] >= CredibleTopRaw
        /\ raws[d] < raws[c] => Shown([e \in Pooled \ {d} |-> raws[e]], c) = Shown(raws, c)

KeywordsAreSound == KeywordsTypeOK /\ KeywordsAreFair /\ PoolIsFair
=============================================================================
