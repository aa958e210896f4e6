---------------------------- MODULE TriageWallet ----------------------------
(* The prepaid CV capacity of one organization: the pool, what each seat may
   draw from it, and what every session and every delivery of CVs was charged
   and given back (wallet.js, the deliveries of triage.js, the launch and
   add-CVs routes of index.js).

   The database outlived two ways of charging.  A session launched before
   deliveries existed carries its charge on its own row and its CVs in no
   delivery; one launched just after has a delivery that does not know it was
   paid for.  The code moves either charge onto a delivery, without money.

   Every handler is synchronous but one: adding CVs to a running session writes
   the delivery, awaits, and charges it afterwards.  TriageQueue has what the
   queue does with a delivery; here the queue only hands capacity back. *)
EXTENDS Integers, FiniteSets, FiniteSetsExt, Functions

CONSTANTS
    Administrator, \* the administrator's seat
    Staff,      \* the other seats; an id is never used again
    Triages,    \* the sessions
    Welcome,    \* COMPLIMENTARY_TRIAGE_CVS
    Pack,       \* the CVs in a pack
    MaxPacks,   \* bound: packs bought in a behaviour
    MaxPile,    \* bound: CVs in a delivery
    MaxDrops,   \* bound: deliveries of a session
    MaxShare,   \* bound: the largest allowance an administrator types in
    Null        \* no ceiling, no actor

ASSUME WalletAssumption ==
    /\ IsFiniteSet(Staff) /\ Administrator \notin Staff
    /\ IsFiniteSet(Triages)
    /\ {Welcome, Pack, MaxPile, MaxDrops} \subseteq Nat \ {0}
    /\ {MaxPacks, MaxShare} \subseteq Nat
    /\ Null \notin Int /\ Null \notin Staff \union {Administrator}

Seats == Staff \union {Administrator}

VARIABLES
    team,      \* recruiters
    former,    \* the ids of accounts that were deleted
    pool,      \* companies.triage_cv_balance
    even,      \* history: the shares were last levelled, and nothing has moved them since
    split,     \* companies.triage_split_equally
    allowance, \* recruiters.triage_allowance
    used,      \* recruiters.triage_used
    row,       \* triages
    loose,     \* CVs of a session that are in no delivery
    drops,     \* triage_drops of each session
    adding,    \* deliveries between their rows and their charge
    up,        \* the server has gone through its boot
    credits,   \* billing_ledger: grants and purchases
    ledger,    \* billing_ledger: what each session consumed, less what it was given back
    drawn,     \* history: what each seat drew, less what came back of it
    inherited  \* history: seats whose usage was lowered for somebody else's draw

seatVars == <<team, former, split, allowance, used, even>>
chargeVars == <<row, loose, drops>>
walletVars == <<seatVars, pool, chargeVars, adding, up, credits, ledger, drawn, inherited>>

(* What a session that was there before the first boot can be. *)
Generations == {"older draft", "draft", "on the row", "beside its delivery"}

Delivery == [cvs : 0..MaxPile, paid : BOOLEAN, charged : Nat, refunded : Nat,
             payer : Seats \union {Null}, by : Seats \union {Null}]

WalletTypeOK ==
    /\ team \subseteq Seats /\ former \subseteq Seats /\ team \cap former = {}
    /\ pool \in Nat /\ split \in BOOLEAN /\ even \in BOOLEAN
    /\ allowance \in [Seats -> Nat \union {Null}] /\ used \in [Seats -> Nat]
    /\ row \in [Triages -> [there : BOOLEAN, paid : BOOLEAN, failed : BOOLEAN, charged : Nat,
                             refunded : Nat, payer : Seats \union {Null}, by : Seats]]
    /\ loose \in [Triages -> 0..MaxPile]
    /\ \A t \in Triages : DOMAIN drops[t] \subseteq 1..MaxDrops /\ Range(drops[t]) \subseteq Delivery
    /\ credits \in Nat
    /\ ledger \in [Triages -> Nat] /\ up \in BOOLEAN
    /\ drawn \in [Seats -> Int] /\ inherited \subseteq Seats

(* A pile of `n` CVs that seat `s` added. *)
Unpaid(n, s) ==
    [cvs |-> n, paid |-> FALSE, charged |-> 0, refunded |-> 0, payer |-> Null, by |-> s]

OlderRow(launched, n) ==
    [there |-> TRUE, paid |-> launched, failed |-> FALSE, charged |-> IF launched THEN n ELSE 0,
     refunded |-> 0, payer |-> IF launched THEN Administrator ELSE Null, by |-> Administrator]

(* An organization of any age: sessions of `n` CVs each, of every generation. *)
WalletInit ==
    \E generation \in [Triages -> Generations], n \in 1..MaxPile :
        LET launched == {t \in Triages : generation[t] \in {"on the row", "beside its delivery"}}
            delivered == {t \in Triages : generation[t] \in {"draft", "beside its delivery"}}
        IN
        /\ team = {Administrator} /\ former = {}
        /\ split \in BOOLEAN /\ even = split
        /\ credits = Welcome + n * Cardinality(launched)
        /\ pool = Welcome
        /\ used = [s \in Seats |-> IF s = Administrator THEN n * Cardinality(launched) ELSE 0]
        /\ allowance = [s \in Seats |-> IF s = Administrator /\ split THEN credits ELSE Null]
        /\ row = [t \in Triages |-> OlderRow(t \in launched, n)]
        /\ loose = [t \in Triages |-> IF t \in delivered THEN 0 ELSE n]
        /\ drops = [t \in Triages |->
                      [d \in (IF t \in delivered THEN {1} ELSE {}) |-> Unpaid(n, Administrator)]]
        /\ adding = {} /\ up = FALSE
        /\ ledger = [t \in Triages |-> IF t \in launched THEN n ELSE 0]
        /\ drawn = used
        /\ inherited = {}

-----------------------------------------------------------------------------
(* Shares of the pool *)

(* equalShares: whole credits, the remainder to the administrator. *)
EqualShare(people, amount, s) ==
    amount \div Cardinality(people)
    + IF s = Administrator THEN amount % Cardinality(people) ELSE 0

(* applyEqualSplit: what is left to draw becomes an equal share. *)
Levelled(people, amount) ==
    [s \in Seats |-> IF s \in people THEN used[s] + EqualShare(people, amount, s) ELSE Null]

(* resettleSeats, once the seats have become `people`. *)
Resettle(people) ==
    /\ allowance' = IF split THEN Levelled(people, pool)
                    ELSE [s \in Seats |-> IF s \in people THEN allowance[s] ELSE Null]
    /\ even' = (split \/ even)

(* distributeNewCapacity: a credit adds to each allowance. *)
Raised(amount) ==
    [s \in Seats |->
        IF s \in team /\ split
        THEN (IF allowance[s] = Null THEN 0 ELSE allowance[s]) + EqualShare(team, amount, s)
        ELSE allowance[s]]

(* POST /api/company/triage/purchase, once the payment has settled: creditTriages. *)
Purchase ==
    /\ credits + Pack <= Welcome + MaxPile * Cardinality(Triages) + MaxPacks * Pack
    /\ credits' = credits + Pack
    /\ pool' = pool + Pack
    /\ allowance' = Raised(Pack)
    /\ UNCHANGED <<team, former, split, even, used, chargeVars, adding, up, ledger, drawn, inherited>>

(* PUT /api/company/triage-allocations: usage is not reset, and no sum is asked for. *)
SetTriageAllocations(s, ceiling) ==
    /\ s \in team
    /\ allowance' = [allowance EXCEPT ![s] = ceiling]
    /\ even' = FALSE
    /\ UNCHANGED <<team, former, split, used, pool, chargeVars, adding, up, credits, ledger, drawn, inherited>>

(* PUT /api/company/split-equally for triage. *)
SetSplitEqually(on) ==
    /\ split' = on
    /\ allowance' = IF on THEN Levelled(team, pool) ELSE allowance
    /\ even' = (on \/ even)
    /\ UNCHANGED <<team, former, used, pool, chargeVars, adding, up, credits, ledger, drawn, inherited>>

(* POST /api/recruiter, the row and what follows it. *)
Join(s) ==
    /\ s \in Staff \ (team \union former)
    /\ team' = team \union {s}
    /\ Resettle(team \union {s})
    /\ UNCHANGED <<former, split, used, pool, chargeVars, adding, up, credits, ledger, drawn, inherited>>

(* deleteRecruiterCompletely: the entries of the history lose their actor, the
   deliveries keep whom they name. *)
Deleted(s) ==
    /\ s \in team \ {Administrator}
    /\ team' = team \ {s}
    /\ former' = former \union {s}
    /\ used' = [used EXCEPT ![s] = 0]
    /\ drawn' = [drawn EXCEPT ![s] = 0]
    /\ inherited' = inherited \ {s}
    /\ row' = [t \in Triages |-> IF row[t].payer = s THEN [row[t] EXCEPT !.payer = Null] ELSE row[t]]
    /\ drops' = [t \in Triages |-> [d \in DOMAIN drops[t] |->
                   IF drops[t][d].payer = s THEN [drops[t][d] EXCEPT !.payer = Null] ELSE drops[t][d]]]

(* DELETE /api/recruiter/:id *)
Leave(s) ==
    /\ Deleted(s)
    /\ Resettle(team \ {s})
    /\ UNCHANGED <<split, pool, loose, adding, up, credits, ledger>>

(* applyDueSeatChange, which takes the account with the seat and levels nothing. *)
Renewal(s) ==
    /\ Deleted(s)
    /\ allowance' = [allowance EXCEPT ![s] = Null]
    /\ even' = FALSE
    /\ UNCHANGED <<split, pool, loose, adding, up, credits, ledger>>

-----------------------------------------------------------------------------
(* Charges *)

Paid(piles) == {d \in DOMAIN piles : piles[d].paid}

NextDrop(piles) == Max(DOMAIN piles \union {0}) + 1

(* Faulty variant: the charge stays behind. *)
AdoptedUnpaid(t, pile, piles) == pile

(* adoptSessionCharge: the charge on the session becomes that of the delivery that
   takes its pile, unless some delivery is paid for. *)
Adopted(t, pile, piles) ==
    IF row[t].paid /\ row[t].charged > 0 /\ Paid(piles) = {}
    THEN [pile EXCEPT !.paid = TRUE, !.charged = row[t].charged,
                      !.refunded = row[t].refunded, !.payer = row[t].payer]
    ELSE pile

(* ensureLaunchDrop: CVs in no delivery get one of their own. *)
Ensured(t) ==
    IF loose[t] = 0 THEN drops[t]
    ELSE LET first == [Unpaid(loose[t], Administrator) EXCEPT !.by = Null]
         IN  [d \in DOMAIN drops[t] \union {NextDrop(drops[t])} |->
                IF d \in DOMAIN drops[t] THEN drops[t][d] ELSE Adopted(t, first, drops[t])]

(* What the pool and the seat's allowance let it draw. *)
Affords(s, n) ==
    /\ s \in team
    /\ n <= pool
    /\ ~(allowance[s] # Null /\ used[s] + n > allowance[s])

(* consumeTriageDrop for the deliveries `unpaid` among `piles`, in one transaction. *)
ChargeDrops(t, piles, unpaid, s) ==
    LET n == MapThenSumSet(LAMBDA d : piles[d].cvs, unpaid) IN
    /\ Affords(s, n)
    /\ pool' = pool - n
    /\ used' = [used EXCEPT ![s] = @ + n]
    /\ drawn' = [drawn EXCEPT ![s] = @ + n]
    /\ ledger' = [ledger EXCEPT ![t] = @ + n]
    /\ row' = [row EXCEPT ![t].charged = @ + n, ![t].paid = TRUE,
                           ![t].payer = IF row[t].paid THEN @ ELSE s]
    /\ drops' = [drops EXCEPT ![t] = [d \in DOMAIN piles |->
                    IF d \in unpaid
                    THEN [piles[d] EXCEPT !.paid = TRUE, !.charged = piles[d].cvs, !.payer = s]
                    ELSE piles[d]]]

(* POST /api/hr/triage/:id/launch, which charges every delivery or none; a launch
   whose work cannot be started gives everything back and is a draft again. *)
Launch(t, s, started) ==
    LET piles == Ensured(t)
        unpaid == {d \in DOMAIN piles \ Paid(piles) : piles[d].cvs > 0}
    IN
    /\ up /\ row[t].there /\ ~row[t].paid
    /\ unpaid # {}
    /\ Affords(s, MapThenSumSet(LAMBDA d : piles[d].cvs, unpaid))
    /\ loose' = [loose EXCEPT ![t] = 0]
    /\ IF started THEN ChargeDrops(t, piles, unpaid, s)
       ELSE /\ drops' = [drops EXCEPT ![t] = piles]
            /\ UNCHANGED <<pool, used, drawn, ledger, row>>
    /\ UNCHANGED <<team, former, split, even, allowance, adding, up, credits, inherited>>

(* POST /api/hr/triage/:id/cvs up to the await: the rows of a delivery of which
   `n` are left when duplicates are out. *)
RequestAdd(t, s, asked, n) ==
    LET piles == Ensured(t)
        d == NextDrop(piles)
    IN
    /\ up /\ row[t].there /\ row[t].paid /\ ~row[t].failed
    /\ Affords(s, asked)
    /\ d <= MaxDrops
    /\ loose' = [loose EXCEPT ![t] = 0]
    /\ drops' = [drops EXCEPT ![t] = [e \in DOMAIN piles \union {d} |->
                    IF e = d THEN Unpaid(n, s) ELSE piles[e]]]
    /\ adding' = adding \union {[session |-> t, drop |-> d, seat |-> s]}
    /\ UNCHANGED <<seatVars, pool, row, up, credits, ledger, drawn, inherited>>

(* ... and the charge after it, or dropDelivery. *)
FinishAdd(a) ==
    LET piles == drops[a.session]
        chargeable == a.drop \in DOMAIN piles /\ piles[a.drop].cvs > 0 /\ Affords(a.seat, piles[a.drop].cvs)
    IN
    /\ adding' = adding \ {a}
    /\ IF chargeable THEN ChargeDrops(a.session, piles, {a.drop}, a.seat)
       ELSE /\ drops' = [drops EXCEPT ![a.session] = [d \in DOMAIN piles \ {a.drop} |-> piles[d]]]
            /\ UNCHANGED <<pool, used, drawn, ledger, row>>
    /\ UNCHANGED <<team, former, split, even, allowance, loose, up, credits, inherited>>

-----------------------------------------------------------------------------
(* Refunds *)

(* What is still owed when `total` of a charge should have gone back. *)
Owed(charge, total) == Max({0, Min({total, charge.charged}) - charge.refunded})

(* The seat that is credited with a refund: the actor of the entry that charged,
   or, once that account is gone, whoever the delivery or the session names. *)
Payee(t, charge, by) ==
    IF charge.payer # Null THEN charge.payer ELSE IF by # Null THEN by ELSE row[t].by

(* Capacity goes back to the pool and off the usage of the seats, `own` being the
   part of it that those seats had drawn. *)
Returned(t, toSeat, own, total) ==
    /\ pool' = pool + total
    /\ ledger' = [ledger EXCEPT ![t] = @ - total]
    /\ used' = [s \in Seats |-> Max({0, used[s] - toSeat[s]})]
    /\ drawn' = [s \in Seats |-> drawn[s] - own[s]]
    /\ inherited' = inherited \union {s \in team : toSeat[s] > own[s]}
    /\ even' = (even /\ MapThenSumSet(LAMBDA s : used[s] - used'[s], team) = total)

(* refundTriageDrop for the deliveries in `totals`, each with its own total. *)
RefundDrops(t, totals) ==
    LET owed == [d \in DOMAIN totals |-> Owed(drops[t][d], totals[d])]
        Sum(some) == MapThenSumSet(LAMBDA d : owed[d], some)
        paidBy(s) == {d \in DOMAIN totals : drops[t][d].payer = s}
        landOn(s) == {d \in DOMAIN totals : Payee(t, drops[t][d], drops[t][d].by) = s}
        total == Sum(DOMAIN totals)
    IN
    /\ Returned(t, [s \in Seats |-> Sum(landOn(s))], [s \in Seats |-> Sum(paidBy(s))], total)
    /\ drops' = [drops EXCEPT ![t] = [d \in DOMAIN drops[t] |->
                   IF d \in DOMAIN totals THEN [drops[t][d] EXCEPT !.refunded = @ + owed[d]]
                   ELSE drops[t][d]]]
    /\ row' = [row EXCEPT ![t].refunded = @ + total]

(* refundUnattributedTriage: of a charge that is on no delivery. *)
RefundRow(t, total) ==
    LET owed == Owed(row[t], total)
        Only(s) == [r \in Seats |-> IF r = s THEN owed ELSE 0]
    IN
    /\ Returned(t, Only(Payee(t, row[t], Null)), Only(row[t].payer), owed)
    /\ row' = [row EXCEPT ![t].refunded = @ + owed]
    /\ UNCHANGED drops

(* runParse has counted the CVs of a delivery that cannot be read, again after every
   retry; a delivery that fails for good counts them all. *)
SweepDrop(t, d, unreadable) ==
    /\ up /\ d \in Paid(drops[t]) /\ unreadable \in 1..drops[t][d].cvs
    /\ RefundDrops(t, [e \in {d} |-> unreadable])
    /\ UNCHANGED <<team, former, split, allowance, loose, adding, up, credits>>

(* The same of the CVs that are in no delivery. *)
SweepLoose(t, unreadable) ==
    /\ up /\ row[t].paid /\ unreadable \in 1..loose[t]
    /\ RefundRow(t, unreadable)
    /\ UNCHANGED <<team, former, split, allowance, loose, adding, up, credits>>

(* The session fails while it is being read: refundTriageSession. *)
SessionFails(t) ==
    LET paid == Paid(drops[t]) IN
    /\ up /\ row[t].paid /\ ~row[t].failed
    /\ IF paid = {} THEN RefundRow(t, row[t].charged)
       ELSE RefundDrops(t, [d \in paid |-> drops[t][d].charged])
    /\ UNCHANGED <<team, former, split, allowance, loose, adding, up, credits>>

(* DELETE /api/hr/triage/:id: deleteTriage.  The history stays. *)
DeleteTriage(t) ==
    /\ up /\ row[t].there
    /\ row' = [row EXCEPT ![t] = [OlderRow(FALSE, 0) EXCEPT !.there = FALSE]]
    /\ drops' = [drops EXCEPT ![t] = [d \in {} |-> Unpaid(0, Administrator)]]
    /\ loose' = [loose EXCEPT ![t] = 0]
    /\ UNCHANGED <<seatVars, pool, adding, up, credits, ledger, drawn, inherited>>

-----------------------------------------------------------------------------
(* Boots *)

Crash ==
    /\ up
    /\ up' = FALSE /\ adding' = {}
    /\ UNCHANGED <<seatVars, pool, chargeVars, credits, ledger, drawn, inherited>>

(* attributeTriageCharges: a charge that no delivery knows of becomes that of the
   session's first. *)
Attributed(t) ==
    LET piles == drops[t] IN
    IF row[t].paid /\ row[t].charged > 0 /\ Paid(piles) = {}
    THEN [d \in DOMAIN piles |->
            IF d = Min(DOMAIN piles)
            THEN [piles[d] EXCEPT !.paid = TRUE, !.charged = row[t].charged,
                                  !.refunded = row[t].refunded, !.payer = row[t].payer]
            ELSE piles[d]]
    ELSE piles

Boot ==
    /\ ~up
    /\ up' = TRUE
    /\ drops' = [t \in Triages |-> Attributed(t)]
    /\ UNCHANGED <<seatVars, pool, row, loose, adding, credits, ledger, drawn, inherited>>

WalletNext ==
    \/ Purchase
    \/ \E s \in Seats, ceiling \in 0..MaxShare \union {Null} : SetTriageAllocations(s, ceiling)
    \/ \E on \in BOOLEAN : SetSplitEqually(on)
    \/ \E s \in Staff : Join(s) \/ Leave(s) \/ Renewal(s)
    \/ \E t \in Triages, s \in Seats, started \in BOOLEAN : Launch(t, s, started)
    \/ \E t \in Triages, s \in Seats, asked \in 1..MaxPile : \E n \in 0..asked : RequestAdd(t, s, asked, n)
    \/ \E a \in adding : FinishAdd(a)
    \/ \E t \in Triages, d \in 1..MaxDrops, n \in 1..MaxPile : SweepDrop(t, d, n)
    \/ \E t \in Triages, n \in 1..MaxPile : SweepLoose(t, n)
    \/ \E t \in Triages : SessionFails(t) \/ DeleteTriage(t)
    \/ Crash
    \/ Boot

WalletSpec == WalletInit /\ [][WalletNext]_walletVars

-----------------------------------------------------------------------------
(* Properties *)

There == {t \in Triages : row[t].there}

(* The pool is what the history adds up to, through refunds that are swept twice,
   launches that are undone, and sessions that are deleted. *)
PoolIsTheHistory == pool = credits - MapThenSumSet(LAMBDA t : ledger[t], Triages)

(* "The session's own counters stay the sum of its deliveries" (wallet.js:1127), from the
   first boot on, whichever generation the session is of; and both are what the
   history says of the session. *)
SessionsAddUp ==
    \A t \in There :
        /\ row[t].charged - row[t].refunded = ledger[t]
        /\ up /\ row[t].paid /\ loose[t] = 0 =>
             /\ row[t].charged = MapThenSumSet(LAMBDA d : drops[t][d].charged, DOMAIN drops[t])
             /\ row[t].refunded = MapThenSumSet(LAMBDA d : drops[t][d].refunded, DOMAIN drops[t])

(* A pile is charged once and for its size: no delivery that is paid for is charged
   for anything but its CVs, and all that is charged is on such deliveries. *)
ChargedOnce ==
    \A t \in There : \A d \in DOMAIN drops[t] :
        LET pile == drops[t][d] IN
        /\ pile.paid => pile.charged = pile.cvs /\ pile.refunded <= pile.charged
        /\ ~pile.paid => pile.charged = 0 /\ pile.refunded = 0

(* What a seat has used is what it drew, less what came back of that: the refund finds
   "the seat that actually paid" (wallet.js:1313), unless that account is gone. *)
UsageIsTheDraw == \A s \in team \ inherited : used[s] = drawn[s]

(* While the capacity divides itself and nobody has typed an allowance since, what the
   seats may draw is the pool - a refund goes back to who may draw it - unless the
   seat that had drawn it is gone. *)
SharesAreThePool ==
    split /\ even => MapThenSumSet(LAMBDA s : allowance[s] - used[s], team) = pool

TriageWalletIsSound ==
    WalletTypeOK /\ PoolIsTheHistory /\ SessionsAddUp /\ ChargedOnce /\ UsageIsTheDraw /\ SharesAreThePool
=============================================================================
