------------------------------ MODULE SeatPlan ------------------------------
(***************************************************************************)
(* The seat subscription of one organization (wallet.js, the seat routes   *)
(* of index.js).  The administrator's own account is implicit: it is never *)
(* removed and always holds one of the included seats, so `team` lists     *)
(* the colleagues only, oldest account first.                              *)
(*                                                                         *)
(* A reduction is scheduled for the end of the paid month and applied the  *)
(* first time anybody reads the entitlement after that date; an increase   *)
(* is charged and takes effect at once.  Two handlers stop at an await:    *)
(* creating a colleague (the password hash, between the seat check and the *)
(* INSERT) and buying a larger plan (the payment, between the quote and    *)
(* the update).                                                            *)
(***************************************************************************)
EXTENDS Integers, FiniteSets, SequencesExt

CONSTANTS
    Colleagues,   \* accounts the administrator may create
    Included,     \* INCLUDED_SEATS
    SelfServeMax, \* SEAT_SELF_SERVE_MAX
    LegacySeats,  \* paid seats carried over from the previous monthly plan
    NoChange      \* seat_plan_pending IS NULL

ASSUME SeatAssumption ==
    /\ IsFiniteSet(Colleagues)
    /\ Included \in Nat \ {0}
    /\ SelfServeMax \in Nat
    /\ LegacySeats \in Nat
    /\ NoChange \notin Int

VARIABLES
    team,       \* recruiters rows of the company, the administrator left out
    joining,    \* accounts being created: past the seat check, hashing
    purchased,  \* companies.purchased_seats
    pending,    \* companies.seat_plan_pending
    pendingAt,  \* companies.seat_plan_pending_at: "none", "ahead" or "past"
    anchored,   \* companies.seat_plan_since IS NOT NULL
    paying,     \* larger plans whose payment has not come back yet
    seatLedger, \* the sum of the 'seat' deltas in billing_ledger
    paidSeats   \* history: the seats the organization's payments cover

seatVars == <<team, joining, purchased, pending, pendingAt, anchored,
              paying, seatLedger, paidSeats>>

Members == ToSet(team)

(* Colleagues an organization on `seats` additional seats has room for. *)
Room(seats) == Included + seats - 1

(* Faulty variant: the oldest accounts go. *)
KeepersNewestFirst(people, seats) ==
    IF Len(people) <= Room(seats) THEN people
    ELSE SubSeq(people, Len(people) - Room(seats) + 1, Len(people))

(* seatsAtRisk: what is left of `people` when the newest ones go. *)
Keepers(people, seats) ==
    IF Len(people) <= Room(seats) THEN people ELSE SubSeq(people, 1, Room(seats))

Smaller(a, b) == IF a < b THEN a ELSE b

SeatTypeOK ==
    /\ team \in Seq(Colleagues)
    /\ joining \subseteq Colleagues
    /\ purchased \in Nat
    /\ pending \in Nat \cup {NoChange}
    /\ pendingAt \in {"none", "ahead", "past"}
    /\ anchored \in BOOLEAN
    /\ paying \subseteq 0..SelfServeMax
    /\ seatLedger \in Int
    /\ paidSeats \in Nat

SeatInit ==
    /\ team = <<>>
    /\ joining = {}
    /\ purchased = 0
    /\ pending = NoChange
    /\ pendingAt = "none"
    /\ anchored = FALSE
    /\ paying = {}
    /\ seatLedger = 0
    /\ paidSeats = 0

-----------------------------------------------------------------------------
(***************************************************************************)
(* Reading the entitlement                                                 *)
(***************************************************************************)

Due == pending # NoChange /\ pendingAt = "past"

PurchasedNow == IF Due THEN pending ELSE purchased

(* applyDueSeatChange over the accounts `people`: the newest go with the   *)
(* seats, and the anchor moves to the date the reduction took effect.      *)
ApplyDue(people) ==
    IF Due
    THEN /\ team' = Keepers(people, pending)
         /\ purchased' = pending
         /\ pending' = NoChange
         /\ pendingAt' = "none"
         /\ anchored' = (pending > 0)
         /\ seatLedger' = seatLedger + (pending - purchased)
         /\ paidSeats' = Smaller(paidSeats, pending)
    ELSE /\ team' = people
         /\ UNCHANGED <<purchased, pending, pendingAt, anchored,
                        seatLedger, paidSeats>>

(* seatEntitlement, from any screen that shows the seats. *)
ReadEntitlement ==
    /\ Due
    /\ ApplyDue(team)
    /\ UNCHANGED <<joining, paying>>

(* The anniversary of the subscription arrives. *)
MonthEnds ==
    /\ pendingAt = "ahead"
    /\ pendingAt' = "past"
    /\ UNCHANGED <<team, joining, purchased, pending, anchored, paying,
                   seatLedger, paidSeats>>

-----------------------------------------------------------------------------
(***************************************************************************)
(* Colleagues                                                              *)
(***************************************************************************)

(* POST /api/recruiter up to the password hash: there must be a free seat. *)
RequestJoin(p) ==
    /\ p \notin Members \cup joining
    /\ ApplyDue(team)
    /\ Len(team') < Room(PurchasedNow)
    /\ joining' = joining \cup {p}
    /\ UNCHANGED paying

(* The same request refused: the entitlement was read all the same. *)
RefuseJoin ==
    /\ Due
    /\ ApplyDue(team)
    /\ Len(team') >= Room(PurchasedNow)
    /\ UNCHANGED <<joining, paying>>

(* The hash is back: the row is inserted and the answer reports the seats. *)
FinishJoin(p) ==
    /\ p \in joining
    /\ joining' = joining \ {p}
    /\ ApplyDue(Append(team, p))
    /\ UNCHANGED paying

(* DELETE /api/recruiter/:id *)
Leave(p) ==
    /\ \E i \in DOMAIN team : team[i] = p /\ ApplyDue(RemoveAt(team, i))
    /\ UNCHANGED <<joining, paying>>

-----------------------------------------------------------------------------
(***************************************************************************)
(* The plan                                                                *)
(***************************************************************************)

(* Faulty variant: a reduction takes effect at once. *)
SetSeatPlanAtOnce(seats, before, anchor, at, ledgerNow) ==
    /\ purchased' = seats
    /\ pending' = NoChange
    /\ pendingAt' = at
    /\ anchored' = TRUE
    /\ seatLedger' = ledgerNow + (seats - before)

(* Faulty variants: a reduction is written to the history when scheduled, ...*)
SetSeatPlanForeseen(seats, before, anchor, at, ledgerNow) ==
    /\ IF seats < before
       THEN /\ purchased' = before
            /\ pending' = seats
            /\ pendingAt' = (IF anchor THEN "ahead" ELSE "none")
            /\ anchored' = anchor
       ELSE /\ purchased' = seats
            /\ pending' = NoChange
            /\ pendingAt' = at
            /\ anchored' = TRUE
    /\ seatLedger' = ledgerNow + (seats - before)

(* ... or without its date.                                                *)
SetSeatPlanUndated(seats, before, anchor, at, ledgerNow) ==
    IF seats < before
    THEN /\ purchased' = before
         /\ pending' = seats
         /\ pendingAt' = at
         /\ anchored' = anchor
         /\ seatLedger' = ledgerNow
    ELSE /\ purchased' = seats
         /\ pending' = NoChange
         /\ pendingAt' = at
         /\ anchored' = TRUE
         /\ seatLedger' = ledgerNow + (seats - before)

(* setSeatPlan for `seats`, when the company row holds `before`, with      *)
(* `anchor` saying whether seat_plan_since is set and `at` holding         *)
(* seat_plan_pending_at.  A reduction is scheduled; anything else takes    *)
(* effect at once and forgets a scheduled reduction, but not its date.     *)
SetSeatPlan(seats, before, anchor, at, ledgerNow) ==
    IF seats < before
    THEN /\ purchased' = before
         /\ pending' = seats
         /\ pendingAt' = (IF anchor THEN "ahead" ELSE "none")
         /\ anchored' = anchor
         /\ seatLedger' = ledgerNow
    ELSE /\ purchased' = seats
         /\ pending' = NoChange
         /\ pendingAt' = at
         /\ anchored' = TRUE
         /\ seatLedger' = ledgerNow + (seats - before)

(* PUT /api/company/seat-plan answers 400: asked for what is there. *)
Refused(seats) ==
    \/ ~Due /\ pending = seats
    \/ seats = purchased /\ (Due \/ pending = NoChange)

(* PUT /api/company/seat-plan for no more than the quoted plan: nothing is *)
(* charged.  The quote is taken from the row as it was before the          *)
(* entitlement is read, and the update runs on the row as it is after.     *)
ChangePlanUncharged(seats) ==
    /\ seats <= purchased
    /\ ~Refused(seats)
    /\ SetSeatPlan(seats, PurchasedNow,
                   IF Due THEN pending > 0 ELSE anchored,
                   IF Due THEN "none" ELSE pendingAt,
                   IF Due THEN seatLedger + (pending - purchased) ELSE seatLedger)
    /\ team' = IF Due THEN Keepers(team, pending) ELSE team
    /\ paidSeats' = IF Due THEN Smaller(paidSeats, pending) ELSE paidSeats
    /\ UNCHANGED <<joining, paying>>

(* The same route for more than the quoted plan, up to the payment. *)
RequestIncrease(seats) ==
    /\ seats > purchased
    /\ seats \notin paying
    /\ ~Refused(seats)
    /\ ApplyDue(team)
    /\ paying' = paying \cup {seats}
    /\ UNCHANGED joining

(* The payment settled: the plan is set on the row as it is by now. *)
IncreasePaid(seats) ==
    /\ seats \in paying
    /\ paying' = paying \ {seats}
    /\ SetSeatPlan(seats, purchased, anchored, pendingAt, seatLedger)
    /\ paidSeats' = IF seats > paidSeats THEN seats ELSE paidSeats
    /\ UNCHANGED <<team, joining>>

(* The payment was declined or the provider failed: nothing changes. *)
IncreaseDeclined(seats) ==
    /\ seats \in paying
    /\ paying' = paying \ {seats}
    /\ UNCHANGED <<team, joining, purchased, pending, pendingAt, anchored,
                   seatLedger, paidSeats>>

(* A restart: requests in flight are lost, and the boot migration tops the *)
(* seats up to what the previous monthly plan had paid for.                *)
CarriedOver == 1 + LegacySeats - Included

Boot ==
    /\ joining' = {}
    /\ paying' = {}
    /\ IF purchased < CarriedOver
       THEN /\ purchased' = CarriedOver
            /\ seatLedger' = seatLedger + (CarriedOver - purchased)
            /\ paidSeats' = IF CarriedOver > paidSeats THEN CarriedOver ELSE paidSeats
       ELSE UNCHANGED <<purchased, seatLedger, paidSeats>>
    /\ UNCHANGED <<team, pending, pendingAt, anchored>>

-----------------------------------------------------------------------------
SeatNext ==
    \/ ReadEntitlement
    \/ MonthEnds
    \/ \E p \in Colleagues : RequestJoin(p)
    \/ RefuseJoin
    \/ \E p \in Colleagues : FinishJoin(p)
    \/ \E p \in Colleagues : Leave(p)
    \/ \E seats \in 0..SelfServeMax : ChangePlanUncharged(seats)
    \/ \E seats \in 0..SelfServeMax : RequestIncrease(seats)
    \/ \E seats \in 0..SelfServeMax : IncreasePaid(seats)
    \/ \E seats \in 0..SelfServeMax : IncreaseDeclined(seats)
    \/ Boot

SeatSpec == SeatInit /\ [][SeatNext]_seatVars

(* Time passes and somebody opens a page that shows the seats: the seat    *)
(* expiry sweep, the Team tab, the billing panel.                          *)
FairSeatSpec ==
    /\ SeatSpec
    /\ WF_seatVars(MonthEnds)
    /\ WF_seatVars(ReadEntitlement)

-----------------------------------------------------------------------------
(***************************************************************************)
(* Properties                                                              *)
(***************************************************************************)

(* The billing history always adds up to the seats the organization holds: *)
(* a reduction writes nothing when it is scheduled and everything when it  *)
(* is applied, whichever of the eight readers happens to apply it.         *)
SeatLedgerAgrees == seatLedger = purchased

(* A paid month is never cut short: seats only go down once the scheduled  *)
(* date has passed, and never below what was scheduled.                    *)
PaidMonthIsKept ==
    [][purchased' < purchased => Due /\ purchased' >= pending]_seatVars

(* When a reduction takes accounts with it, the team that is left fits,    *)
(* and nobody goes while somebody who joined later stays, apart from the   *)
(* one colleague a simultaneous delete may have named.                     *)
NewestGoFirst ==
    [][purchased' < purchased =>
         /\ Len(team') <= Room(purchased')
         /\ Cardinality({i \in DOMAIN team :
                /\ team[i] \notin ToSet(team')
                /\ \E j \in (i+1)..Len(team) : team[j] \in ToSet(team')}) <= 1]_seatVars

(* A reduction of a plan that was bought is applied or withdrawn; it is     *)
(* never held back by the admin asking again or by restarts (wallet.js:    *)
(* "the seat would be held for ever").  Seats carried over from the old    *)
(* plan have no month that could end.                                      *)
ReductionComesDue == anchored /\ pending # NoChange ~> pending = NoChange

(* "An increase is paid for now and starts now": the seats held never      *)
(* exceed those some payment, or the old monthly plan, covers.             *)
SeatsArePaidFor == purchased <= paidSeats

(* What SeatPlanProofs proves inductive: the types, and a history that      *)
(* replays to the seats held whichever reader applied a reduction.         *)
SeatsAreSound == SeatTypeOK /\ SeatLedgerAgrees
=============================================================================
