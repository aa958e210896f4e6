---------------------------- MODULE RevealWallet ----------------------------
(***************************************************************************)
(* The prepaid reveals of one organization: the balance, what each seat    *)
(* may draw from it, and the one charge a candidate ever costs (wallet.js, *)
(* the reveal and allocation routes of index.js).                          *)
(*                                                                         *)
(* Every database step is synchronous.  What interleaves are the handlers  *)
(* that stop at an await: a registration hashing the administrator's       *)
(* password between the welcome grant and the first seat, and a reveal     *)
(* that found the wallet empty and is waiting for an automatic top-up.     *)
(* The payment processor behind billing.js is external: a payment settles  *)
(* or fails some time later.                                               *)
(***************************************************************************)
EXTENDS Integers, FiniteSets, FiniteSetsExt

CONSTANTS
    Admin,      \* the administrator's seat
    Colleagues, \* the other seats the organization may come to have
    Candidates, \* candidate accounts; ids are never reused
    Requests,   \* reveal requests that can be in flight together
    Welcome,    \* COMPLIMENTARY_REVEALS
    Pack,       \* the reveals in a pack
    MaxPacks,   \* bound: packs bought in a behaviour
    MaxShare,   \* bound: the largest allowance an admin types in
    Null        \* no allowance: the seat draws from the shared pool

ASSUME RevealAssumption ==
    /\ IsFiniteSet(Colleagues)
    /\ Admin \notin Colleagues
    /\ Welcome \in Nat \ {0}
    /\ Pack \in Nat \ {0}
    /\ MaxPacks \in Nat
    /\ MaxShare \in Nat
    /\ Null \notin Int

Seats == Colleagues \cup {Admin}

VARIABLES
    registration, \* "none", "hashing", "done" or "lost"
    team,         \* seats with a recruiters row
    balance,      \* companies.reveal_balance
    welcomed,     \* companies.complimentary_granted_at IS NOT NULL
    split,        \* companies.reveal_split_equally
    autoPack,     \* companies.auto_replenish_pack IS NOT NULL
    allocation,   \* recruiters.reveal_allocation
    used,         \* recruiters.allocation_used
    live,         \* candidates who have not deleted their account
    revealed,     \* organization_reveals
    recorded,     \* reveals: what opens a candidate for the recruiters
    ledger,       \* billing_ledger: the sum of the deltas of each event
    request,      \* what each reveal request in flight holds
    charges       \* history: how often each candidate was charged for

vars == <<registration, team, balance, welcomed, split, autoPack, allocation,
          used, live, revealed, recorded, ledger, request, charges>>

company == <<registration, team, split, autoPack>>
shares == <<allocation, used>>

Events == {"grant", "purchase", "auto_purchase", "consume"}

Idle == [pc |-> "idle"]

InFlight == [pc : {"paying", "credited"}, seat : Seats, candidate : Candidates,
             allocation : Nat \cup {Null}]

TypeOK ==
    /\ registration \in {"none", "hashing", "done", "lost"}
    /\ team \subseteq Seats
    /\ balance \in Nat
    /\ welcomed \in BOOLEAN
    /\ split \in BOOLEAN
    /\ autoPack \in BOOLEAN
    /\ allocation \in [Seats -> Nat \cup {Null}]
    /\ used \in [Seats -> Nat]
    /\ live \subseteq Candidates
    /\ revealed \subseteq Candidates
    /\ recorded \subseteq Candidates
    /\ ledger \in [Events -> Int]
    /\ request \in [Requests -> InFlight \cup {Idle}]
    /\ charges \in [Candidates -> Nat]

Init ==
    /\ registration = "none"
    /\ team = {}
    /\ balance = 0
    /\ welcomed = FALSE
    /\ split = TRUE
    /\ autoPack = FALSE
    /\ allocation = [s \in Seats |-> Null]
    /\ used = [s \in Seats |-> 0]
    /\ live = Candidates
    /\ revealed = {}
    /\ recorded = {}
    /\ ledger = [e \in Events |-> 0]
    /\ request = [r \in Requests |-> Idle]
    /\ charges = [c \in Candidates |-> 0]

-----------------------------------------------------------------------------
(***************************************************************************)
(* Sharing the balance out                                                 *)
(***************************************************************************)

(* Faulty variant: the remainder is nobody's. *)
EqualShareFloored(people, amount, s) == amount \div Cardinality(people)

(* equalShares: whole credits, the remainder to the administrator. *)
EqualShare(people, amount, s) ==
    amount \div Cardinality(people)
      + (IF s = Admin THEN amount % Cardinality(people) ELSE 0)

(* applyEqualSplit: what is left to draw becomes an equal share. *)
Levelled(people, amount) ==
    [s \in Seats |-> IF s \in people THEN used[s] + EqualShare(people, amount, s)
                                     ELSE Null]

(* Faulty variant: a credit levels the allowances. *)
RaisedLevelled(quantity) ==
    IF split /\ quantity > 0 /\ team # {} THEN Levelled(team, balance + quantity)
    ELSE allocation

(* distributeNewCapacity: a credit adds to each allowance. *)
Raised(quantity) ==
    IF split /\ quantity > 0
    THEN [s \in Seats |->
            IF s \in team
            THEN (IF allocation[s] = Null THEN 0 ELSE allocation[s])
                   + EqualShare(team, quantity, s)
            ELSE allocation[s]]
    ELSE allocation

(* resettleSeats, once the seats have become `people`; whoever is not among *)
(* them has no row any more.                                               *)
Resettle(people) ==
    /\ used' = [s \in Seats |-> IF s \in people THEN used[s] ELSE 0]
    /\ allocation' = IF split THEN Levelled(people, balance)
                     ELSE [s \in Seats |-> IF s \in people THEN allocation[s] ELSE Null]

(* Faulty variant: the credit is not written to the history. *)
CreditUnrecorded(event, quantity) ==
    /\ balance' = balance + quantity
    /\ ledger' = ledger
    /\ allocation' = Raised(quantity)

(* creditReveals: balance, ledger and allowances in one transaction. *)
Credit(event, quantity) ==
    /\ balance' = balance + quantity
    /\ ledger' = [ledger EXCEPT ![event] = @ + quantity]
    /\ allocation' = Raised(quantity)

(* grantComplimentaryReveals *)
GrantComplimentaryReveals ==
    IF welcomed
    THEN UNCHANGED <<balance, ledger, allocation, welcomed>>
    ELSE /\ Credit("grant", Welcome)
         /\ welcomed' = TRUE

-----------------------------------------------------------------------------
(***************************************************************************)
(* Seats come and go                                                       *)
(***************************************************************************)

(* POST /api/company/register up to the administrator's password hash: the *)
(* welcome grant is shared out between nobody.                             *)
RegisterCompany ==
    /\ registration = "none"
    /\ registration' = "hashing"
    /\ GrantComplimentaryReveals
    /\ UNCHANGED <<team, split, autoPack, used, live, revealed, recorded,
                   request, charges>>

(* ... and from the hash to the end. *)
RegisterAdmin ==
    /\ registration = "hashing"
    /\ registration' = "done"
    /\ team' = {Admin}
    /\ Resettle({Admin})
    /\ UNCHANGED <<balance, welcomed, split, autoPack, live, revealed,
                   recorded, ledger, request, charges>>

(* POST /api/recruiter once the row is inserted (SeatPlan has the check).  *)
(* The account is new: no request in flight can have been made by it.      *)
Join(s) ==
    /\ Admin \in team
    /\ s \in Colleagues \ team
    /\ \A r \in Requests : request[r] # Idle => request[r].seat # s
    /\ team' = team \cup {s}
    /\ Resettle(team \cup {s})
    /\ UNCHANGED <<registration, balance, welcomed, split, autoPack, live,
                   revealed, recorded, ledger, request, charges>>

(* DELETE /api/recruiter/:id *)
Leave(s) ==
    /\ s \in Colleagues \cap team
    /\ team' = team \ {s}
    /\ Resettle(team \ {s})
    /\ UNCHANGED <<registration, balance, welcomed, split, autoPack, live,
                   revealed, recorded, ledger, request, charges>>

(* applyDueSeatChange takes accounts with the seats: the rows are deleted   *)
(* and nothing else is done about the shares.                              *)
Renewal(gone) ==
    /\ gone # {}
    /\ gone \subseteq Colleagues \cap team
    /\ team' = team \ gone
    /\ used' = [s \in Seats |-> IF s \in gone THEN 0 ELSE used[s]]
    /\ allocation' = [s \in Seats |-> IF s \in gone THEN Null ELSE allocation[s]]
    /\ UNCHANGED <<registration, balance, welcomed, split, autoPack, live,
                   revealed, recorded, ledger, request, charges>>

-----------------------------------------------------------------------------
(***************************************************************************)
(* The administrator's controls                                            *)
(***************************************************************************)

Bought == ledger["purchase"] + ledger["auto_purchase"]

(* POST /api/company/reveals/purchase, once the payment has settled. *)
Purchase ==
    /\ Admin \in team
    /\ Bought < MaxPacks * Pack
    /\ Credit("purchase", Pack)
    /\ UNCHANGED <<company, used, welcomed, live, revealed, recorded,
                   request, charges>>

(* PATCH /api/company/auto-replenish *)
SetAutoReplenish(on) ==
    /\ Admin \in team
    /\ autoPack # on
    /\ autoPack' = on
    /\ UNCHANGED <<registration, team, split, shares, balance, welcomed, live,
                   revealed, recorded, ledger, request, charges>>

(* PUT /api/company/split-equally *)
SetSplitEqually(on) ==
    /\ Admin \in team
    /\ split' = on
    /\ allocation' = IF on THEN Levelled(team, balance) ELSE allocation
    /\ UNCHANGED <<registration, team, autoPack, used, balance, welcomed, live,
                   revealed, recorded, ledger, request, charges>>

(* What the allowances in the map `given` add up to, blanks left out. *)
Total(given) ==
    MapThenSumSet(LAMBDA s : IF given[s] = Null THEN 0 ELSE given[s], DOMAIN given)

(* PUT /api/company/reveal-allocations with an allowance, or a blank, for   *)
(* some of the seats; a seat left out of the map is unchanged.             *)
SetRevealAllocations(given) ==
    /\ Admin \in team
    /\ DOMAIN given \subseteq team
    /\ Total(given) <= balance
    /\ allocation' = [s \in Seats |-> IF s \in DOMAIN given THEN given[s] ELSE allocation[s]]
    /\ used' = [s \in Seats |-> IF s \in DOMAIN given THEN 0 ELSE used[s]]
    /\ UNCHANGED <<company, balance, welcomed, live, revealed, recorded, ledger,
                   request, charges>>

AllocationMaps == UNION {[people -> (0..MaxShare) \cup {Null}] : people \in SUBSET team}

-----------------------------------------------------------------------------
(***************************************************************************)
(* Revealing a candidate                                                   *)
(***************************************************************************)

(* What consumeReveal answers when the handler read `limit` as the seat's  *)
(* allowance: the seat's own row is read again for what is left of it, and *)
(* a seat whose row says otherwise by now is rolled back.                  *)
SpentUp(s) == s \in team /\ allocation[s] # Null /\ used[s] >= allocation[s]

(* Faulty variants: the candidate is not looked up, ...                     *)
AnswerEveryTime(limit, s, c) ==
    IF balance = 0 THEN "no_balance"
    ELSE IF limit # Null /\ (SpentUp(s) \/ s \notin team \/ allocation[s] = Null)
    THEN "allocation_spent" ELSE "charged"

(* ... the seat's row is not read again.                                    *)
AnswerUncapped(limit, s, c) ==
    IF c \in revealed THEN "already_revealed"
    ELSE IF balance = 0 THEN "no_balance" ELSE "charged"

Answer(limit, s, c) ==
    CASE c \in revealed -> "already_revealed"
      [] c \notin revealed /\ balance = 0 -> "no_balance"
      [] /\ c \notin revealed
         /\ balance > 0
         /\ limit # Null
         /\ SpentUp(s) \/ s \notin team \/ allocation[s] = Null -> "allocation_spent"
      [] OTHER -> "charged"

(* consumeReveal's transaction, when the answer is "charged". *)
Charge(limit, s, c) ==
    /\ revealed' = revealed \cup {c}
    /\ balance' = balance - 1
    /\ used' = IF limit = Null THEN used ELSE [used EXCEPT ![s] = @ + 1]
    /\ ledger' = [ledger EXCEPT !["consume"] = @ - 1]
    /\ charges' = [charges EXCEPT ![c] = @ + 1]

(* Faulty variant: a refused candidate is recorded all the same. *)
ConcludeAnyway(limit, s, c) ==
    /\ IF Answer(limit, s, c) = "charged" THEN Charge(limit, s, c)
       ELSE UNCHANGED <<revealed, balance, used, ledger, charges>>
    /\ recorded' = recorded \cup {c}
    /\ UNCHANGED <<company, welcomed, allocation, live>>

(* The end of POST /api/hr/candidates/:id/reveal: charged or already held,  *)
(* the candidate is recorded as opened; refused, nothing happens.          *)
Conclude(limit, s, c) ==
    LET answer == Answer(limit, s, c) IN
    /\ IF answer = "charged" THEN Charge(limit, s, c)
       ELSE UNCHANGED <<revealed, balance, used, ledger, charges>>
    /\ recorded' = IF answer \in {"charged", "already_revealed"}
                   THEN recorded \cup {c} ELSE recorded
    /\ UNCHANGED <<company, welcomed, allocation, live>>

(* The whole route when the first attempt decides. *)
Reveal(s, c) ==
    /\ s \in team
    /\ c \in live
    /\ ~(Answer(allocation[s], s, c) = "no_balance" /\ autoPack)
    /\ Conclude(allocation[s], s, c)
    /\ UNCHANGED request

(* The wallet is empty and there is a standing instruction to refill it:    *)
(* the handler waits for the payment, holding the allowance it has read.   *)
RequestTopUp(r, s, c) ==
    /\ request[r] = Idle
    /\ s \in team
    /\ c \in live
    /\ Answer(allocation[s], s, c) = "no_balance"
    /\ autoPack
    /\ request' = [request EXCEPT ![r] =
         [pc |-> "paying", seat |-> s, candidate |-> c, allocation |-> allocation[s]]]
    /\ UNCHANGED <<company, shares, balance, welcomed, live, revealed, recorded,
                   ledger, charges>>

(* autoReplenish: the payment settles and the pack is credited. *)
TopUpPaid(r) ==
    /\ request[r].pc = "paying"
    /\ Bought < MaxPacks * Pack
    /\ Credit("auto_purchase", Pack)
    /\ request' = [request EXCEPT ![r].pc = "credited"]
    /\ UNCHANGED <<company, used, welcomed, live, revealed, recorded, charges>>

(* autoReplenish: declined, or the provider failed.  The reveal is refused. *)
TopUpDeclined(r) ==
    /\ request[r].pc = "paying"
    /\ request' = [request EXCEPT ![r] = Idle]
    /\ UNCHANGED <<company, shares, balance, welcomed, live, revealed, recorded,
                   ledger, charges>>

(* The second and last attempt, with the allowance read before the payment. *)
Retry(r) ==
    /\ request[r].pc = "credited"
    /\ Conclude(request[r].allocation, request[r].seat, request[r].candidate)
    /\ request' = [request EXCEPT ![r] = Idle]

(* A candidate erases their account. *)
DeleteCandidate(c) ==
    /\ c \in live
    /\ live' = live \ {c}
    /\ revealed' = revealed \ {c}
    /\ recorded' = recorded \ {c}
    /\ UNCHANGED <<company, shares, balance, welcomed, ledger, request, charges>>

-----------------------------------------------------------------------------
(***************************************************************************)
(* Crashes                                                                 *)
(***************************************************************************)

(* The process dies and comes back: requests in flight are gone, and the    *)
(* boot migration grants what was never granted and takes over reveals     *)
(* that were recorded and never charged for.                               *)
Restart ==
    /\ registration # "none"
    /\ registration' = IF registration = "hashing" THEN "lost" ELSE registration
    /\ request' = [r \in Requests |-> Idle]
    /\ GrantComplimentaryReveals
    /\ revealed' = revealed \cup recorded
    /\ UNCHANGED <<team, split, autoPack, used, live, recorded, charges>>

(* ... between the charge and the row that opens the candidate. *)
CrashAfterCharge(s, c) ==
    /\ s \in team
    /\ c \in live
    /\ Answer(allocation[s], s, c) = "charged"
    /\ Charge(allocation[s], s, c)
    /\ request' = [r \in Requests |-> Idle]
    /\ UNCHANGED <<company, welcomed, allocation, live, recorded>>

-----------------------------------------------------------------------------
(* Everything but what sets allowances apart from an equal split. *)
NextDefault ==
    \/ RegisterCompany
    \/ RegisterAdmin
    \/ \E s \in Colleagues : Join(s) \/ Leave(s)
    \/ Purchase
    \/ \E on \in BOOLEAN : SetAutoReplenish(on)
    \/ \E s \in Seats, c \in Candidates : Reveal(s, c) \/ CrashAfterCharge(s, c)
    \/ \E r \in Requests, s \in Seats, c \in Candidates : RequestTopUp(r, s, c)
    \/ \E r \in Requests : TopUpPaid(r) \/ TopUpDeclined(r) \/ Retry(r)
    \/ \E c \in Candidates : DeleteCandidate(c)
    \/ Restart

Next ==
    \/ NextDefault
    \/ \E gone \in SUBSET Colleagues : Renewal(gone)
    \/ \E on \in BOOLEAN : SetSplitEqually(on)
    \/ \E given \in AllocationMaps : SetRevealAllocations(given)

Spec == Init /\ [][Next]_vars

(* An organization that leaves the split as registration set it, and takes  *)
(* no seats back.                                                          *)
SpecDefault == Init /\ [][NextDefault]_vars

-----------------------------------------------------------------------------
(***************************************************************************)
(* Properties                                                              *)
(***************************************************************************)

Remaining(s) == allocation[s] - used[s]

Assigned == MapThenSumSet(Remaining, {s \in team : allocation[s] # Null})

(* "No balance changes unrecorded": the billing history always replays to   *)
(* the balance, whichever of registration, purchase, top-up, reveal and    *)
(* restart wrote it.                                                       *)
LedgerAgrees ==
    balance = ledger["grant"] + ledger["purchase"]
                + ledger["auto_purchase"] + ledger["consume"]

(* The complimentary reveals are granted once, however often the boot       *)
(* migration runs and whatever registration it interrupted.                *)
WelcomedOnce == ledger["grant"] = IF welcomed THEN Welcome ELSE 0

(* An organization pays once per candidate: with requests for the same      *)
(* candidate waiting for top-ups side by side, retried, crashed and        *)
(* restarted, a candidate is held exactly when one reveal was charged.     *)
PaidOnce ==
    \A c \in live : charges[c] = IF c \in revealed THEN 1 ELSE 0

(* Nobody is opened to the recruiters unless the organization holds them.   *)
OpenedIsHeld == recorded \subseteq revealed

(* A seat never draws more than its allowance, through redistributions,     *)
(* top-ups and requests that read the allowance before it changed.         *)
AllowanceHeld ==
    \A s \in team : allocation[s] # Null => used[s] <= allocation[s]

(* While the capacity divides itself, what the seats may still draw is      *)
(* exactly the balance: none promised twice and none nobody may spend.     *)
SharesAreTheBalance ==
    Admin \in team =>
      /\ \A s \in team : allocation[s] # Null
      /\ Assigned = balance

(* "A purchase adds to each allowance, it does not level them": new         *)
(* capacity leaves nobody with less than they had.                         *)
CreditLowersNobody ==
    [][balance' > balance =>
         \A s \in team : Remaining(s)' >= Remaining(s)]_vars

(* The money of the wallet: nothing below zero, a history that replays to   *)
(* the balance, and one welcome, also for an organization that the process  *)
(* left half registered (creditReveals, grantComplimentaryReveals).        *)
BalanceIsSound == TypeOK /\ LedgerAgrees /\ WelcomedOnce
=============================================================================
