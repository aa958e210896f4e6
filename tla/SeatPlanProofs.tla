--------------------------- MODULE SeatPlanProofs ---------------------------
(***************************************************************************)
(* Proofs about SeatPlan, for any team, any number of included, sold and   *)
(* carried-over seats.                                                     *)
(***************************************************************************)
EXTENDS SeatPlan, DataLemmas

SeatInv == SeatTypeOK /\ SeatLedgerAgrees

(* Whoever stays after a reduction was there before it. *)
LEMMA KeepersTyped ==
  ASSUME NEW people \in Seq(Colleagues), NEW seats \in Nat
  PROVE  Keepers(people, seats) \in Seq(Colleagues)
BY SeatAssumption DEF Keepers, Room

(* Reading the entitlement keeps the books, whatever accounts there are.    *)
LEMMA ApplyDueKeeps ==
  ASSUME SeatInv, NEW people \in Seq(Colleagues), ApplyDue(people)
  PROVE  /\ team' \in Seq(Colleagues)
         /\ purchased' \in Nat
         /\ pending' \in Nat \cup {NoChange}
         /\ pendingAt' \in {"none", "ahead", "past"}
         /\ anchored' \in BOOLEAN
         /\ seatLedger' \in Int
         /\ paidSeats' \in Nat
         /\ seatLedger' = purchased'
         /\ purchased' < purchased => Due /\ purchased' >= pending
<1>1. SeatTypeOK /\ seatLedger = purchased
  BY DEF SeatInv, SeatLedgerAgrees
<1>2. CASE Due
  <2>1. pending \in Nat
    BY <1>1, <1>2 DEF SeatTypeOK, Due
  <2>2. team' \in Seq(Colleagues)
    BY <1>2, <2>1, KeepersTyped DEF ApplyDue
  <2> QED BY <1>1, <1>2, <2>1, <2>2 DEF ApplyDue, SeatTypeOK, Smaller
<1>3. CASE ~Due
  BY <1>1, <1>3 DEF ApplyDue, SeatTypeOK
<1> QED BY <1>2, <1>3

(* setSeatPlan keeps the books on whatever row it runs on.                  *)
LEMMA SetSeatPlanKeeps ==
  ASSUME NEW seats \in Nat, NEW before \in Nat, NEW anchor \in BOOLEAN,
         NEW at \in {"none", "ahead", "past"}, NEW ledgerNow \in Int,
         ledgerNow = before,
         SetSeatPlan(seats, before, anchor, at, ledgerNow)
  PROVE  /\ purchased' \in Nat
         /\ pending' \in Nat \cup {NoChange}
         /\ pendingAt' \in {"none", "ahead", "past"}
         /\ anchored' \in BOOLEAN
         /\ seatLedger' \in Int
         /\ seatLedger' = purchased'
         /\ purchased' >= before
<1>1. CASE seats < before
  BY <1>1 DEF SetSeatPlan
<1>2. CASE ~(seats < before)
  BY <1>2 DEF SetSeatPlan
<1> QED BY <1>1, <1>2

-----------------------------------------------------------------------------
(* A new organization holds no additional seats and has no history. *)
LEMMA SeatInvInit == SeatInit => SeatInv
<1> SUFFICES ASSUME SeatInit PROVE SeatTypeOK /\ SeatLedgerAgrees
  BY DEF SeatInv
<1>1. team \in Seq(Colleagues)
  BY DEF SeatInit
<1>2. joining \subseteq Colleagues /\ paying \subseteq 0..SelfServeMax
  BY DEF SeatInit
<1>3. /\ purchased = 0 /\ seatLedger = 0 /\ paidSeats = 0
      /\ pending = NoChange /\ pendingAt = "none"
  BY DEF SeatInit
<1>4. anchored \in BOOLEAN
  BY Zenon DEF SeatInit
<1> QED BY <1>1, <1>2, <1>3, <1>4 DEF SeatTypeOK, SeatLedgerAgrees

(* A step keeps the invariant, and only applying a due reduction takes      *)
(* seats away.                                                             *)
LEMMA SeatInvStep ==
  ASSUME SeatInv, [SeatNext]_seatVars
  PROVE  SeatInv' /\ (purchased' < purchased => Due /\ purchased' >= pending)
<1> DEFINE Fell == purchased' < purchased => Due /\ purchased' >= pending
<1>0. SeatTypeOK /\ seatLedger = purchased /\ team \in Seq(Colleagues) /\ purchased \in Nat
  BY DEF SeatInv, SeatTypeOK, SeatLedgerAgrees
<1>1. ASSUME NEW people \in Seq(Colleagues), ApplyDue(people),
             joining' \subseteq Colleagues, paying' \subseteq 0..SelfServeMax
      PROVE  SeatInv' /\ Fell
  BY <1>1, ApplyDueKeeps DEF SeatInv, SeatTypeOK, SeatLedgerAgrees
<1>2. CASE ReadEntitlement
  BY <1>0, <1>1, <1>2 DEF ReadEntitlement, SeatTypeOK
<1>3. CASE MonthEnds
  BY <1>0, <1>3 DEF MonthEnds, SeatInv, SeatTypeOK, SeatLedgerAgrees
<1>4. ASSUME NEW p \in Colleagues, RequestJoin(p)
      PROVE  SeatInv' /\ Fell
  BY <1>0, <1>1, <1>4 DEF RequestJoin, SeatTypeOK
<1>5. CASE RefuseJoin
  BY <1>0, <1>1, <1>5 DEF RefuseJoin, SeatTypeOK
<1>6. ASSUME NEW p \in Colleagues, FinishJoin(p)
      PROVE  SeatInv' /\ Fell
  <2>1. Append(team, p) \in Seq(Colleagues)
    BY <1>0
  <2> QED BY <1>0, <1>1, <1>6, <2>1 DEF FinishJoin, SeatTypeOK
<1>7. ASSUME NEW p \in Colleagues, Leave(p)
      PROVE  SeatInv' /\ Fell
  <2>1. PICK i \in DOMAIN team : ApplyDue(RemoveAt(team, i))
    BY <1>7 DEF Leave
  <2>2. i \in 1..Len(team)
    BY <1>0
  <2>3. RemoveAt(team, i) \in Seq(Colleagues)
    BY <1>0, <2>2 DEF RemoveAt
  <2> QED BY <1>0, <1>1, <1>7, <2>1, <2>3 DEF Leave, SeatTypeOK
<1>8. ASSUME NEW seats \in 0..SelfServeMax, ChangePlanUncharged(seats)
      PROVE  SeatInv' /\ Fell
  <2>1. seats \in Nat
    BY SeatAssumption
  <2>2. /\ paidSeats' = IF Due THEN Smaller(paidSeats, pending) ELSE paidSeats
        /\ team' = IF Due THEN Keepers(team, pending) ELSE team
        /\ UNCHANGED <<joining, paying>>
    BY <1>8 DEF ChangePlanUncharged
  <2>3. CASE Due
    <3>1. pending \in Nat
      BY <1>0, <2>3 DEF Due, SeatTypeOK
    <3>2. SetSeatPlan(seats, pending, pending > 0, "none", seatLedger + (pending - purchased))
      BY <1>8, <2>3 DEF ChangePlanUncharged, PurchasedNow
    <3>3. seatLedger + (pending - purchased) = pending /\ (pending > 0) \in BOOLEAN
      BY <1>0, <3>1
    <3>4. team' \in Seq(Colleagues)
      BY <1>0, <2>2, <2>3, <3>1, KeepersTyped
    <3>5. paidSeats' \in Nat
      BY <1>0, <2>2, <2>3, <3>1 DEF Smaller, SeatTypeOK
    <3> DEFINE ledgerNow == seatLedger + (pending - purchased)
    <3>6. ledgerNow \in Int /\ ledgerNow = pending
      BY <1>0, <3>1, <3>3
    <3> HIDE DEF ledgerNow
    <3>7. SetSeatPlan(seats, pending, pending > 0, "none", ledgerNow)
      BY <3>2 DEF ledgerNow
    <3>8. /\ purchased' \in Nat /\ pending' \in Nat \cup {NoChange}
          /\ pendingAt' \in {"none", "ahead", "past"} /\ anchored' \in BOOLEAN
          /\ seatLedger' \in Int /\ seatLedger' = purchased' /\ purchased' >= pending
      BY <2>1, <3>1, <3>3, <3>6, <3>7, SetSeatPlanKeeps
    <3>9. joining' \subseteq Colleagues /\ paying' \subseteq 0..SelfServeMax
      BY <1>0, <2>2 DEF SeatTypeOK
    <3> QED BY <2>3, <3>4, <3>5, <3>8, <3>9 DEF SeatInv, SeatTypeOK, SeatLedgerAgrees
  <2>4. CASE ~Due
    <3>1. SetSeatPlan(seats, purchased, anchored, pendingAt, seatLedger)
      BY <1>8, <2>4 DEF ChangePlanUncharged, PurchasedNow
    <3> QED
      BY <1>0, <2>1, <2>2, <2>4, <3>1, SetSeatPlanKeeps DEF SeatInv, SeatTypeOK, SeatLedgerAgrees
  <2> QED BY <2>3, <2>4
<1>9. ASSUME NEW seats \in 0..SelfServeMax, RequestIncrease(seats)
      PROVE  SeatInv' /\ Fell
  BY <1>0, <1>1, <1>9 DEF RequestIncrease, SeatTypeOK
<1>10. ASSUME NEW seats \in 0..SelfServeMax, IncreasePaid(seats)
       PROVE  SeatInv' /\ Fell
  <2>1. seats \in Nat
    BY SeatAssumption
  <2> QED
    BY <1>0, <1>10, <2>1, SetSeatPlanKeeps
    DEF IncreasePaid, SeatInv, SeatTypeOK, SeatLedgerAgrees
<1>11. ASSUME NEW seats \in 0..SelfServeMax, IncreaseDeclined(seats)
       PROVE  SeatInv' /\ Fell
  BY <1>0, <1>11 DEF IncreaseDeclined, SeatInv, SeatTypeOK, SeatLedgerAgrees
<1>12. CASE Boot
  <2>1. CarriedOver \in Int
    BY SeatAssumption DEF CarriedOver
  <2> QED BY <1>0, <1>12, <2>1 DEF Boot, SeatInv, SeatTypeOK, SeatLedgerAgrees
<1>13. CASE UNCHANGED seatVars
  BY <1>0, <1>13 DEF seatVars, SeatInv, SeatTypeOK, SeatLedgerAgrees
<1> QED
  BY <1>2, <1>3, <1>4, <1>5, <1>6, <1>7, <1>8, <1>9, <1>10, <1>11, <1>12, <1>13
  DEF SeatNext

-----------------------------------------------------------------------------
(* The inductive invariant holds in every reachable state. *)
THEOREM SeatInvariant == SeatSpec => []SeatInv
<1>1. SeatInv /\ [SeatNext]_seatVars => SeatInv'
  BY SeatInvStep
<1> QED BY <1>1, SeatInvInit, PTL DEF SeatSpec

(* The seat variables keep their types: a team is a sequence of colleagues  *)
(* and the seats held are never negative.                                  *)
THEOREM SeatTypeCorrect == SeatSpec => []SeatTypeOK
BY SeatInvariant, PTL DEF SeatInv

(* The seat entries of the billing history add up to the seats held, at     *)
(* every moment and whichever reader applied a reduction.                  *)
THEOREM SeatLedgerReplays == SeatSpec => []SeatLedgerAgrees
BY SeatInvariant, PTL DEF SeatInv

(* Seats are only taken away by a reduction that was scheduled and whose    *)
(* date has passed.                                                        *)
THEOREM SeatsFallWhenDue == SeatSpec => PaidMonthIsKept
<1>1. SeatInv /\ [SeatNext]_seatVars
        => [purchased' < purchased => Due /\ purchased' >= pending]_seatVars
  BY SeatInvStep
<1> QED BY <1>1, SeatInvariant, PTL DEF SeatSpec, PaidMonthIsKept

(* Seats and their history agree for any team and any plan, with all eight  *)
(* readers of the entitlement racing (applyDueSeatChange).                 *)
THEOREM SeatsStaySound == SeatSpec => []SeatsAreSound
BY SeatTypeCorrect, SeatLedgerReplays, PTL DEF SeatsAreSound
-----------------------------------------------------------------------------
(* Nobody holds two seats, and nobody joins who is there. *)
Distinct(people) == \A i, j \in DOMAIN people : people[i] = people[j] => i = j

SeatedOnce == Distinct(team) /\ ToSet(team) \cap joining = {}

(* Accounts of `people` that went although somebody newer stayed. *)
OutOfTurn(people, kept) ==
    {i \in DOMAIN people :
        /\ people[i] \notin ToSet(kept)
        /\ \E j \in (i+1)..Len(people) : people[j] \in ToSet(kept)}

(* Whoever stays is a beginning of whoever was there, and there is room for them. *)
LEMMA OldestStay ==
  ASSUME NEW people \in Seq(Colleagues), Distinct(people), NEW seats \in Nat,
         NEW kept, kept = Keepers(people, seats)
  PROVE  /\ kept \in Seq(Colleagues) /\ Distinct(kept) /\ Len(kept) <= Room(seats)
         /\ ToSet(kept) \subseteq ToSet(people)
         /\ \A i, j \in DOMAIN people : i <= j /\ people[j] \in ToSet(kept) => people[i] \in ToSet(kept)
<1>1. Room(seats) \in Nat /\ Len(people) \in Nat /\ DOMAIN people = 1..Len(people)
  BY SeatAssumption DEF Room
<1>2. CASE Len(people) <= Room(seats)
  <2>1. kept = people
    BY <1>2 DEF Keepers
  <2> QED BY <1>1, <1>2, <2>1 DEF ToSet
<1>3. CASE ~ (Len(people) <= Room(seats))
  <2> DEFINE n == Room(seats)
  <2>1. kept = SubSeq(people, 1, n) /\ n < Len(people) /\ n \in Nat
    BY <1>1, <1>3 DEF Keepers
  <2> HIDE DEF n
  <2>2. /\ kept \in Seq(Colleagues) /\ Len(kept) = n /\ DOMAIN kept = 1..n
        /\ \A i \in 1..n : kept[i] = people[i]
    BY <1>1, <2>1, SubSeqProperties
  <2>3. ToSet(kept) = {people[i] : i \in 1..n}
    BY <2>2 DEF ToSet
  <2>4. 1..n \subseteq DOMAIN people
    BY <1>1, <2>1
  <2>5. Distinct(kept)
    BY <2>2, <2>4 DEF Distinct
  <2>6. ToSet(kept) \subseteq ToSet(people)
    BY <2>3, <2>4 DEF ToSet
  <2>7. ASSUME NEW i \in DOMAIN people, NEW j \in DOMAIN people, i <= j, people[j] \in ToSet(kept)
        PROVE  people[i] \in ToSet(kept)
    <3>1. PICK k \in 1..n : people[j] = people[k]
      BY <2>3, <2>7
    <3>2. j = k
      BY <2>4, <3>1 DEF Distinct
    <3>3. i \in 1..n
      BY <1>1, <2>1, <2>7, <3>2
    <3> QED BY <2>3, <3>3
  <2>8. Len(kept) <= Room(seats)
    BY <2>1, <2>2 DEF n
  <2> QED BY <2>2, <2>5, <2>6, <2>7, <2>8
<1> QED BY <1>2, <1>3

(* Nobody goes out of turn, but whoever leaves by their own name. *)
LEMMA OneAtMostGoes ==
  ASSUME NEW people \in Seq(Colleagues), NEW kept, NEW i,
         \A j, k \in DOMAIN people :
            j # i /\ j <= k /\ people[k] \in ToSet(kept) => people[j] \in ToSet(kept)
  PROVE  Cardinality(OutOfTurn(people, kept)) <= 1
<1>1. OutOfTurn(people, kept) \subseteq {i}
  <2>1. ASSUME NEW j \in OutOfTurn(people, kept), j # i PROVE FALSE
    <3>1. /\ j \in DOMAIN people /\ people[j] \notin ToSet(kept)
          /\ \E k \in (j+1)..Len(people) : people[k] \in ToSet(kept)
      BY <2>1 DEF OutOfTurn
    <3>2. PICK k \in (j+1)..Len(people) : people[k] \in ToSet(kept)
      BY <3>1
    <3>3. k \in DOMAIN people /\ j <= k
      BY <3>1
    <3> QED BY <2>1, <3>1, <3>2, <3>3
  <2> QED BY <2>1
<1>2. IsFiniteSet({i}) /\ Cardinality({i}) = 1
  BY FS_Singleton
<1>3. Cardinality(OutOfTurn(people, kept)) <= Cardinality({i})
  BY <1>1, <1>2, FS_Subset
<1> QED BY <1>2, <1>3

(* What reading the entitlement makes of the team. *)
LEMMA ApplyDueInTurn ==
  ASSUME SeatInv, NEW people \in Seq(Colleagues), Distinct(people), ApplyDue(people)
  PROVE  /\ team' \in Seq(Colleagues) /\ Distinct(team') /\ ToSet(team') \subseteq ToSet(people)
         /\ purchased' < purchased => Len(team') <= Room(purchased')
         /\ \A i, j \in DOMAIN people :
              i <= j /\ people[j] \in ToSet(team') => people[i] \in ToSet(team')
<1>1. CASE Due
  <2>1. pending \in Nat
    BY <1>1 DEF SeatInv, SeatTypeOK, Due
  <2>2. team' = Keepers(people, pending) /\ purchased' = pending
    BY <1>1 DEF ApplyDue
  <2>3. PICK kept : kept = Keepers(people, pending)
    OBVIOUS
  <2>4. /\ kept \in Seq(Colleagues) /\ Distinct(kept) /\ Len(kept) <= Room(pending)
        /\ ToSet(kept) \subseteq ToSet(people)
        /\ \A i, j \in DOMAIN people : i <= j /\ people[j] \in ToSet(kept) => people[i] \in ToSet(kept)
    BY <2>1, <2>3, OldestStay
  <2> QED BY <2>2, <2>3, <2>4
<1>2. CASE ~ Due
  <2>1. team' = people /\ purchased' = purchased
    BY <1>2 DEF ApplyDue
  <2>2. purchased \in Nat /\ DOMAIN people = 1..Len(people)
    BY DEF SeatInv, SeatTypeOK
  <2> QED BY <2>1, <2>2 DEF ToSet
<1> QED BY <1>1, <1>2

(* Accounts that were there stay in turn when somebody joins behind them ... *)
LEMMA JoiningInTurn ==
  ASSUME NEW people \in Seq(Colleagues), Distinct(people), NEW p \in Colleagues, p \notin ToSet(people)
  PROVE  /\ Append(people, p) \in Seq(Colleagues) /\ Distinct(Append(people, p))
         /\ ToSet(Append(people, p)) = ToSet(people) \cup {p}
         /\ DOMAIN people \subseteq DOMAIN Append(people, p)
         /\ \A i \in DOMAIN people : Append(people, p)[i] = people[i]
<1> DEFINE more == Append(people, p)
<1>1. /\ Len(people) \in Nat /\ DOMAIN people = 1..Len(people)
      /\ more \in Seq(Colleagues) /\ DOMAIN more = 1..(Len(people) + 1)
      /\ \A i \in 1..Len(people) : more[i] = people[i]
      /\ more[Len(people) + 1] = p
  OBVIOUS
<1> HIDE DEF more
<1>2. DOMAIN more = DOMAIN people \cup {Len(people) + 1} /\ Len(people) + 1 \notin DOMAIN people
  BY <1>1
<1>3. Distinct(more)
  BY <1>1, <1>2 DEF Distinct, ToSet
<1>4. ToSet(more) = ToSet(people) \cup {p}
  BY <1>1, <1>2 DEF ToSet
<1> QED BY <1>1, <1>2, <1>3, <1>4 DEF more

(* ... and when somebody leaves from among them. *)
LEMMA LeavingInTurn ==
  ASSUME NEW people \in Seq(Colleagues), Distinct(people), NEW i \in DOMAIN people,
         NEW left, left = RemoveAt(people, i)
  PROVE  /\ left \in Seq(Colleagues) /\ Distinct(left) /\ ToSet(left) = ToSet(people) \ {people[i]}
         /\ \A kept :
              /\ ToSet(kept) \subseteq ToSet(left)
              /\ \A j, k \in DOMAIN left : j <= k /\ left[k] \in ToSet(kept) => left[j] \in ToSet(kept)
              => \A j, k \in DOMAIN people :
                   j # i /\ j <= k /\ people[k] \in ToSet(kept) => people[j] \in ToSet(kept)
<1>1. /\ left \in Seq(Colleagues) /\ DOMAIN left = 1..(Len(people) - 1)
      /\ \A j \in 1..(Len(people) - 1) : left[j] = IF j < i THEN people[j] ELSE people[j + 1]
      /\ Len(people) \in Nat /\ DOMAIN people = 1..Len(people) /\ i \in 1..Len(people)
  BY RemovedAt
<1> DEFINE place(j) == IF j < i THEN j ELSE j - 1
<1>2. \A j \in DOMAIN people : j # i => place(j) \in DOMAIN left /\ left[place(j)] = people[j]
  BY <1>1
<1>3. \A j, k \in DOMAIN people : j # i /\ k # i /\ j <= k => place(j) <= place(k)
  BY <1>1
<1>4. \A j \in DOMAIN left : \E k \in DOMAIN people :
        k # i /\ left[j] = people[k] /\ k = (IF j < i THEN j ELSE j + 1)
  BY <1>1
<1>5. Distinct(left)
  <2>1. ASSUME NEW j \in DOMAIN left, NEW k \in DOMAIN left, left[j] = left[k] PROVE j = k
    <3>1. PICK a \in DOMAIN people : left[j] = people[a] /\ a = (IF j < i THEN j ELSE j + 1)
      BY <1>4
    <3>2. PICK b \in DOMAIN people : left[k] = people[b] /\ b = (IF k < i THEN k ELSE k + 1)
      BY <1>4
    <3>3. a = b
      BY <2>1, <3>1, <3>2 DEF Distinct
    <3> QED BY <1>1, <3>1, <3>2, <3>3
  <2> QED BY <2>1 DEF Distinct
<1>6. ToSet(left) = ToSet(people) \ {people[i]}
  <2>1. ASSUME NEW j \in DOMAIN left PROVE left[j] \in ToSet(people) \ {people[i]}
    BY <1>4 DEF ToSet, Distinct
  <2>2. ASSUME NEW j \in DOMAIN people, people[j] # people[i] PROVE people[j] \in ToSet(left)
    BY <1>2, <2>2 DEF ToSet
  <2> QED BY <2>1, <2>2 DEF ToSet
<1>7. ASSUME NEW kept, ToSet(kept) \subseteq ToSet(left),
             \A j, k \in DOMAIN left : j <= k /\ left[k] \in ToSet(kept) => left[j] \in ToSet(kept),
             NEW j \in DOMAIN people, NEW k \in DOMAIN people, j # i, j <= k, people[k] \in ToSet(kept)
      PROVE  people[j] \in ToSet(kept)
  <2>1. k # i
    BY <1>6, <1>7
  <2>2. /\ place(j) \in DOMAIN left /\ left[place(j)] = people[j]
        /\ place(k) \in DOMAIN left /\ left[place(k)] = people[k]
    BY <1>2, <1>7, <2>1
  <2>3. place(j) <= place(k)
    BY <1>3, <1>7, <2>1
  <2> HIDE DEF place
  <2> QED BY <1>7, <2>2, <2>3
<1> QED BY <1>1, <1>5, <1>6, <1>7

(* Only applying a reduction takes accounts, and it takes them in turn. *)
LEMMA TeamStep ==
  ASSUME SeatInv, SeatedOnce, [SeatNext]_seatVars
  PROVE  /\ SeatedOnce'
         /\ purchased' < purchased =>
              /\ Len(team') <= Room(purchased')
              /\ Cardinality(OutOfTurn(team, team')) <= 1
<1> DEFINE InTurn == purchased' < purchased =>
              /\ Len(team') <= Room(purchased')
              /\ Cardinality(OutOfTurn(team, team')) <= 1
<1>0. /\ team \in Seq(Colleagues) /\ purchased \in Nat /\ DOMAIN team = 1..Len(team) /\ Len(team) \in Nat
      /\ Distinct(team) /\ ToSet(team) \cap joining = {}
  BY DEF SeatInv, SeatTypeOK, SeatedOnce
<1>1. ASSUME ApplyDue(team) PROVE Distinct(team') /\ ToSet(team') \subseteq ToSet(team) /\ InTurn
  <2>1. /\ Distinct(team') /\ ToSet(team') \subseteq ToSet(team)
        /\ purchased' < purchased => Len(team') <= Room(purchased')
        /\ \A i, j \in DOMAIN team : i <= j /\ team[j] \in ToSet(team') => team[i] \in ToSet(team')
    BY <1>0, <1>1, ApplyDueInTurn
  <2>2. PICK kept : kept = team'
    OBVIOUS
  <2>3. \A j, k \in DOMAIN team : j # 0 /\ j <= k /\ team[k] \in ToSet(kept) => team[j] \in ToSet(kept)
    BY <2>1, <2>2
  <2>4. Cardinality(OutOfTurn(team, kept)) <= 1
    BY <1>0, <2>3, OneAtMostGoes
  <2> QED BY <2>1, <2>2, <2>4
<1>2. ASSUME UNCHANGED <<team, joining>>, ~ (purchased' < purchased) PROVE SeatedOnce' /\ InTurn
  <2>1. SeatedOnce'
    BY <1>2 DEF SeatedOnce, Distinct, ToSet
  <2> QED BY <1>2, <2>1
<1>3. CASE ReadEntitlement
  BY <1>0, <1>1, <1>3 DEF ReadEntitlement, SeatedOnce, Distinct, ToSet
<1>4. CASE MonthEnds
  BY <1>0, <1>2, <1>4 DEF MonthEnds
<1>5. ASSUME NEW p \in Colleagues, RequestJoin(p) PROVE SeatedOnce' /\ InTurn
  <2>1. /\ p \notin ToSet(team) /\ ApplyDue(team) /\ joining' = joining \cup {p}
    BY <1>5 DEF RequestJoin, Members
  <2>2. Distinct(team') /\ ToSet(team') \subseteq ToSet(team) /\ InTurn
    BY <1>1, <2>1
  <2>3. ToSet(team') \cap joining' = {}
    BY <1>0, <2>1, <2>2
  <2> QED BY <2>2, <2>3 DEF SeatedOnce, Distinct, ToSet
<1>6. CASE RefuseJoin
  BY <1>0, <1>1, <1>6 DEF RefuseJoin, SeatedOnce, Distinct, ToSet
<1>7. ASSUME NEW p \in Colleagues, FinishJoin(p) PROVE SeatedOnce' /\ InTurn
  <2>1. p \in joining /\ joining' = joining \ {p} /\ p \notin ToSet(team)
    BY <1>0, <1>7 DEF FinishJoin
  <2>2. PICK more : more = Append(team, p)
    OBVIOUS
  <2>3. /\ more \in Seq(Colleagues) /\ Distinct(more) /\ ToSet(more) = ToSet(team) \cup {p}
        /\ DOMAIN team \subseteq DOMAIN more /\ \A i \in DOMAIN team : more[i] = team[i]
    BY <1>0, <2>1, <2>2, JoiningInTurn
  <2>4. ApplyDue(more)
    BY <1>7, <2>2 DEF FinishJoin
  <2>5. /\ Distinct(team') /\ ToSet(team') \subseteq ToSet(more)
        /\ purchased' < purchased => Len(team') <= Room(purchased')
        /\ \A i, j \in DOMAIN more : i <= j /\ more[j] \in ToSet(team') => more[i] \in ToSet(team')
    BY <2>3, <2>4, ApplyDueInTurn
  <2>6. PICK kept : kept = team'
    OBVIOUS
  <2>7. \A j, k \in DOMAIN team : j # 0 /\ j <= k /\ team[k] \in ToSet(kept) => team[j] \in ToSet(kept)
    BY <2>3, <2>5, <2>6
  <2>8. Cardinality(OutOfTurn(team, kept)) <= 1
    BY <1>0, <2>7, OneAtMostGoes
  <2>9. ToSet(team') \cap joining' = {}
    BY <1>0, <2>1, <2>3, <2>5
  <2>10. SeatedOnce'
    BY <2>5, <2>9 DEF SeatedOnce, Distinct, ToSet
  <2> QED BY <2>5, <2>6, <2>8, <2>10
<1>8. ASSUME NEW p \in Colleagues, Leave(p) PROVE SeatedOnce' /\ InTurn
  <2>1. PICK i \in DOMAIN team : ApplyDue(RemoveAt(team, i)) /\ joining' = joining
    BY <1>8 DEF Leave
  <2>2. PICK left : left = RemoveAt(team, i)
    OBVIOUS
  <2>3. left \in Seq(Colleagues) /\ Distinct(left) /\ ToSet(left) = ToSet(team) \ {team[i]}
    BY <1>0, <2>2, LeavingInTurn
  <2>4. \A kept :
          /\ ToSet(kept) \subseteq ToSet(left)
          /\ \A j, k \in DOMAIN left : j <= k /\ left[k] \in ToSet(kept) => left[j] \in ToSet(kept)
          => \A j, k \in DOMAIN team :
               j # i /\ j <= k /\ team[k] \in ToSet(kept) => team[j] \in ToSet(kept)
    BY <1>0, <2>2, LeavingInTurn
  <2>5. ApplyDue(left)
    BY <2>1, <2>2
  <2>6. /\ Distinct(team') /\ ToSet(team') \subseteq ToSet(left)
        /\ purchased' < purchased => Len(team') <= Room(purchased')
        /\ \A j, k \in DOMAIN left : j <= k /\ left[k] \in ToSet(team') => left[j] \in ToSet(team')
    BY <2>3, <2>5, ApplyDueInTurn
  <2>7. PICK kept : kept = team'
    OBVIOUS
  <2>8. \A j, k \in DOMAIN team : j # i /\ j <= k /\ team[k] \in ToSet(kept) => team[j] \in ToSet(kept)
    BY <2>4, <2>6, <2>7
  <2>9. Cardinality(OutOfTurn(team, kept)) <= 1
    BY <1>0, <2>8, OneAtMostGoes
  <2>10. SeatedOnce'
    BY <1>0, <2>1, <2>3, <2>6 DEF SeatedOnce, Distinct, ToSet
  <2> QED BY <2>6, <2>7, <2>9, <2>10
<1>9. ASSUME NEW seats \in 0..SelfServeMax, ChangePlanUncharged(seats) PROVE SeatedOnce' /\ InTurn
  <2>1. /\ team' = IF Due THEN Keepers(team, pending) ELSE team
        /\ joining' = joining
    BY <1>9 DEF ChangePlanUncharged
  <2>2. purchased' \in Nat /\ (purchased' < purchased => Due /\ purchased' >= pending)
    BY <1>9, SeatInvStep DEF SeatNext, SeatInv, SeatTypeOK
  <2>3. CASE Due
    <3>1. pending \in Nat
      BY <2>3 DEF SeatInv, SeatTypeOK, Due
    <3>2. PICK kept : kept = Keepers(team, pending)
      OBVIOUS
    <3>3. /\ kept \in Seq(Colleagues) /\ Distinct(kept) /\ Len(kept) <= Room(pending)
          /\ ToSet(kept) \subseteq ToSet(team)
          /\ \A i, j \in DOMAIN team : i <= j /\ team[j] \in ToSet(kept) => team[i] \in ToSet(kept)
      BY <1>0, <3>1, <3>2, OldestStay
    <3>4. \A j, k \in DOMAIN team : j # 0 /\ j <= k /\ team[k] \in ToSet(kept) => team[j] \in ToSet(kept)
      BY <3>3
    <3>5. Cardinality(OutOfTurn(team, kept)) <= 1
      BY <1>0, <3>4, OneAtMostGoes
    <3>6. team' = kept
      BY <2>1, <2>3, <3>2
    <3>7. purchased' < purchased => Len(team') <= Room(purchased')
      <4>1. Len(kept) \in Nat /\ Included \in Nat /\ Len(kept) <= Included + pending - 1
        BY <3>3, SeatAssumption DEF Room
      <4> QED BY <2>2, <3>1, <3>6, <4>1 DEF Room
    <3>8. SeatedOnce'
      BY <1>0, <2>1, <3>3, <3>6, SMTT(30) DEF SeatedOnce, Distinct, ToSet
    <3> QED BY <3>5, <3>6, <3>7, <3>8
  <2>4. CASE ~ Due
    BY <1>2, <2>1, <2>2, <2>4
  <2> QED BY <2>3, <2>4
<1>10. ASSUME NEW seats \in 0..SelfServeMax, RequestIncrease(seats) PROVE SeatedOnce' /\ InTurn
  BY <1>0, <1>1, <1>10 DEF RequestIncrease, SeatedOnce, Distinct, ToSet
<1>11. ASSUME NEW seats \in 0..SelfServeMax, IncreasePaid(seats) PROVE SeatedOnce' /\ InTurn
  <2>1. purchased' < purchased => Due /\ purchased' >= pending
    BY <1>11, SeatInvStep DEF SeatNext
  <2>2. ~ (purchased' < purchased)
    BY <1>0, <1>11, SeatAssumption DEF IncreasePaid, SetSeatPlan
  <2> QED BY <1>2, <1>11, <2>2 DEF IncreasePaid
<1>12. ASSUME NEW seats \in 0..SelfServeMax, IncreaseDeclined(seats) PROVE SeatedOnce' /\ InTurn
  BY <1>0, <1>2, <1>12 DEF IncreaseDeclined
<1>13. CASE Boot
  <2>1. ~ (purchased' < purchased)
    BY <1>0, <1>13, SeatAssumption DEF Boot, CarriedOver
  <2>2. SeatedOnce'
    BY <1>0, <1>13 DEF Boot, SeatedOnce, Distinct, ToSet
  <2> QED BY <2>1, <2>2
<1>14. CASE UNCHANGED seatVars
  BY <1>0, <1>2, <1>14 DEF seatVars
<1> QED
  BY <1>3, <1>4, <1>5, <1>6, <1>7, <1>8, <1>9, <1>10, <1>11, <1>12, <1>13, <1>14 DEF SeatNext

(* When seats go down the team that is left fits, and accounts go newest first, apart
   from one who was being deleted by name: seatsAtRisk picks whom applyDueSeatChange
   takes, whichever of its readers applies it. *)
THEOREM NewestLeaveFirst == SeatSpec => NewestGoFirst
<1>1. SeatInit => SeatedOnce
  BY DEF SeatInit, SeatedOnce, Distinct, ToSet
<1>2. SeatInv /\ SeatedOnce /\ [SeatNext]_seatVars => SeatedOnce'
  BY TeamStep
<1>3. SeatInv /\ SeatedOnce /\ [SeatNext]_seatVars =>
        [purchased' < purchased =>
           /\ Len(team') <= Room(purchased')
           /\ Cardinality({i \in DOMAIN team :
                /\ team[i] \notin ToSet(team')
                /\ \E j \in (i+1)..Len(team) : team[j] \in ToSet(team')}) <= 1]_seatVars
  BY TeamStep DEF OutOfTurn
<1> QED BY <1>1, <1>2, <1>3, SeatInvariant, PTL DEF SeatSpec, NewestGoFirst
=============================================================================
